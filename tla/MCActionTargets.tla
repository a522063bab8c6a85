---------------------------- MODULE MCActionTargets ----------------------------
(* Two departments, two users with and without service accounts, sensitive  *)
(* facts filed under either department, and three assignments.              *)
EXTENDS ActionTargets, TLC

CONSTANTS d1, d2, u1, u2, a1, a2, a3

Context(permissions, scopes) ==
    [active |-> TRUE, permissions |-> permissions, scopes |-> scopes]

MCRequesters == {Context({REQUEST}, {d1}), Context({REQUEST}, {d1, d2}),
                 Context({REQUEST}, {GlobalScope}), Context({}, {d1})}

MCApprovers == {Context({SCOPED}, {d1}), Context({SCOPED, OVERRIDE}, {d1, d2}),
                Context({SCOPED, GLOBAL}, {GlobalScope}),
                Context({SCOPED, GLOBAL, OVERRIDE, SELF}, {GlobalScope})}

Quiet(dept) ==
    [dept |-> dept, type |-> "human", status |-> "active", login |-> Never,
     event |-> [at |-> Never, dept |-> dept],
     group |-> [privileged |-> FALSE, dept |-> dept],
     alert |-> [open |-> FALSE, dept |-> dept]]

Assignment(user, dept) ==
    [user |-> user, dept |-> dept, status |-> "active", last |-> Never,
     mandatory |-> FALSE, exception |-> FALSE, cost |-> 1]

Payload(type, scope, users, assignments) ==
    [type |-> type, scope |-> scope, department |-> NoDepartment, source |-> "none",
     users |-> users, assignments |-> assignments]

\* Reclaiming licences
ReclaimUsers ==
    {(u1 :> [Quiet(d) EXCEPT !.type = t]) @@ (u2 :> Quiet(d2)) :
        d \in {d1, d2}, t \in {"human", "service"}}

ReclaimAssignments ==
    {(a1 :> [Assignment(u1, d1) EXCEPT !.last = last, !.mandatory = m, !.cost = cost])
      @@ (a2 :> [Assignment(u2, d2) EXCEPT !.last = 0])
      @@ (a3 :> [Assignment(u2, d2) EXCEPT !.status = s, !.exception = TRUE]) :
        last \in {Never, 0, 2, 3}, m \in BOOLEAN, cost \in {-1, 1},
        s \in {"active", "suspended", "reclaimed"}}

ReclaimPayloads ==
    {Payload(RECLAIM, d1, {}, {}), Payload(RECLAIM, d1, {u1, u2}, {}),
     Payload(RECLAIM, d1, {u1}, {a1, a2}), Payload(RECLAIM, GlobalScope, {}, {}),
     Payload(RECLAIM, GlobalScope, {u2}, {a1})}

\* Disabling users
DisableUsers ==
    {(u1 :> [Quiet(d1) EXCEPT !.login = login, !.event = [at |-> at, dept |-> d],
                              !.group = [privileged |-> p, dept |-> d],
                              !.alert = [open |-> o, dept |-> e]])
      @@ (u2 :> [Quiet(d2) EXCEPT !.type = t, !.status = s]) :
        login \in {Never, 1}, at \in {Never, 0, 2}, d \in {d1, d2}, p \in BOOLEAN,
        o \in BOOLEAN, e \in {d1, NoDepartment}, t \in {"human", "service"},
        s \in {"active", "disabled"}}

DisablePayloads ==
    {Payload(DISABLE, d1, {u1}, {}), Payload(DISABLE, d1, {u1, u2}, {}),
     Payload(DISABLE, GlobalScope, {u1, u2}, {}), Payload(DISABLE, d1, {}, {a1}),
     [Payload(DISABLE, d1, {u1}, {}) EXCEPT !.source = "foreign"],
     [Payload(DISABLE, d1, {u2}, {}) EXCEPT !.source = "usable", !.department = d1],
     [Payload(DISABLE, GlobalScope, {u1}, {}) EXCEPT !.department = d1]}

\* Licences are reclaimed in one kind of directory, users disabled in the other.
MCDirectories == [users : ReclaimUsers, assignments : ReclaimAssignments]
                 \cup [users : DisableUsers, assignments : {<<>>}]

MCPayloads == ReclaimPayloads \cup DisablePayloads

AllTables == ResourceTables(RECLAIM) \cup ResourceTables(DISABLE)
=============================================================================
