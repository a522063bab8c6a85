--------------------------- MODULE MCDashboardEditor ---------------------------
(* Small instances of DashboardEditor.                                     *)
EXTENDS DashboardEditor, TLC

CONSTANTS ann, bob, d1, d2, q1, q2, w1, w2, it, hr

Everything == [permissions |-> Permissions, departments |-> {it}, global |-> TRUE]
Nothing == [permissions |-> {}, departments |-> {}, global |-> FALSE]

OwnersAccess == [u \in Users |-> Everything]
NoChanges == [u \in Users |-> {}]
Revoked == [u \in Users |-> {Nothing}]

Mine == [d \in Dashboards |-> IF d = d1 THEN [NoRow EXCEPT !.state = "live", !.owner = ann]
                                       ELSE NoRow]

\* Side by side on the desktop, one below the other elsewhere
Spot(x, w, h, n) == [bp \in Breakpoints |->
    CASE bp = "desktop" -> [x |-> x, y |-> 0, w |-> w, h |-> h]
      [] bp = "tablet"  -> [x |-> 0, y |-> n, w |-> w, h |-> h]
      [] OTHER          -> [x |-> 0, y |-> n, w |-> 1, h |-> h]]

Left == Spot(0, 6, 2, 0)
Right == Spot(6, 6, 2, 2)
MCLayouts == {Left, Right}

Stored(position, type, layout) ==
    [dash |-> d1, position |-> position, card_type |-> type, config |-> type,
     layout |-> layout, run |-> q1]

TwoCards == <<Stored(0, "bar", Left), Stored(1, "bar", Right)>>

WorkerSymmetry == Permutations(Workers)

RunsOfAnn == [q \in Runs |-> ann]
=============================================================================
