----------------------------- MODULE PlanCatalog -----------------------------
(***************************************************************************)
(* The catalog that semantic plans are over, and how far a plan has come:  *)
(* what the specifications of plans (SemanticSql, RequiredIntent) share.   *)
(***************************************************************************)
CONSTANTS
    Entities,   \* the catalog's entities, numbered in the order of their ids
    Rels,       \* its relationships, numbered likewise
    From, To,   \* the endpoints of a relationship
    Card,       \* its declared cardinality
    Rows,       \* the rows a table may hold, identified by their column "id"
    Null        \* SQL's NULL; also no plan order, no SQL, no count, no contract

VARIABLES
    stage,    \* how far the plan has come
    plan,     \* the plan proposed
    reason    \* why it was refused

Ends(r) == {From[r], To[r]}

\* The joined rows of the entities es: of each a row of its table, or Null.
RowsOver(es) ==
    {[e \in Entities |-> IF e \in es THEN y[e] ELSE Null] : y \in [es -> Rows \cup {Null}]}
=============================================================================
