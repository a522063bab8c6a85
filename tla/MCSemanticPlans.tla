--------------------------- MODULE MCSemanticPlans ---------------------------
(***************************************************************************)
(* From the model's answer to executed SQL: the contract of RequiredIntent,*)
(* the calls of ProviderCall and the SQL of SemanticSql, over one small    *)
(* catalog, side by side: "part" tells which a behaviour is about.         *)
(***************************************************************************)
EXTENDS RequiredIntent, ProviderCall, SemanticSql

VARIABLE part

mcvars == <<part, stage, plan, reason, sql, data, counted, intent, db, callvars>>

-----------------------------------------------------------------------------
(* Assignments (1) name a user (2) and may name a device (3); a device may *)
(* name its owner, who owns no other, and a site (4).  1, 2 and 3 make a   *)
(* triangle; 1, 2, 3 and 4 a chain.  Nothing is joined to a fifth table.   *)

FiveEntities == 1..5
FourRels == 1..4
RelFrom == <<1, 3, 1, 3>>
RelTo == <<2, 2, 3, 4>>
RelColumn == <<"user_id", "owner_id", "device_id", "site_id">>
RelCard == <<"many_to_one", "one_to_one", "many_to_one", "many_to_one">>
TriangleEntities == {1, 2, 3}
Triangle == {1, 2, 3}
ChainEntities == {1, 2, 3, 4}
Chain == {1, 2, 4}

TwoRows == 1..2
\* Column "k" is never null; among the rows of all tables, "n" and "y" have every
\* pair of 1, 2 and Null.
Columns3 == {"k", "n", "y"}
Keys == {<<e, "k">> : e \in FiveEntities}
CellOf ==
    [e \in FiveEntities |->
        [k |-> <<1, 2>>,
         n |-> IF e \in TriangleEntities THEN <<Null, 2>> ELSE <<1, 1>>,
         y |-> << <<1, 1>>, <<2, 2>>, <<Null, Null>>, <<1, 2>>, <<Null, Null>> >>[e]]]

-----------------------------------------------------------------------------
(* Joins                                                                   *)

Types == {"inner", "left", "left_reverse"}
JoinChoices(rels) == UNION {[s -> Types] : s \in SUBSET rels}
Bare(es, js, m, e, fs) ==
    [entities |-> es, joins |-> js, metric |-> m, subject |-> e,
     preds |-> {}, filters |-> fs, groups |-> {}]
NotOne(e) == Pred(e, "n", "not_equals", 1)
OneFilter(es) == {{}} \cup {{NotOne(e)} : e \in es}

TrianglePlans ==
    {Bare(es, js, m, e, fs) :
        es \in SUBSET TriangleEntities \ {{}}, js \in JoinChoices(Triangle), m \in BOOLEAN,
        e \in TriangleEntities, fs \in OneFilter(TriangleEntities)}

ChainPlans ==
    {Bare(ChainEntities, js, m, e, {}) :
        js \in [Chain -> Types], m \in BOOLEAN, e \in {1, 4}}

-----------------------------------------------------------------------------
(* Filters: one entity, two columns                                        *)

X(e, op, v) == Pred(e, "n", op, v)
Y(e, op, v) == Pred(e, "y", op, v)
Literals(e) == {X(e, "equals", 1), X(e, "equals", 2), X(e, "not_equals", 1), X(e, "in", <<1, 2>>),
                X(e, "not_in", <<1, 2>>), Y(e, "equals", 1), Y(e, "in", <<2>>)}
Concepts(e) == {X(e, "equals", 1), X(e, "in", <<1, 2>>), Y(e, "is_null_or_older", 2)}
\* OR rules of the shapes the catalog holds: branches over different columns,
\* a branch of several predicates, a branch with IN
Rules(e) ==
    {<< {X(e, "equals", 1)}, {Y(e, "equals", 1)} >>,
     << {X(e, "in", <<1, 2>>)}, {Y(e, "is_null_or_older", 2)} >>,
     << {X(e, "equals", 1), Y(e, "equals", 1)}, {X(e, "equals", 2)} >>}
UpTo(n, S) == {s \in SUBSET S : Cardinality(s) <= n}
FilterPlans ==
    UNION {{[entities |-> {e}, joins |-> <<>>, metric |-> FALSE, subject |-> e,
             preds |-> ps, filters |-> fs, groups |-> gs] :
                ps \in UpTo(1, Concepts(e)), fs \in UpTo(2, Literals(e)), gs \in UpTo(1, Rules(e))}
           : e \in FiveEntities}

\* the terms other SQL may write: one predicate, or an OR of two or three
SqlAtoms(e) == {X(e, "equals", 1), X(e, "equals", 2), X(e, "not_equals", 1), X(e, "in", <<2, 1>>),
                X(e, "not_in", <<1>>), Y(e, "is_null", Null), Y(e, "older_than", 2)}
Ors(e) == {<< {a}, {b} >> : a \in SqlAtoms(e), b \in SqlAtoms(e)}
          \cup {<< {X(e, "equals", 1)}, {X(e, "equals", 2)}, {b} >> : b \in SqlAtoms(e)}
          \cup {<< {X(e, "equals", 2)}, {X(e, "equals", 1), Y(e, "equals", 1)} >>}
SqlTerms(e) == {Atom(a) : a \in SqlAtoms(e) \cup {Y(e, "equals", 1)}} \cup Ors(e)
FilterWrites(e) ==
    {{}} \cup {{Atom(a), t} : a \in SqlAtoms(e), t \in SqlTerms(e)} \cup {{t} : t \in SqlTerms(e)}

\* SQL over one table may carry any of them; over two or three a term on one of
\* them; over more none.
Texts ==
    [es \in SUBSET FiveEntities |->
        IF Cardinality(es) = 1 THEN UNION {FilterWrites(e) : e \in es}
        ELSE IF es \subseteq TriangleEntities THEN {{}} \cup {{Atom(NotOne(e))} : e \in es}
        ELSE {{}}]

PlannerPlans == TrianglePlans \cup ChainPlans \cup FilterPlans

ASSUME SettingsHold == PlanSetting

-----------------------------------------------------------------------------
(* Contracts over 1, 2 and 3                                               *)

DeviceOptional == {3}
UserProven == {1}
UsersHideable == {2}

UserKey == <<1, "user_id">>
UserId == <<2, "id">>
DeviceKey == <<1, "device_id">>
DeviceId == <<3, "id">>
Count(f, distinct) == <<"count", f, distinct>>
CountKeys == {Count(Null, FALSE), Count(UserKey, TRUE), Count(UserId, TRUE), Count(UserId, FALSE),
         Count(DeviceKey, TRUE), Count(DeviceId, TRUE), <<"sum", UserKey, FALSE>>}
Aggs == [{"a"} -> CountKeys]
        \cup {[a |-> k, b |-> Count(UserId, TRUE)] : k \in CountKeys}
        \cup {[a |-> Count(UserKey, TRUE), b |-> k] : k \in CountKeys}
Having(aggs) ==
    {{}} \cup {{[id |-> i, op |-> "equals", v |-> 1]} : i \in DOMAIN aggs}
GroupBys == {{}, {DeviceId}}
Shapes(aggs) ==
    {[group_by |-> g, aggregations |-> a, having |-> h] : g \in GroupBys, a \in {aggs}, h \in Having(aggs)}
RequiredIntents == UNION {Shapes(aggs) : aggs \in Aggs}
ContractJoins == {j \in [{1, 3} -> Types] : j[3] # "left_reverse"}
AggregatePlans ==
    {[entities |-> TriangleEntities, joins |-> j,
      group_by |-> s.group_by, aggregations |-> s.aggregations, having |-> s.having]
        : j \in ContractJoins, s \in RequiredIntents}

-----------------------------------------------------------------------------
NoSql == sql = Null /\ data = <<>> /\ counted = Null
NoContract == intent = Null /\ db = Null

Init ==
    \/ part = "sql" /\ SqlInit /\ NoContract /\ CallInit
    \/ part = "contract" /\ ContractInit /\ NoSql /\ CallInit
    \/ part = "calls" /\ CallInit /\ NoSql /\ NoContract
         /\ stage = "none" /\ plan = Null /\ reason = ""

Next ==
    /\ UNCHANGED part
    /\ \/ part = "sql" /\ SqlNext /\ UNCHANGED <<intent, db, callvars>>
       \/ part = "contract" /\ ContractNext /\ UNCHANGED <<sql, data, counted, callvars>>
       \/ part = "calls" /\ CallNext /\ UNCHANGED <<contractvars, sql, data, counted>>

Spec == Init /\ [][Next]_mcvars
=============================================================================
