---------------------------- MODULE RequiredIntent ----------------------------
(***************************************************************************)
(* The grounded result contract.  Grounding may require of a plan how it   *)
(* groups, what it aggregates and which groups HAVING keeps;               *)
(* _validate_grounded_result_intent compares that contract with the plan.  *)
(* The comparison is of keys, except that COUNT(DISTINCT foreign key) and  *)
(* COUNT(DISTINCT referenced identity) are taken for the same where a      *)
(* selected relationship proves them equal.  This module evaluates both    *)
(* the contract and the plan on small databases whose rows may be hidden   *)
(* from the viewer, and checks that equal keys mean equal numbers.         *)
(***************************************************************************)
EXTENDS PlanCatalog, Integers, FiniteSets, FiniteSetsExt

CONSTANTS
    FromColumn,   \* the foreign key column of a relationship
    Optional,     \* the relationships declared optional
    Proven,       \* those with a non-null foreign key to a unique column
    Hideable,     \* the entities whose rows the viewer may not all see
    Plans,        \* [entities, joins, group_by, aggregations, having]
    Intents       \* [group_by, aggregations, having]

\* HAVING filters on aggregations that are there.
WellFormed(s) ==
    IsFiniteSet(DOMAIN s.aggregations) /\ \A h \in s.having : h.id \in DOMAIN s.aggregations

ASSUME ContractAssumption ==
    /\ From \in [Rels -> Entities] /\ To \in [Rels -> Entities]
    /\ \A r \in Rels : /\ FromColumn[r] # "id"
                       /\ Null \notin {<<From[r], FromColumn[r]>>, <<To[r], "id">>}
    /\ \A p \in Plans : /\ p.entities \subseteq Entities /\ DOMAIN p.joins \subseteq Rels
                        /\ \A r \in DOMAIN p.joins : Ends(r) \subseteq p.entities
                        /\ WellFormed(p)
    /\ \A i \in Intents : WellFormed(i)

VARIABLES
    intent,   \* the contract that grounding requires
    db        \* the data the plan is executed on

contractvars == <<stage, plan, intent, reason, db>>

-----------------------------------------------------------------------------
(***************************************************************************)
(* A column is <<entity, column>>.  aggregations maps ids to keys          *)
(* <<function, column or Null, distinct>>; having holds records            *)
(* [id, op, v].                                                            *)
(***************************************************************************)
KeysOf(aggs) ==
    [k \in {aggs[i] : i \in DOMAIN aggs} |-> Cardinality({i \in DOMAIN aggs : aggs[i] = k})]

\* Any selected relationship with a proven foreign key, whatever its join.
ProvesAnyJoin(r, p) == Card[r] = "many_to_one" /\ r \notin Optional /\ r \in Proven

\* A selected INNER, many-to-one, non-optional relationship with a proven foreign key.
ProvesIdentity(r, p) ==
    /\ p.joins[r] = "inner" /\ Card[r] = "many_to_one" /\ r \notin Optional
    /\ r \in Proven

\* A foreign key stands for the identity it names, if it names only one.
_distinct_count_identity_normalization(p) ==
    LET pairs == {<< <<From[r], FromColumn[r]>>, <<To[r], "id">> >>
                    : r \in {q \in DOMAIN p.joins : ProvesIdentity(q, p)}}
        targets(f) == {q[2] : q \in {x \in pairs : x[1] = f}}
    IN  [f \in {g \in {q[1] : q \in pairs} : Cardinality(targets(g)) = 1} |->
            CHOOSE t \in targets(f) : TRUE]

_normalize_aggregation_key(k, norm) ==
    IF k[1] = "count" /\ k[3] /\ k[2] \in DOMAIN norm THEN <<k[1], norm[k[2]], k[3]>> ELSE k

Normalized(aggs, norm) == [i \in DOMAIN aggs |-> _normalize_aggregation_key(aggs[i], norm)]

\* HAVING is compared by the key it filters on, the operator and the value.
HavingKey(h, aggs, norm) == <<_normalize_aggregation_key(aggs[h.id], norm), h.op, h.v>>

HavingMatches(i, p, norm) ==
    {HavingKey(h, i.aggregations, norm) : h \in i.having}
    = {HavingKey(h, p.aggregations, norm) : h \in p.having}

\* Identities stand in for foreign keys only when both group by the same columns.
NormalizationFor(p, i) ==
    IF i.group_by = p.group_by THEN _distinct_count_identity_normalization(p) ELSE <<>>

AggregationsMatch(p, i) ==
    LET norm == NormalizationFor(p, i)
    IN  \/ KeysOf(i.aggregations) = KeysOf(p.aggregations)
        \/ /\ DOMAIN norm # {}
           /\ KeysOf(Normalized(i.aggregations, norm)) = KeysOf(Normalized(p.aggregations, norm))
           /\ HavingMatches(i, p, norm)

\* Why the plan does not meet the contract, or "" when it does.
_validate_grounded_result_intent(p, i) ==
    IF DOMAIN i.aggregations # {} /\ ~AggregationsMatch(p, i) THEN "grounded_aggregation_mismatch"
    ELSE IF i.group_by # {} /\ i.group_by # p.group_by THEN "grounded_group_by_mismatch"
    ELSE IF i.having # {} /\ ~HavingMatches(i, p, NormalizationFor(p, i)) THEN "grounded_having_mismatch"
    ELSE ""

-----------------------------------------------------------------------------
(***************************************************************************)
(* What the plan reads (external: PostgreSQL under row-level security).    *)
(* db.link[r] is the foreign key column, db.seen the visible rows.         *)
(***************************************************************************)
Columns(r) == IF r \in Proven THEN [Rows -> Rows] ELSE [Rows -> Rows \cup {Null}]

Databases(p) ==
    {d \in [link : [DOMAIN p.joins -> [Rows -> Rows \cup {Null}]], seen : [p.entities -> SUBSET Rows]] :
        /\ \A r \in DOMAIN p.joins : d.link[r] \in Columns(r)
        /\ \A r, q \in DOMAIN p.joins :
              From[r] = From[q] /\ FromColumn[r] = FromColumn[q] => d.link[r] = d.link[q]
        /\ \A e \in p.entities \ Hideable : d.seen[e] = Rows}

Value(x, f, d) ==
    IF x[f[1]] = Null THEN Null
    ELSE IF f[2] = "id" THEN x[f[1]]
    ELSE d.link[CHOOSE r \in DOMAIN d.link : From[r] = f[1] /\ FromColumn[r] = f[2]][x[f[1]]]

Linked(r, x, d) ==
    x[From[r]] # Null /\ x[To[r]] # Null /\ d.link[r][x[From[r]]] = x[To[r]]

JoinedRows(p, d) ==
    LET nullable(r) == IF p.joins[r] = "left" THEN To[r] ELSE From[r]
        left == {r \in DOMAIN p.joins : p.joins[r] # "inner"}
        unmatched(x, r) ==
            /\ x[nullable(r)] = Null
            /\ ~\E y \in d.seen[nullable(r)] : Linked(r, [x EXCEPT ![nullable(r)] = y], d)
    IN  {x \in RowsOver(p.entities) :
            /\ \A e \in p.entities : x[e] \in d.seen[e] \cup {Null}
            /\ \A e \in p.entities \ {nullable(r) : r \in left} : x[e] # Null
            /\ \A r \in DOMAIN p.joins : Linked(r, x, d) \/ (r \in left /\ unmatched(x, r))}

Groups(p, d) == {[f \in p.group_by |-> Value(x, f, d)] : x \in JoinedRows(p, d)}

GroupRows(p, d, g) == {x \in JoinedRows(p, d) : \A f \in p.group_by : Value(x, f, d) = g[f]}

NonNullIn(f, xs, d) == {x \in xs : Value(x, f, d) # Null}

SumOf(f, xs, d) == MapThenSumSet(LAMBDA x : Value(x, f, d), NonNullIn(f, xs, d))

Aggregate(k, xs, d) ==
    IF k[2] = Null THEN Cardinality(xs)
    ELSE IF k[3] THEN Cardinality({Value(x, k[2], d) : x \in NonNullIn(k[2], xs, d)})
    ELSE IF k[1] = "count" THEN Cardinality(NonNullIn(k[2], xs, d))
    ELSE SumOf(k[2], xs, d)

Keeps(having, aggs, xs, d) ==
    \A h \in having :
        LET n == Aggregate(aggs[h.id], xs, d) IN IF h.op = "equals" THEN n = h.v ELSE n > h.v

-----------------------------------------------------------------------------
ContractInit ==
    /\ stage = "proposed" /\ plan \in Plans /\ intent = Null /\ reason = "" /\ db = Null

ContractValidate ==
    /\ stage = "proposed"
    /\ intent' \in Intents
    /\ reason' = _validate_grounded_result_intent(plan, intent')
    /\ stage' = IF reason' = "" THEN "accepted" ELSE "refused"
    /\ UNCHANGED <<plan, db>>

ContractExecute ==
    /\ stage = "accepted"
    /\ db' \in Databases(plan)
    /\ stage' = "done"
    /\ UNCHANGED <<plan, intent, reason>>

ContractNext == ContractValidate \/ ContractExecute

ContractSpec == ContractInit /\ [][ContractNext]_contractvars

-----------------------------------------------------------------------------
\* An accepted plan answers the grounded contract: in every group the numbers it
\* computes are those the contract asked for, whichever of a foreign key and the
\* identity it names either of them counts, and whatever the viewer cannot see;
\* and when the contract asks for HAVING, it keeps exactly the contract's groups.
RequiredIntentMet ==
    db # Null =>
        \A g \in Groups(plan, db) :
            LET xs == GroupRows(plan, db, g)
                numbers(aggs) == KeysOf([i \in DOMAIN aggs |-> Aggregate(aggs[i], xs, db)])
            IN  /\ DOMAIN intent.aggregations # {} =>
                      numbers(plan.aggregations) = numbers(intent.aggregations)
                /\ intent.having # {} =>
                      (Keeps(plan.having, plan.aggregations, xs, db)
                       <=> Keeps(intent.having, intent.aggregations, xs, db))
=============================================================================
