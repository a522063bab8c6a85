----------------------------- MODULE SemanticSql -----------------------------
(***************************************************************************)
(* From a semantic plan to the SQL that is executed.  The planner proposes *)
(* a plan over the catalog's entities and relationships; the backend       *)
(* validates it (semantic_plan.py), picks a join order                     *)
(* (relational_semantics.py), renders SQL (sql_renderer.py), parses the    *)
(* SQL again and compares it with the plan (semantic_conformance.py), and  *)
(* only then executes it.  The comparison forgets the order of the joins,  *)
(* where an inner join's filter stands and how a disjunction is written,   *)
(* so what it approves is a claim about meaning; this module gives both    *)
(* plans and SQL their meaning on small tables and checks that claim.      *)
(*                                                                         *)
(* Entities and relationships are numbered in the order of their ids.      *)
(* Grouping, ordering, limits and output labels are left out: the checker  *)
(* compares them one to one with the plan.                                 *)
(***************************************************************************)
EXTENDS PlanCatalog, Integers, Sequences, FiniteSets, SequencesExt

CONSTANTS
    Fields,     \* the columns of a table
    NonNull,    \* the <<e, f>> whose metadata says, truly, that f is not nullable
    Cell,       \* Cell[e][f][r]: the value of column f in row r of e
    SqlPlans,   \* the plans the planner may propose
    Writes      \* Writes[es]: the filter terms other SQL over es may carry

VARIABLES
    sql,      \* the SQL that is checked against the plan, and executed
    data,     \* the data it is executed on
    counted   \* the count of a named metric

sqlplanvars == <<stage, plan, reason, sql, data, counted>>

-----------------------------------------------------------------------------
(***************************************************************************)
(* Filters.  A predicate is [e, f, op, v]; a term of a WHERE clause is the *)
(* sequence of branches of an OR, each branch a set of predicates, and an  *)
(* ordinary conjunct is a term with one branch of one predicate.           *)
(***************************************************************************)
Pred(e, f, op, v) == [e |-> e, f |-> f, op |-> op, v |-> v]

Atom(p) == << {p} >>

\* SQL's truth of a predicate for the value c of its column: unknown is not true.
Holds(p, c) ==
    \/ p.op = "equals" /\ c = p.v
    \/ p.op = "not_equals" /\ c \notin {Null, p.v}
    \/ p.op = "in" /\ c \in ToSet(p.v) \ {Null}
    \/ p.op = "not_in" /\ c \notin ToSet(p.v) \cup {Null}
    \/ p.op = "is_null" /\ c = Null
    \/ p.op = "older_than" /\ IF c = Null THEN FALSE ELSE c < p.v
    \/ p.op = "is_null_or_older" /\ IF c = Null THEN TRUE ELSE c < p.v

\* A joined row x gives every entity a row of its table, or Null.
ValueOf(x, e, f) == IF x[e] = Null THEN Null ELSE Cell[e][f][x[e]]

TermHolds(t, x) ==
    \E i \in DOMAIN t : \A p \in t[i] : Holds(p, ValueOf(x, p.e, p.f))

Tally(s) == [b \in ToSet(s) |-> Cardinality({i \in DOMAIN s : s[i] = b})]

-----------------------------------------------------------------------------
(***************************************************************************)
(* The selected join tree: relational_semantics.py                         *)
(***************************************************************************)
\* A relationship that can be joined next when the entities in avail are there.
CanJoin(r, type, avail) ==
    \/ type = "left" /\ From[r] \in avail /\ To[r] \notin avail
    \/ type = "left_reverse" /\ To[r] \in avail /\ From[r] \notin avail
    \/ type = "inner" /\ (From[r] \in avail) # (To[r] \in avail)

\* One round of the while loop: the pending relationship of least id that fits.
JoinRound(s, joins) ==
    LET fit == {r \in s.pending : CanJoin(r, joins[r], s.avail)}
    IN  IF fit = {} THEN s
        ELSE LET r == CHOOSE q \in fit : \A o \in fit : q <= o
                 added == IF From[r] \in s.avail THEN To[r] ELSE From[r]
             IN  [avail |-> s.avail \cup {added}, pending |-> s.pending \ {r},
                  order |-> Append(s.order, [rel |-> r, type |-> joins[r], added |-> added])]

TraverseFrom(root, joins) ==
    LET n == Cardinality(DOMAIN joins)
        state[i \in 0..n] ==
            IF i = 0 THEN [avail |-> {root}, pending |-> DOMAIN joins, order |-> <<>>]
            ELSE JoinRound(state[i - 1], joins)
    IN  state[n]

\* The least root from which every entity is reached, with its order, or Null.
selected_join_order(p) ==
    LET works(e) == /\ TraverseFrom(e, p.joins).pending = {}
                    /\ TraverseFrom(e, p.joins).avail = p.entities
        roots == {e \in p.entities : works(e)}
    IN  IF roots = {} THEN Null
        ELSE LET root == CHOOSE e \in roots : \A o \in roots : e <= o
             IN  [root |-> root, order |-> TraverseFrom(root, p.joins).order]

IsLeft(type) == type \in {"left", "left_reverse"}

\* An entity that the selected order adds on the nullable side of a LEFT JOIN.
NullExtended(e, p) ==
    \E i \in DOMAIN selected_join_order(p).order :
        LET j == selected_join_order(p).order[i] IN j.added = e /\ IsLeft(j.type)

field_is_non_null(e, f, p) ==
    /\ selected_join_order(p) # Null /\ e \in p.entities
    /\ <<e, f>> \in NonNull /\ ~NullExtended(e, p)

\* The direction of the walk ignored.
ToOneEither(r, visited) == Card[r] \in {"one_to_one", "many_to_one"}

\* An edge is to-one when it is walked away from the entity.
ToOne(r, visited) ==
    Card[r] = "one_to_one" \/ (Card[r] = "many_to_one" /\ From[r] \in visited)

WalkRound(s) ==
    LET fit == {r \in s.edges : (From[r] \in s.visited) # (To[r] \in s.visited)}
        r == CHOOSE q \in fit : \A o \in fit : q <= o
    IN  IF fit = {} \/ s.multiplies THEN [s EXCEPT !.multiplies = TRUE]
        ELSE [visited |-> s.visited \cup Ends(r), edges |-> s.edges \ {r},
              multiplies |-> ~ToOne(r, s.visited)]

population_may_multiply(e, p) ==
    LET n == Cardinality(DOMAIN p.joins)
        walk[i \in 0..n] ==
            IF i = 0 THEN [visited |-> {e}, edges |-> DOMAIN p.joins, multiplies |-> FALSE]
            ELSE WalkRound(walk[i - 1])
    IN  walk[n].multiplies

-----------------------------------------------------------------------------
(***************************************************************************)
(* validate_semantic_plan                                                  *)
(* A plan is [entities, joins, metric, subject, preds, filters, groups]:   *)
(* joins maps the chosen relationships to their join types, subject is the *)
(* entity of the named metric or of the output field, preds the predicates *)
(* of its concepts, filters its literal filters, groups its OR rules.      *)
(***************************************************************************)
GroupPreds(p) == UNION {UNION ToSet(g) : g \in p.groups}

AllPreds(p) == p.preds \cup p.filters \cup GroupPreds(p)

RelEnds(p) == UNION {Ends(r) : r \in DOMAIN p.joins}

WithNeighbours(es, p) ==
    es \cup UNION {Ends(r) : r \in {q \in DOMAIN p.joins : Ends(q) \cap es # {}}}

\* Union-find over the intents, then a walk: what is left is a spanning tree.
Reached(start, p) ==
    LET n == Cardinality(p.entities)
        within[i \in 0..n] == IF i = 0 THEN {start} ELSE WithNeighbours(within[i - 1], p)
    IN  within[n]

IsTree(p) ==
    /\ \A e \in p.entities : Reached(e, p) = p.entities
    /\ Cardinality(DOMAIN p.joins) = Cardinality(p.entities) - 1

Set(p) == IF p.op \in {"in", "not_in"} THEN ToSet(p.v) ELSE {p.v}

\* What is excluded is not taken out of what is allowed.
ContradictoryUnlessExcluded(ps) ==
    LET eq == {q.v : q \in {q \in ps : q.op = "equals"}}
        ins == {Set(q) : q \in {q \in ps : q.op = "in"}}
        allowed == {v \in UNION ins : \A s \in ins : v \in s}
        excluded == UNION {Set(q) : q \in {q \in ps : q.op \in {"not_equals", "not_in"}}}
    IN  \/ Cardinality(eq) > 1
        \/ eq \cap excluded # {}
        \/ ins # {} /\ (allowed = {} \/ ~(eq \subseteq allowed))

\* The constraints collected for one column contradict each other.
Contradictory(ps) ==
    LET eq == {q.v : q \in {q \in ps : q.op = "equals"}}
        ins == {Set(q) : q \in {q \in ps : q.op = "in"}}
        allowed == {v \in UNION ins : \A s \in ins : v \in s}
        excluded == UNION {Set(q) : q \in {q \in ps : q.op \in {"not_equals", "not_in"}}}
    IN  \/ Cardinality(eq) > 1
        \/ eq \cap excluded # {}
        \/ ins # {} /\ (allowed \ excluded = {} \/ ~(eq \subseteq allowed))

OnColumn(ps, e, f) == {q \in ps : q.e = e /\ q.f = f}

Inconsistent(ps) ==
    \E e \in Entities, f \in Fields : Contradictory(OnColumn(ps, e, f))

\* The literal filters are checked with the concepts, and with every OR branch.
PlanInconsistent(p) ==
    \/ Inconsistent(p.preds \cup p.filters)
    \/ \E g \in p.groups : \E i \in DOMAIN g : Inconsistent(p.preds \cup p.filters \cup g[i])

\* Why the plan is refused, or "" when it is accepted.
Refusal(p) ==
    IF ~(({p.subject} \cup {q.e : q \in AllPreds(p)}) \subseteq p.entities)
    THEN "required_entity_missing"
    ELSE IF ~(RelEnds(p) \subseteq p.entities) THEN "relationship_endpoint_missing"
    ELSE IF ~IsTree(p) THEN "relationship_graph"
    ELSE IF selected_join_order(p) = Null THEN "left_join_orientation_unsupported"
    ELSE IF p.metric /\ (population_may_multiply(p.subject, p) \/ NullExtended(p.subject, p))
    THEN "metric_population_unsupported"
    ELSE IF p.entities # {p.subject} \cup {q.e : q \in AllPreds(p)} \cup RelEnds(p)
    THEN "unused_entity"
    ELSE IF PlanInconsistent(p) THEN "predicate_contradiction"
    ELSE ""

-----------------------------------------------------------------------------
(***************************************************************************)
(* SQL.  [root, joins, at, terms, count]: at is the join whose ON carries  *)
(* the terms (0: they stand in WHERE); count is how a metric is counted:   *)
(* Null for COUNT over the rows, or a column [e, f].                       *)
(***************************************************************************)
SqlType(type) == IF type = "inner" THEN "inner" ELSE "left"

\* _render_join_tree: both LEFT intents become a LEFT JOIN of the added entity.
RenderedJoins(p) ==
    LET order == selected_join_order(p).order
    IN  [i \in DOMAIN order |-> [order[i] EXCEPT !.type = SqlType(order[i].type)]]

\* _render_predicates: concepts, then literals, then the OR groups in parentheses.
RenderedTerms(p) == {Atom(q) : q \in p.preds \cup p.filters} \cup p.groups

Rendered(p) ==
    [root |-> selected_join_order(p).root, joins |-> RenderedJoins(p),
     at |-> 0, terms |-> RenderedTerms(p), count |-> Null]

\* sorted(..., key=repr): the numbers stand for the literals in the order of their
\* texts, of which only that there is one matters.
Sorted(s) ==
    LET place(i) == Cardinality({j \in DOMAIN s : s[j] < s[i] \/ (s[j] = s[i] /\ j < i)})
    IN  [k \in DOMAIN s |-> s[CHOOSE i \in DOMAIN s : place(i) = k - 1]]

\* The chain of an OR is parsed pair by pair; this is what one OR node becomes:
\* equalities on one column turn into IN, and IS NULL OR older into its operator.
_collapse_special_or(b) ==
    LET single == \A i \in DOMAIN b : Cardinality(b[i]) = 1
        a == [i \in DOMAIN b |-> CHOOSE q \in b[i] : TRUE]
        oneColumn == \A i \in DOMAIN b : a[i].e = a[1].e /\ a[i].f = a[1].f
        is(i, op) == a[i].op = op
        older == IF Len(b) = 2 /\ single /\ oneColumn
                 THEN {i \in 1..2 : is(i, "older_than") /\ is(3 - i, "is_null")} ELSE {}
    IN  IF single /\ oneColumn /\ \A i \in DOMAIN b : is(i, "equals")
        THEN Atom([a[1] EXCEPT !.op = "in",
                               !.v = Sorted([i \in DOMAIN b |-> a[i].v])])
        ELSE IF older # {}
        THEN Atom([a[CHOOSE i \in older : TRUE] EXCEPT !.op = "is_null_or_older"])
        ELSE b

\* The values of IN are sorted; NOT IN of one value is read as <>.
_parse_predicate(q) ==
    IF q.op = "not_in" /\ Len(q.v) = 1
    THEN [q EXCEPT !.op = "not_equals", !.v = q.v[1]]
    ELSE IF q.op \in {"in", "not_in"} THEN [q EXCEPT !.v = Sorted(q.v)]
    ELSE q

ParsedBranch(b) == {_parse_predicate(q) : q \in b}

_normalize_boolean(t) ==
    LET node[i \in 0..(Len(t) - 1)] ==
            IF i = 0 THEN << ParsedBranch(t[1]) >>
            ELSE _collapse_special_or(Append(node[i - 1], ParsedBranch(t[i + 1])))
    IN  node[Len(t) - 1]

\* The conjuncts found, and the OR groups each as the tally of its branches.
ParsedPreds(c) ==
    UNION {LET n == _normalize_boolean(t) IN IF Len(n) = 1 THEN n[1] ELSE {} : t \in c.terms}

ParsedGroups(c) ==
    LET n == {t \in c.terms : Len(_normalize_boolean(t)) > 1}
        tally(t) == Tally(_normalize_boolean(t))
    IN  [g \in {tally(t) : t \in n} |-> Cardinality({t \in n : tally(t) = g})]

SqlEntities(c) == {c.root} \cup {c.joins[i].added : i \in DOMAIN c.joins}

\* What a join is compared by: relationship, physical type, nullable endpoint.
JoinKey(r, type, nullable) == <<r, type, IF type = "left" THEN nullable ELSE Null>>

_check_relationships(p, c) ==
    {JoinKey(r, SqlType(p.joins[r]), IF p.joins[r] = "left" THEN To[r] ELSE From[r])
        : r \in DOMAIN p.joins}
    = {JoinKey(c.joins[i].rel, c.joins[i].type, c.joins[i].added) : i \in DOMAIN c.joins}

_check_predicates(p, c) ==
    /\ ParsedPreds(c) = p.preds \cup p.filters
    /\ ParsedGroups(c) =
         [g \in {Tally(h) : h \in p.groups} |-> Cardinality({h \in p.groups : Tally(h) = g})]

ResidualsAnywhere(c) == TRUE

\* A filter in the ON of a LEFT JOIN is refused.
ResidualsAllowed(c) == c.at = 0 \/ c.terms = {} \/ c.joins[c.at].type = "inner"

_check_outputs(p, c) ==
    \/ c.count = Null
    \/ p.metric /\ c.count # Null /\ c.count.e = p.subject /\ field_is_non_null(c.count.e, c.count.f, p)

check_semantic_conformance(p, c) ==
    /\ ResidualsAllowed(c)
    /\ p.entities = SqlEntities(c)
    /\ _check_relationships(p, c)
    /\ _check_predicates(p, c)
    /\ _check_outputs(p, c)

-----------------------------------------------------------------------------
(***************************************************************************)
(* Meaning.  data[r] is the relationship's column: the row of to_entity    *)
(* that a row of from_entity names, or Null.                               *)
(***************************************************************************)
LinkedBy(r, x, d) ==
    x[From[r]] # Null /\ x[To[r]] # Null /\ d[r][x[From[r]]] = x[To[r]]

\* PostgreSQL's joins, left to right (external: the database executes them).
Matches(x, j, on, d) ==
    {y \in {[x EXCEPT ![j.added] = r] : r \in Rows} :
        LinkedBy(j.rel, y, d) /\ \A t \in on : TermHolds(t, y)}

On(c, i) == IF c.at = i THEN c.terms ELSE {}

\* The i-th join, of the rows so far
Joined(xs, i, c, d) ==
    UNION {LET m == Matches(x, c.joins[i], On(c, i), d)
           IN  IF m = {} /\ c.joins[i].type = "left" THEN {x} ELSE m : x \in xs}

RootRows(c) == {[e \in Entities |-> IF e = c.root THEN r ELSE Null] : r \in Rows}

FromRows(c, d) ==
    LET upto[i \in 0..Len(c.joins)] ==
            IF i = 0 THEN RootRows(c)
            ELSE Joined(upto[i - 1], i, c, d)
    IN  upto[Len(c.joins)]

ResultRows(c, d) ==
    IF c.at > 0 THEN FromRows(c, d)
    ELSE {x \in FromRows(c, d) : \A t \in c.terms : TermHolds(t, x)}

Counted(c, d) ==
    Cardinality({x \in ResultRows(c, d) :
        c.count = Null \/ ValueOf(x, c.count.e, c.count.f) # Null})

\* The links a database may hold: to-one, and one to one where that is declared.
LinkColumns(r) ==
    {l \in [Rows -> Rows \cup {Null}] :
        Card[r] = "one_to_one" =>
            \A x, y \in Rows : x # y /\ l[x] # Null => l[x] # l[y]}

LinkData(p) ==
    {d \in [DOMAIN p.joins -> [Rows -> Rows \cup {Null}]] :
        \A r \in DOMAIN p.joins : d[r] \in LinkColumns(r)}

\* SQL over the catalog that PostgreSQL accepts: every table once, joined on a
\* relationship whose columns are there, counting rows or the subject's columns.
WrittenSql(p) ==
    LET tables == {s \in [1..Cardinality(p.entities) -> p.entities] :
                      \A i, j \in DOMAIN s : i # j => s[i] # s[j]}
        sofar(s, i) == {s[j] : j \in 1..i}
        ons(s) == {f \in [1..Len(s) - 1 -> Rels \X {"inner", "left"}] :
                      \A i \in DOMAIN f : Ends(f[i][1]) \subseteq sofar(s, i + 1)}
        counts == {Null} \cup (IF p.metric THEN [e : {p.subject}, f : Fields] ELSE {})
        from(s, f) == [i \in DOMAIN f |-> [rel |-> f[i][1], type |-> f[i][2], added |-> s[i + 1]]]
        readable(s, at, w) == \A t \in w : {q.e : q \in UNION ToSet(t)} \subseteq sofar(s, at + 1)
        filters(s) == {a \in (0..Cardinality(p.entities) - 1) \X Writes[p.entities] :
                          a[1] > 0 => a[2] # {} /\ readable(s, a[1], a[2])}
    IN  UNION {{[root |-> s[1], joins |-> from(s, f), at |-> a[1], terms |-> a[2], count |-> n]
                  : f \in ons(s), a \in filters(s), n \in counts} : s \in tables}

-----------------------------------------------------------------------------
(***************************************************************************)
(* What the constants are.  A comparison is with a number, a list is of    *)
(* numbers.                                                                *)
(***************************************************************************)
Ops == {"equals", "not_equals", "in", "not_in", "is_null", "older_than", "is_null_or_older"}

PredOK(q) ==
    /\ q \in [e : Entities, f : Fields, op : Ops, v : {q.v}]
    /\ q.op \in {"equals", "not_equals"} => q.v \in Int
    /\ q.op \in {"in", "not_in"} => q.v \in Seq(Int)

TermOK(t) ==
    /\ t \in Seq(ToSet(t)) /\ t # <<>>
    /\ \A b \in ToSet(t) : IsFiniteSet(b) /\ \A q \in b : PredOK(q)

PlanOK(p) ==
    /\ p.entities \subseteq Entities /\ DOMAIN p.joins \subseteq Rels
    /\ p.joins \in [DOMAIN p.joins -> {"inner", "left", "left_reverse"}]
    /\ IsFiniteSet(p.preds) /\ IsFiniteSet(p.filters)
    /\ \A q \in p.preds \cup p.filters : PredOK(q)
    /\ \A g \in p.groups : TermOK(g)

JoinStep == [rel : Rels, type : {"inner", "left", "left_reverse"}, added : Entities]

PlanSetting ==
    /\ IsFiniteSet(Entities) /\ Entities \subseteq Nat
    /\ IsFiniteSet(Rels) /\ Rels \subseteq Nat
    /\ From \in [Rels -> Entities] /\ To \in [Rels -> Entities]
    /\ IsFiniteSet(Rows)
    /\ Null \notin Rows /\ Null \notin Int
    /\ Null \notin [root : Entities, order : Seq(JoinStep)]
    /\ \A c \in NonNull : \A r \in Rows : Cell[c[1]][c[2]][r] # Null
    /\ \A p \in SqlPlans : PlanOK(p)
    /\ \A es \in SUBSET Entities : \A w \in Writes[es] : \A t \in w : TermOK(t)

-----------------------------------------------------------------------------
SqlInit ==
    /\ stage = "proposed" /\ plan \in SqlPlans /\ reason = ""
    /\ sql = Null /\ data = <<>> /\ counted = Null

Validate ==
    /\ stage = "proposed"
    /\ reason' = Refusal(plan)
    /\ stage' = IF reason' = "" THEN "validated" ELSE "refused"
    /\ UNCHANGED <<plan, sql, data, counted>>

\* The renderer's SQL is checked against the plan it came from.
Compile ==
    /\ stage = "validated"
    /\ sql' = Rendered(plan)
    /\ stage' = IF check_semantic_conformance(plan, sql') THEN "approved" ELSE "nonconforming"
    /\ UNCHANGED <<plan, reason, data, counted>>

\* The checker does not know who wrote its candidate: any other SQL that is approved.
ApproveWritten ==
    /\ stage = "validated"
    /\ sql' \in {c \in WrittenSql(plan) : check_semantic_conformance(plan, c)}
    /\ stage' = "approved"
    /\ UNCHANGED <<plan, reason, data, counted>>

Execute ==
    /\ stage = "approved"
    /\ data' \in LinkData(plan)
    /\ counted' = Counted(sql, data')
    /\ stage' = "done"
    /\ UNCHANGED <<plan, reason, sql>>

SqlNext == Validate \/ Compile \/ ApproveWritten \/ Execute

SqlSpec == SqlInit /\ [][SqlNext]_sqlplanvars

-----------------------------------------------------------------------------
(***************************************************************************)
(* The plan's own meaning, without an order of joins: a joined row takes a *)
(* linked row across every inner edge, and across a left edge a linked row *)
(* or, where the preserved side has none, Null.                            *)
(***************************************************************************)
Nullable(p, r) == IF p.joins[r] = "left" THEN To[r] ELSE From[r]

NullableEnds(p) == {Nullable(p, r) : r \in {q \in DOMAIN p.joins : IsLeft(p.joins[q])}}

PlanTerms(p) == {Atom(q) : q \in p.preds \cup p.filters} \cup p.groups

PlanRows(p, d) ==
    LET unmatched(x, r) ==
            /\ x[Nullable(p, r)] = Null
            /\ ~\E y \in Rows : LinkedBy(r, [x EXCEPT ![Nullable(p, r)] = y], d)
    IN  {x \in RowsOver(p.entities) :
            /\ \A e \in p.entities \ NullableEnds(p) : x[e] # Null
            /\ \A r \in DOMAIN p.joins :
                 LinkedBy(r, x, d) \/ (IsLeft(p.joins[r]) /\ unmatched(x, r))
            /\ \A t \in PlanTerms(p) : TermHolds(t, x)}

\* check_semantic_conformance: SQL that is approved returns the rows the plan
\* means, whatever the order of its joins, wherever an inner join's filter
\* stands and however its disjunctions are written.
ConformingMeansPlan == counted # Null => ResultRows(sql, data) = PlanRows(plan, data)

\* A named metric that validate_semantic_plan accepts counts the rows of its own
\* entity, each once, whichever joins restrict them and whichever approved form of
\* COUNT is used.
MetricCountsPopulation ==
    counted # Null /\ plan.metric =>
        counted = Cardinality({x[plan.subject] : x \in PlanRows(plan, data)} \ {Null})

\* SQL with the joins a plan asks for: every relationship once, and the entity a
\* LEFT JOIN adds is the one the plan lets be missing.
JoinsAsAsked(p, c) ==
    \A r \in DOMAIN p.joins : \E i \in DOMAIN c.joins :
        /\ c.joins[i].rel = r
        /\ (c.joins[i].type = "left") <=> IsLeft(p.joins[r])
        /\ IsLeft(p.joins[r]) => c.joins[i].added = Nullable(p, r)

\* Some column is told what to be (by equals or in), and none of the values it may
\* be satisfies everything that is asked of it.
NothingLeft(ps) ==
    \E e \in Entities, f \in Fields :
        LET q == {a \in OnColumn(ps, e, f) : a.op \in {"equals", "not_equals", "in", "not_in"}}
        IN  \E a \in q : /\ a.op \in {"equals", "in"}
                        /\ ~\E v \in Set(a) : \A b \in q : Holds(b, v)

\* Validation refuses what cannot be had.  The greedy search of
\* selected_join_order is complete: a plan refused for its LEFT orientation has no
\* SQL at all that joins what it asks for.  And _validate_predicate_consistency,
\* wherever it is reached, refuses exactly the filters that tell a column what to be
\* and leave it no value, the branches of OR rules included.  A column that is only
\* told what not to be is never refused, although the values it is kept from may be
\* all that a boolean or a column of known values has: the code does not ask what
\* values a column can have.
RefusalsExact ==
    /\ reason = "left_join_orientation_unsupported" =>
          ~\E c \in WrittenSql(plan) : JoinsAsAsked(plan, c)
    /\ stage \in {"validated", "refused"} /\ reason \in {"", "predicate_contradiction"} =>
          (reason = "predicate_contradiction")
          = (\/ NothingLeft(plan.preds \cup plan.filters)
             \/ \E g \in plan.groups : \E i \in DOMAIN g :
                   NothingLeft(plan.preds \cup plan.filters \cup g[i]))
=============================================================================
