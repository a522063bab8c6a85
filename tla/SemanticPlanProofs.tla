-------------------------- MODULE SemanticPlanProofs --------------------------
(***************************************************************************)
(* Machine-checked proofs about the result contract of RequiredIntent, for *)
(* every catalog, plan, contract and database; about the measurements of   *)
(* ProviderCall, for every count a provider may report and every number of *)
(* calls; and about the plans and the SQL of SemanticSql, for every        *)
(* catalog, plan, SQL and database.                                        *)
(***************************************************************************)
EXTENDS RequiredIntent, ProviderCall, SemanticSql, FiniteSetTheorems, FunctionTheorems,
        SequenceTheorems, WellFoundedInduction, TLAPS

-----------------------------------------------------------------------------
(* Equal tallies                                                           *)

\* The ids of the aggregations with key k
At(aggs, k) == {i \in DOMAIN aggs : aggs[i] = k}

\* They are finitely many.
LEMMA AtIsFinite ==
    ASSUME NEW a, IsFiniteSet(DOMAIN a), NEW k
    PROVE  IsFiniteSet(At(a, k))
<1>1. At(a, k) \subseteq DOMAIN a
  BY DEF At
<1> QED
  BY <1>1, FS_Subset

\* Two families with the same tally of keys are the same up to the ids.
LEMMA EqualTalliesMatch ==
    ASSUME NEW a, IsFiniteSet(DOMAIN a), NEW b, IsFiniteSet(DOMAIN b),
           KeysOf(a) = KeysOf(b)
    PROVE  \E g \in Bijection(DOMAIN a, DOMAIN b) : \A i \in DOMAIN a : b[g[i]] = a[i]
<1> DEFINE K == {a[i] : i \in DOMAIN a}
           m == [k \in K |-> CHOOSE f : f \in Bijection(At(a, k), At(b, k))]
           g == [i \in DOMAIN a |-> m[a[i]][i]]
<1>1. /\ DOMAIN KeysOf(a) = {a[i] : i \in DOMAIN a}
      /\ DOMAIN KeysOf(b) = {b[i] : i \in DOMAIN b}
      /\ \A k \in DOMAIN KeysOf(a) : KeysOf(a)[k] = Cardinality(At(a, k))
      /\ \A k \in DOMAIN KeysOf(b) : KeysOf(b)[k] = Cardinality(At(b, k))
  BY DEF KeysOf, At
<1>2. ASSUME NEW k \in K
      PROVE  m[k] \in Bijection(At(a, k), At(b, k))
  <2>1. Cardinality(At(a, k)) = Cardinality(At(b, k))
    BY <1>1
  <2>2. ExistsBijection(At(a, k), At(b, k))
    BY <2>1, AtIsFinite, FS_SameCardinalityBij
  <2>3. \E f : f \in Bijection(At(a, k), At(b, k))
    BY <2>2, Fun_ExistsBij
  <2> QED
    BY <2>3
<1> HIDE DEF m
<1>3. ASSUME NEW i \in DOMAIN a
      PROVE  /\ i \in At(a, a[i]) /\ a[i] \in K
             /\ g[i] \in At(b, a[i])
             /\ g[i] \in DOMAIN b /\ b[g[i]] = a[i]
  <2>1. i \in At(a, a[i]) /\ a[i] \in K
    BY DEF At
  <2>2. m[a[i]] \in [At(a, a[i]) -> At(b, a[i])]
    BY <1>2, <2>1, Fun_BijectionProperties
  <2> QED
    BY <2>1, <2>2 DEF At
<1>4. g \in [DOMAIN a -> DOMAIN b]
  BY <1>3
<1>5. ASSUME NEW i \in DOMAIN a, NEW j \in DOMAIN a, g[i] = g[j]
      PROVE  i = j
  <2>1. a[i] = a[j]
    BY <1>3, <1>5
  <2>2. i \in At(a, a[i]) /\ j \in At(a, a[i]) /\ a[i] \in K
    BY <1>3, <2>1
  <2>3. m[a[i]][i] = m[a[i]][j]
    BY <1>5, <2>1
  <2> QED
    BY <1>2, <2>2, <2>3, Fun_BijectionProperties
<1>6. ASSUME NEW j \in DOMAIN b
      PROVE  \E i \in DOMAIN a : g[i] = j
  <2>1. b[j] \in K /\ j \in At(b, b[j])
    BY <1>1 DEF At
  <2>2. PICK i \in At(a, b[j]) : m[b[j]][i] = j
    BY <1>2, <2>1, Fun_BijectionProperties
  <2>3. i \in DOMAIN a /\ a[i] = b[j]
    BY DEF At
  <2> QED
    BY <2>2, <2>3
<1>7. g \in Bijection(DOMAIN a, DOMAIN b)
  BY <1>4, <1>5, <1>6, Fun_IsBij
<1> QED
  BY <1>3, <1>7

\* What is computed from the keys is tallied as the keys are.
LEMMA ImageTally ==
    ASSUME NEW a, IsFiniteSet(DOMAIN a), NEW b, IsFiniteSet(DOMAIN b),
           KeysOf(a) = KeysOf(b), NEW h
    PROVE  KeysOf([i \in DOMAIN a |-> h[a[i]]]) = KeysOf([i \in DOMAIN b |-> h[b[i]]])
<1> DEFINE c == [i \in DOMAIN a |-> h[a[i]]]
           d == [i \in DOMAIN b |-> h[b[i]]]
<1>1. PICK g \in Bijection(DOMAIN a, DOMAIN b) : \A i \in DOMAIN a : b[g[i]] = a[i]
  BY EqualTalliesMatch
<1>2. /\ g \in [DOMAIN a -> DOMAIN b]
      /\ \A i, j \in DOMAIN a : g[i] = g[j] => i = j
      /\ \A j \in DOMAIN b : \E i \in DOMAIN a : g[i] = j
  BY Fun_BijectionProperties
<1>3. /\ DOMAIN c = DOMAIN a /\ DOMAIN d = DOMAIN b
      /\ \A i \in DOMAIN a : d[g[i]] = c[i]
  BY <1>1, <1>2
<1> HIDE DEF c, d
<1>4. {c[i] : i \in DOMAIN c} = {d[i] : i \in DOMAIN d}
  BY <1>2, <1>3
<1>5. ASSUME NEW v
      PROVE  Cardinality(At(c, v)) = Cardinality(At(d, v))
  <2> DEFINE f == [i \in At(c, v) |-> g[i]]
  <2>1. f \in [At(c, v) -> At(d, v)]
    BY <1>2, <1>3 DEF At
  <2>2. \A i, j \in At(c, v) : f[i] = f[j] => i = j
    BY <1>2, <1>3 DEF At
  <2>3. \A j \in At(d, v) : \E i \in At(c, v) : f[i] = j
    <3> TAKE j \in At(d, v)
    <3>1. j \in DOMAIN b /\ d[j] = v
      BY <1>3 DEF At
    <3>2. PICK i \in DOMAIN a : g[i] = j
      BY <1>2, <3>1
    <3>3. i \in At(c, v)
      BY <1>3, <3>1, <3>2 DEF At
    <3> QED
      BY <3>2, <3>3
  <2>4. f \in Bijection(At(c, v), At(d, v))
    <3> HIDE DEF f
    <3> QED
      BY <2>1, <2>2, <2>3, Fun_IsBij
  <2>5. ExistsBijection(At(c, v), At(d, v))
    BY <2>4, Fun_ExistsBij
  <2> QED
    BY <1>3, <2>5, AtIsFinite, FS_Bijection
<1>6. KeysOf(c) = [v \in {c[i] : i \in DOMAIN c} |-> Cardinality(At(c, v))]
  BY DEF KeysOf, At
<1>7. KeysOf(d) = [v \in {d[i] : i \in DOMAIN d} |-> Cardinality(At(d, v))]
  BY DEF KeysOf, At
<1>8. KeysOf(c) = KeysOf(d)
  BY <1>4, <1>5, <1>6, <1>7
<1> QED
  BY <1>8 DEF c, d

-----------------------------------------------------------------------------
(* Identities that stand for foreign keys                                  *)

\* A foreign key that is replaced by an identity is the key of a proven inner
\* join to it.
LEMMA NormalizationIs ==
    ASSUME NEW p, NEW f \in DOMAIN _distinct_count_identity_normalization(p)
    PROVE  \E r \in DOMAIN p.joins :
              /\ ProvesIdentity(r, p)
              /\ f = <<From[r], FromColumn[r]>>
              /\ _distinct_count_identity_normalization(p)[f] = <<To[r], "id">>
<1> DEFINE N == _distinct_count_identity_normalization(p)
           pairs == {<< <<From[r], FromColumn[r]>>, <<To[r], "id">> >>
                        : r \in {q \in DOMAIN p.joins : ProvesIdentity(q, p)}}
           targets(e) == {q[2] : q \in {x \in pairs : x[1] = e}}
<1>1. N = [e \in {g \in {q[1] : q \in pairs} : Cardinality(targets(g)) = 1} |->
              CHOOSE t \in targets(e) : TRUE]
  BY DEF _distinct_count_identity_normalization
<1>2. f \in {q[1] : q \in pairs} /\ N[f] = CHOOSE t \in targets(f) : TRUE
  BY <1>1
<1>3. PICK q \in pairs : q[1] = f
  BY <1>2
<1>4. q[2] \in targets(f)
  BY <1>3
<1>5. N[f] \in targets(f)
  <2> HIDE DEF targets, N
  <2> QED
    BY <1>2, <1>4
<1>6. PICK o \in pairs : o[1] = f /\ o[2] = N[f]
  <2> HIDE DEF pairs, N
  <2> QED
    BY <1>5
<1>7. PICK r \in {s \in DOMAIN p.joins : ProvesIdentity(s, p)} :
         o = << <<From[r], FromColumn[r]>>, <<To[r], "id">> >>
  BY <1>6
<1>8. o[1] = <<From[r], FromColumn[r]>> /\ o[2] = <<To[r], "id">>
  BY <1>7
<1> QED
  BY <1>6, <1>7, <1>8

\* On a joined row the two have the same value, whatever the viewer cannot see.
LEMMA KeyIsIdentity ==
    ASSUME NEW p \in Plans, NEW d \in Databases(p), NEW x \in JoinedRows(p, d),
           NEW f \in DOMAIN _distinct_count_identity_normalization(p)
    PROVE  Value(x, f, d) = Value(x, _distinct_count_identity_normalization(p)[f], d)
<1>1. PICK r \in DOMAIN p.joins :
              /\ ProvesIdentity(r, p)
              /\ f = <<From[r], FromColumn[r]>>
              /\ _distinct_count_identity_normalization(p)[f] = <<To[r], "id">>
  BY NormalizationIs
<1>2. r \in Rels /\ FromColumn[r] # "id"
  BY ContractAssumption
<1>3. p.joins[r] = "inner"
  BY <1>1 DEF ProvesIdentity
<1>4. Linked(r, x, d)
  BY <1>3 DEF JoinedRows
<1>5. x[From[r]] # Null /\ x[To[r]] # Null /\ d.link[r][x[From[r]]] = x[To[r]]
  BY <1>4 DEF Linked
<1>6. PICK q : q = CHOOSE s \in DOMAIN d.link : From[s] = From[r] /\ FromColumn[s] = FromColumn[r]
  OBVIOUS
<1>7. DOMAIN d.link = DOMAIN p.joins
  BY DEF Databases
<1>8. q \in DOMAIN p.joins /\ From[q] = From[r] /\ FromColumn[q] = FromColumn[r]
  BY <1>6, <1>7
<1>9. d.link[q] = d.link[r]
  BY <1>8 DEF Databases
<1>10. Value(x, <<From[r], FromColumn[r]>>, d) = d.link[q][x[From[r]]]
  BY <1>2, <1>5, <1>6 DEF Value
<1>11. Value(x, <<To[r], "id">>, d) = x[To[r]]
  BY <1>5 DEF Value
<1> QED
  BY <1>1, <1>5, <1>9, <1>10, <1>11

\* So an aggregate is the same for a key and for what the comparison takes it for.
LEMMA NormalizedIsEqual ==
    ASSUME NEW p \in Plans, NEW d \in Databases(p), NEW xs, xs \subseteq JoinedRows(p, d),
           NEW i, NEW k
    PROVE  Aggregate(_normalize_aggregation_key(k, NormalizationFor(p, i)), xs, d)
           = Aggregate(k, xs, d)
<1> DEFINE N == _distinct_count_identity_normalization(p)
<1>1. CASE ~ (k[1] = "count" /\ k[3] /\ k[2] \in DOMAIN NormalizationFor(p, i))
  <2>1. _normalize_aggregation_key(k, NormalizationFor(p, i)) = k
    BY Zenon, <1>1 DEF _normalize_aggregation_key
  <2> QED
    BY <2>1
<1>2. CASE k[1] = "count" /\ k[3] /\ k[2] \in DOMAIN NormalizationFor(p, i)
  <2>1. NormalizationFor(p, i) = N
    <3>1. DOMAIN << >> = {}
      OBVIOUS
    <3> QED
      BY <1>2, <3>1 DEF NormalizationFor
  <2>2. PICK f : f = k[2]
    OBVIOUS
  <2>3. f \in DOMAIN N /\ k[3]
    BY <1>2, <2>1, <2>2
  <2>4. PICK t : t = N[f]
    OBVIOUS
  <2>5. _normalize_aggregation_key(k, NormalizationFor(p, i)) = <<k[1], t, k[3]>>
    BY Zenon, <1>2, <2>1, <2>2, <2>4 DEF _normalize_aggregation_key
  <2> HIDE DEF N
  <2>6. \A x \in xs : Value(x, f, d) = Value(x, t, d)
    BY <2>3, <2>4, KeyIsIdentity DEF N
  <2>7. NonNullIn(f, xs, d) = NonNullIn(t, xs, d) /\ NonNullIn(f, xs, d) \subseteq xs
    BY <2>6 DEF NonNullIn
  <2>8. {Value(x, f, d) : x \in NonNullIn(f, xs, d)} = {Value(x, t, d) : x \in NonNullIn(t, xs, d)}
    BY <2>6, <2>7
  <2>9. PICK r \in DOMAIN p.joins : f = <<From[r], FromColumn[r]>> /\ t = <<To[r], "id">>
    BY <2>3, <2>4, NormalizationIs DEF N
  <2>10. f # Null /\ t # Null
    BY <2>9, ContractAssumption
  <2>11. Aggregate(k, xs, d) = Cardinality({Value(x, f, d) : x \in NonNullIn(f, xs, d)})
    BY <2>2, <2>3, <2>10 DEF Aggregate
  <2>12. Aggregate(<<k[1], t, k[3]>>, xs, d)
         = Cardinality({Value(x, t, d) : x \in NonNullIn(t, xs, d)})
    BY <2>3, <2>10 DEF Aggregate
  <2> QED
    BY <2>5, <2>8, <2>11, <2>12
<1> QED
  BY <1>1, <1>2

-----------------------------------------------------------------------------
(* An accepted plan                                                        *)

\* The numbers that aggs computes of the rows xs
Numbers(aggs, xs, d) == [i \in DOMAIN aggs |-> Aggregate(aggs[i], xs, d)]

\* Equal keys, equal numbers.
LEMMA EqualKeysEqualNumbers ==
    ASSUME NEW a, IsFiniteSet(DOMAIN a), NEW b, IsFiniteSet(DOMAIN b),
           KeysOf(a) = KeysOf(b), NEW xs, NEW d
    PROVE  KeysOf(Numbers(a, xs, d)) = KeysOf(Numbers(b, xs, d))
<1> DEFINE h == [k \in {a[i] : i \in DOMAIN a} \cup {b[i] : i \in DOMAIN b} |->
                    Aggregate(k, xs, d)]
<1>1. /\ \A i \in DOMAIN a : h[a[i]] = Aggregate(a[i], xs, d)
      /\ \A i \in DOMAIN b : h[b[i]] = Aggregate(b[i], xs, d)
  OBVIOUS
<1> HIDE DEF h
<1>2. /\ [i \in DOMAIN a |-> h[a[i]]] = Numbers(a, xs, d)
      /\ [i \in DOMAIN b |-> h[b[i]]] = Numbers(b, xs, d)
  BY <1>1 DEF Numbers
<1>3. KeysOf([i \in DOMAIN a |-> h[a[i]]]) = KeysOf([i \in DOMAIN b |-> h[b[i]]])
  BY ImageTally
<1> QED
  BY <1>2, <1>3

\* Normalisation changes no number.
LEMMA NormalizedNumbers ==
    ASSUME NEW p \in Plans, NEW d \in Databases(p), NEW xs, xs \subseteq JoinedRows(p, d),
           NEW i, NEW a
    PROVE  /\ DOMAIN Normalized(a, NormalizationFor(p, i)) = DOMAIN a
           /\ Numbers(Normalized(a, NormalizationFor(p, i)), xs, d) = Numbers(a, xs, d)
<1> DEFINE n == Normalized(a, NormalizationFor(p, i))
<1>1. /\ DOMAIN n = DOMAIN a
      /\ \A j \in DOMAIN a : n[j] = _normalize_aggregation_key(a[j], NormalizationFor(p, i))
  BY DEF Normalized
<1>2. \A j \in DOMAIN a : Aggregate(n[j], xs, d) = Aggregate(a[j], xs, d)
  BY <1>1, NormalizedIsEqual
<1> HIDE DEF n
<1>3. Numbers(n, xs, d) = Numbers(a, xs, d)
  BY <1>1, <1>2 DEF Numbers
<1> QED
  BY <1>1, <1>3 DEF n

\* Aggregations that match compute the same numbers of the plan's own rows.
LEMMA MatchingNumbers ==
    ASSUME NEW p \in Plans, NEW i \in Intents, AggregationsMatch(p, i),
           NEW d \in Databases(p), NEW xs, xs \subseteq JoinedRows(p, d)
    PROVE  KeysOf(Numbers(p.aggregations, xs, d)) = KeysOf(Numbers(i.aggregations, xs, d))
<1> DEFINE N == NormalizationFor(p, i)
<1>1. IsFiniteSet(DOMAIN p.aggregations) /\ IsFiniteSet(DOMAIN i.aggregations)
  BY ContractAssumption DEF WellFormed
<1>2. CASE KeysOf(i.aggregations) = KeysOf(p.aggregations)
  BY <1>1, <1>2, EqualKeysEqualNumbers
<1>3. CASE KeysOf(Normalized(i.aggregations, N)) = KeysOf(Normalized(p.aggregations, N))
  <2>1. /\ DOMAIN Normalized(i.aggregations, N) = DOMAIN i.aggregations
        /\ DOMAIN Normalized(p.aggregations, N) = DOMAIN p.aggregations
        /\ Numbers(Normalized(i.aggregations, N), xs, d) = Numbers(i.aggregations, xs, d)
        /\ Numbers(Normalized(p.aggregations, N), xs, d) = Numbers(p.aggregations, xs, d)
    BY NormalizedNumbers
  <2>2. KeysOf(Numbers(Normalized(i.aggregations, N), xs, d))
        = KeysOf(Numbers(Normalized(p.aggregations, N), xs, d))
    BY <1>1, <1>3, <2>1, EqualKeysEqualNumbers
  <2> QED
    BY <2>1, <2>2
<1> QED
  BY <1>2, <1>3 DEF AggregationsMatch

\* A HAVING of the one side is a HAVING of the other that keeps the same groups.
LEMMA KeepsAsMatched ==
    ASSUME NEW p \in Plans, NEW d \in Databases(p), NEW xs, xs \subseteq JoinedRows(p, d),
           NEW i, NEW s, NEW t,
           \A h \in s.having : \E g \in t.having :
              HavingKey(h, s.aggregations, NormalizationFor(p, i))
              = HavingKey(g, t.aggregations, NormalizationFor(p, i)),
           Keeps(t.having, t.aggregations, xs, d)
    PROVE  Keeps(s.having, s.aggregations, xs, d)
<1> DEFINE N == NormalizationFor(p, i)
<1> SUFFICES ASSUME NEW h \in s.having
             PROVE  IF h.op = "equals" THEN Aggregate(s.aggregations[h.id], xs, d) = h.v
                    ELSE Aggregate(s.aggregations[h.id], xs, d) > h.v
  BY DEF Keeps
<1>1. PICK g \in t.having : HavingKey(h, s.aggregations, N) = HavingKey(g, t.aggregations, N)
  OBVIOUS
<1> HIDE DEF N
<1>2. /\ _normalize_aggregation_key(s.aggregations[h.id], N)
         = _normalize_aggregation_key(t.aggregations[g.id], N)
      /\ h.op = g.op /\ h.v = g.v
  <2> DEFINE x == _normalize_aggregation_key(s.aggregations[h.id], N)
             y == _normalize_aggregation_key(t.aggregations[g.id], N)
  <2>1. <<x, h.op, h.v>> = <<y, g.op, g.v>>
    BY <1>1 DEF HavingKey
  <2> HIDE DEF x, y
  <2>2. x = y /\ h.op = g.op /\ h.v = g.v
    BY <2>1
  <2> QED
    BY <2>2 DEF x, y
<1>3. Aggregate(s.aggregations[h.id], xs, d) = Aggregate(t.aggregations[g.id], xs, d)
  BY <1>2, NormalizedIsEqual DEF N
<1>4. IF g.op = "equals" THEN Aggregate(t.aggregations[g.id], xs, d) = g.v
      ELSE Aggregate(t.aggregations[g.id], xs, d) > g.v
  BY DEF Keeps
<1> QED
  BY <1>2, <1>3, <1>4

\* Matching HAVINGs keep the same groups.
LEMMA MatchingKeeps ==
    ASSUME NEW p \in Plans, NEW i \in Intents, HavingMatches(i, p, NormalizationFor(p, i)),
           NEW d \in Databases(p), NEW xs, xs \subseteq JoinedRows(p, d)
    PROVE  Keeps(p.having, p.aggregations, xs, d) <=> Keeps(i.having, i.aggregations, xs, d)
<1> DEFINE N == NormalizationFor(p, i)
<1>1. {HavingKey(h, i.aggregations, N) : h \in i.having}
      = {HavingKey(h, p.aggregations, N) : h \in p.having}
  BY DEF HavingMatches
<1> HIDE DEF N
<1>2. \A h \in i.having : \E g \in p.having :
         HavingKey(h, i.aggregations, N) = HavingKey(g, p.aggregations, N)
  BY <1>1
<1>3. \A h \in p.having : \E g \in i.having :
         HavingKey(h, p.aggregations, N) = HavingKey(g, i.aggregations, N)
  BY <1>1
<1> QED
  BY <1>2, <1>3, KeepsAsMatched DEF N

\* An accepted plan keeps being one that the contract accepts, and what it is
\* executed on is a database of its joins.
ContractInv ==
    /\ plan \in Plans
    /\ stage = "proposed" => db = Null
    /\ stage = "accepted" \/ db # Null =>
          intent \in Intents /\ _validate_grounded_result_intent(plan, intent) = ""
    /\ db # Null => db \in Databases(plan)

\* The initial states have it.
LEMMA ContractInvInit == ContractInit => ContractInv
BY DEF ContractInit, ContractInv

\* Every step keeps it.
LEMMA ContractInvNext == ContractInv /\ [ContractNext]_contractvars => ContractInv'
<1> SUFFICES ASSUME ContractInv, [ContractNext]_contractvars PROVE ContractInv'
  OBVIOUS
<1>1. CASE ContractValidate
  <2>1. /\ stage = "proposed" /\ plan' = plan /\ db' = db /\ db = Null
        /\ intent' \in Intents /\ reason' = _validate_grounded_result_intent(plan, intent')
        /\ stage' = (IF reason' = "" THEN "accepted" ELSE "refused")
    BY <1>1 DEF ContractValidate, ContractInv
  <2>2. stage' = "accepted" => _validate_grounded_result_intent(plan', intent') = ""
    <3> HIDE DEF _validate_grounded_result_intent
    <3> QED
      BY <2>1
  <2>3. plan' \in Plans /\ stage' # "proposed"
    BY <2>1 DEF ContractInv
  <2> QED
    BY <2>1, <2>2, <2>3 DEF ContractInv
<1>2. CASE ContractExecute
  BY <1>2 DEF ContractExecute, ContractInv
<1>3. CASE UNCHANGED contractvars
  BY <1>3 DEF contractvars, ContractInv
<1> QED
  BY <1>1, <1>2, <1>3 DEF ContractNext

\* It is what the property needs.
LEMMA ContractInvSuffices == ContractInv => RequiredIntentMet
<1> SUFFICES ASSUME ContractInv, db # Null, NEW g \in Groups(plan, db)
             PROVE  LET xs == GroupRows(plan, db, g)
                        numbers(aggs) == KeysOf([i \in DOMAIN aggs |-> Aggregate(aggs[i], xs, db)])
                    IN  /\ DOMAIN intent.aggregations # {} =>
                              numbers(plan.aggregations) = numbers(intent.aggregations)
                        /\ intent.having # {} =>
                              (Keeps(plan.having, plan.aggregations, xs, db)
                               <=> Keeps(intent.having, intent.aggregations, xs, db))
  BY DEF RequiredIntentMet
<1>1. /\ plan \in Plans /\ intent \in Intents /\ db \in Databases(plan)
      /\ _validate_grounded_result_intent(plan, intent) = ""
  BY DEF ContractInv
<1>2. PICK xs : xs = GroupRows(plan, db, g)
  OBVIOUS
<1>3. xs \subseteq JoinedRows(plan, db)
  BY <1>2 DEF GroupRows
<1>4. DOMAIN intent.aggregations # {} => AggregationsMatch(plan, intent)
  BY <1>1 DEF _validate_grounded_result_intent
<1>5. intent.having # {} => HavingMatches(intent, plan, NormalizationFor(plan, intent))
  BY <1>1 DEF _validate_grounded_result_intent
<1>6. DOMAIN intent.aggregations # {} =>
         KeysOf(Numbers(plan.aggregations, xs, db)) = KeysOf(Numbers(intent.aggregations, xs, db))
  BY <1>1, <1>3, <1>4, MatchingNumbers
<1>7. intent.having # {} =>
         (Keeps(plan.having, plan.aggregations, xs, db)
          <=> Keeps(intent.having, intent.aggregations, xs, db))
  BY <1>1, <1>3, <1>5, MatchingKeeps
<1> QED
  BY <1>2, <1>6, <1>7 DEF Numbers

\* Whatever the catalog, the contract and the data the viewer may or may not
\* see, a plan that _validate_grounded_result_intent accepts computes the numbers
\* and keeps the groups of its contract.
THEOREM ContractsAreMet == ContractSpec => []RequiredIntentMet
<1> QED
  BY ContractInvInit, ContractInvNext, ContractInvSuffices, PTL DEF ContractSpec

-----------------------------------------------------------------------------
(* Sums                                                                    *)

\* A set of naturals with an element has a least one.
LEMMA LeastNatural ==
    ASSUME NEW T, T \subseteq Nat, T # {}
    PROVE  \E x \in T : \A y \in T : x <= y
<1>1. PICK x \in T : \A y \in T : ~ (<<y, x>> \in OpToRel(<, Nat))
  BY NatLessThanWellFounded, WFMin
<1>2. \A y \in T : ~ (y < x)
  BY <1>1 DEF OpToRel
<1> QED
  BY <1>2

\* A running total of ns up to n
Totals(ns, n, s) == s = [k \in 0..n |-> IF k = 0 THEN 0 ELSE s[k - 1] + ns[k]]

\* Every sequence has running totals: the least length without them has a
\* predecessor with them.
LEMMA TotalsExist ==
    ASSUME NEW ns \in Seq(Nat), NEW n \in 0..Len(ns)
    PROVE  \E s \in [0..n -> Nat] : Totals(ns, n, s)
<1> DEFINE Has(m) == \E s \in [0..m -> Nat] : Totals(ns, m, s)
           T == {m \in 0..Len(ns) : ~ Has(m)}
<1>1. Has(0)
  <2> DEFINE s == [k \in 0..0 |-> 0]
  <2>1. s \in [0..0 -> Nat] /\ s = [k \in 0..0 |-> IF k = 0 THEN 0 ELSE s[k - 1] + ns[k]]
    OBVIOUS
  <2> QED
    BY <2>1 DEF Totals
<1>2. ASSUME NEW m \in Nat, m + 1 \in 0..Len(ns), Has(m)
      PROVE  Has(m + 1)
  <2>1. PICK s \in [0..m -> Nat] : s = [k \in 0..m |-> IF k = 0 THEN 0 ELSE s[k - 1] + ns[k]]
    BY <1>2 DEF Totals
  <2>2. ns[m + 1] \in Nat
    BY <1>2
  <2> DEFINE t == [k \in 0..m + 1 |-> IF k = m + 1 THEN s[m] + ns[m + 1] ELSE s[k]]
  <2>3. t \in [0..m + 1 -> Nat]
    BY <2>1, <2>2
  <2>4. ASSUME NEW k \in 0..m + 1
        PROVE  t[k] = IF k = 0 THEN 0 ELSE t[k - 1] + ns[k]
    <3>1. CASE k = m + 1
      BY <3>1, <2>1
    <3>2. CASE k # m + 1
      <4>1. k \in 0..m /\ t[k] = s[k] /\ (k # 0 => k - 1 \in 0..m /\ t[k - 1] = s[k - 1])
        BY <3>2
      <4>2. s[k] = IF k = 0 THEN 0 ELSE s[k - 1] + ns[k]
        BY <2>1, <4>1
      <4> QED
        BY <4>1, <4>2
    <3> QED
      BY <3>1, <3>2
  <2> HIDE DEF t
  <2>5. t = [k \in 0..m + 1 |-> IF k = 0 THEN 0 ELSE t[k - 1] + ns[k]]
    BY <2>3, <2>4
  <2> QED
    BY <2>3, <2>5 DEF Totals
<1>3. SUFFICES ASSUME T # {} PROVE FALSE
  <2>1. Has(n)
    BY <1>3
  <2> QED
    BY <2>1
<1> HIDE DEF Has
<1>4. T \subseteq Nat
  OBVIOUS
<1>5. PICK m \in T : \A k \in T : m <= k
  BY <1>3, <1>4, LeastNatural
<1>6. m \in Nat /\ m # 0 /\ m \in 0..Len(ns)
  BY <1>1, <1>5
<1>7. m - 1 \in Nat /\ m - 1 \in 0..Len(ns) /\ ~ (m <= m - 1)
  BY <1>6
<1>8. Has(m - 1)
  BY <1>5, <1>7
<1>9. m - 1 + 1 = m
  BY <1>6
<1> QED
  BY <1>2, <1>5, <1>6, <1>7, <1>8, <1>9

\* Two sequences agree up to n.
Agree(ns, ms, n) == \A k \in 1..n : ns[k] = ms[k]

\* Running totals s and t are the same up to n.
SameTotals(s, t, n) == \A k \in 0..n : s[k] = t[k]

\* Running totals agree as long as what is added agrees.
LEMMA TotalsAgree ==
    ASSUME NEW n \in Nat, NEW m \in Nat, n <= m, NEW ns, NEW ms, NEW s, NEW t,
           Totals(ns, n, s), Totals(ms, m, t), Agree(ns, ms, n)
    PROVE  SameTotals(s, t, n)
<1> DEFINE T == {k \in 0..n : s[k] # t[k]}
<1>1. /\ \A k \in 0..n : s[k] = IF k = 0 THEN 0 ELSE s[k - 1] + ns[k]
      /\ \A k \in 0..m : t[k] = IF k = 0 THEN 0 ELSE t[k - 1] + ms[k]
  <2>1. s = [k \in 0..n |-> IF k = 0 THEN 0 ELSE s[k - 1] + ns[k]]
    BY DEF Totals
  <2>2. t = [k \in 0..m |-> IF k = 0 THEN 0 ELSE t[k - 1] + ms[k]]
    BY DEF Totals
  <2> QED
    BY <2>1, <2>2
<1>2. SUFFICES ASSUME T # {} PROVE FALSE
  BY DEF SameTotals
<1>3. T \subseteq Nat
  OBVIOUS
<1>4. PICK k \in T : \A j \in T : k <= j
  BY <1>2, <1>3, LeastNatural
<1>5. k \in 0..n /\ k \in 0..m /\ s[k] # t[k]
  BY <1>4
<1>6. k # 0
  BY <1>1, <1>5
<1>7. k - 1 \in 0..n /\ k \in 1..n /\ ~ (k <= k - 1)
  BY <1>5, <1>6
<1>8. s[k - 1] = t[k - 1]
  BY <1>4, <1>7
<1> QED
  BY <1>1, <1>5, <1>6, <1>7, <1>8 DEF Agree

\* SumUp is the last running total.
LEMMA SumIs ==
    ASSUME NEW ns \in Seq(Nat)
    PROVE  \E s \in [0..Len(ns) -> Nat] : Totals(ns, Len(ns), s) /\ SumUp(ns) = s[Len(ns)]
<1>1. Len(ns) \in 0..Len(ns)
  OBVIOUS
<1>2. PICK r \in [0..Len(ns) -> Nat] : Totals(ns, Len(ns), r)
  BY <1>1, TotalsExist
<1>3. PICK s : s = CHOOSE u : u = [k \in 0..Len(ns) |-> IF k = 0 THEN 0 ELSE u[k - 1] + ns[k]]
  OBVIOUS
<1>4. s = [k \in 0..Len(ns) |-> IF k = 0 THEN 0 ELSE s[k - 1] + ns[k]]
  BY <1>2, <1>3 DEF Totals
<1>5. Totals(ns, Len(ns), s)
  BY <1>4 DEF Totals
<1>6. SumUp(ns) = s[Len(ns)]
  BY <1>3 DEF SumUp
<1>7. \A k \in 0..Len(ns) : s[k] = r[k]
  <2>1. Len(ns) \in Nat /\ Len(ns) <= Len(ns) /\ Agree(ns, ns, Len(ns))
    BY DEF Agree
  <2>2. PICK n \in Nat : n = Len(ns)
    BY <2>1
  <2>3. SameTotals(s, r, n)
    BY <1>2, <1>5, <2>1, <2>2, TotalsAgree, Zenon
  <2> QED
    BY <2>2, <2>3 DEF SameTotals
<1>8. s \in [0..Len(ns) -> Nat]
  <2>1. s = [k \in 0..Len(ns) |-> s[k]]
    BY <1>4
  <2> QED
    BY <1>2, <1>7, <2>1
<1> QED
  BY <1>5, <1>6, <1>8

\* A sum of counts is a count,
LEMMA SumIsNat ==
    ASSUME NEW ns \in Seq(Nat)
    PROVE  SumUp(ns) \in Nat
BY SumIs

\* that of none is zero,
LEMMA SumUpNone == SumUp(<< >>) = 0
<1>1. PICK s \in [0..0 -> Nat] : Totals(<< >>, 0, s) /\ SumUp(<< >>) = s[0]
  <2>1. << >> \in Seq(Nat) /\ Len(<< >>) = 0
    OBVIOUS
  <2> QED
    BY <2>1, SumIs
<1>2. s = [k \in 0..0 |-> IF k = 0 THEN 0 ELSE s[k - 1] + << >>[k]]
  BY <1>1 DEF Totals
<1>3. 0 \in 0..0
  OBVIOUS
<1>4. s[0] = IF 0 = 0 THEN 0 ELSE s[0 - 1] + << >>[0]
  BY <1>2, <1>3, Zenon
<1> QED
  BY <1>1, <1>4

\* and one more count adds to it.
LEMMA SumUpOneMore ==
    ASSUME NEW ns \in Seq(Nat), NEW ms \in Seq(Nat), Len(ms) = Len(ns) + 1,
           \A k \in 1..Len(ns) : ms[k] = ns[k]
    PROVE  SumUp(ms) = SumUp(ns) + ms[Len(ms)]
<1>1. PICK n \in Nat : n = Len(ns)
  OBVIOUS
<1>2. PICK s \in [0..n -> Nat] : Totals(ns, n, s) /\ SumUp(ns) = s[n]
  BY <1>1, SumIs
<1>3. PICK m \in Nat : m = Len(ms) /\ m = n + 1
  BY <1>1
<1>4. PICK t \in [0..m -> Nat] : Totals(ms, m, t) /\ SumUp(ms) = t[m]
  BY <1>3, SumIs
<1>5. n <= m /\ Agree(ns, ms, n)
  BY <1>1, <1>3 DEF Agree
<1>6. \A k \in 0..n : s[k] = t[k]
  <2>1. Totals(ns, n, s) /\ Totals(ms, m, t)
    BY <1>2, <1>4
  <2>2. SameTotals(s, t, n)
    BY <1>5, <2>1, TotalsAgree, Zenon
  <2> QED
    BY <2>2 DEF SameTotals
<1>7. t = [k \in 0..m |-> IF k = 0 THEN 0 ELSE t[k - 1] + ms[k]]
  BY <1>4 DEF Totals
<1>8. t[m] = t[n] + ms[m]
  BY <1>3, <1>7
<1>9. s[n] = t[n]
  BY <1>6
<1> QED
  BY <1>1, <1>2, <1>3, <1>4, <1>8, <1>9

-----------------------------------------------------------------------------
(* Calls and what is kept of them                                          *)

Usage == [full : BOOLEAN, tokens : Nat \cup {None}]

CallEnds == Faults \cup Answers \cup Defects \cup {None, "no_authorized_schema"}

\* A full usage block has its count.
GoodUsages(us) ==
    us \in Seq(Usage) /\ \A i \in DOMAIN us : us[i].full => us[i].tokens \in Nat

AllFull(us) == \A i \in DOMAIN us : us[i].full

\* The attempts of a call that are over
Over(c) == IF c.pc = "sent" THEN c.attempts - 1 ELSE c.attempts

\* A call counts its attempts before their responses, never more of them than
\* the client may make; and once every attempt has a response with a full usage,
\* what they report is what was billed.
CallOK(c) ==
    /\ c \in [pc : {"idle", "send", "sent", "ended"}, attempts : Nat, usages : Seq(Usage),
              billed : Nat, end : CallEnds]
    /\ GoodUsages(c.usages)
    /\ c.pc = "send" => c.attempts <= MaxRetries
    /\ c.pc \in {"sent", "ended"} => c.attempts \in 1..MaxRetries + 1
    /\ Len(c.usages) <= Over(c)
    /\ AllFull(c.usages) /\ Len(c.usages) = Over(c) => c.billed = Reported(c.usages)

Statuses == {service_status(plan_result(end), ok) : end \in CallEnds, ok \in BOOLEAN}

LogEntry == [measurement : Measurement \cup {None}, attempts : Nat, billed : Nat, end : CallEnds,
             fatal : BOOLEAN, status : Statuses]

\* Only a call that never left has no measurement, and a complete measurement
\* has the total that was billed.
EntryOK(e) ==
    /\ e.measurement = None => e.attempts = 0 /\ e.billed = 0
    /\ e.measurement # None => /\ e.measurement.attempts = e.attempts
                               /\ e.measurement.complete => e.measurement.tokens = e.billed

CallsInv ==
    /\ CallOK(call)
    /\ log \in Seq(LogEntry) /\ \A i \in DOMAIN log : EntryOK(log[i])

\* What the usage blocks report is the sum of their counts.
LEMMA ReportedIs ==
    ASSUME NEW us \in Seq(Usage)
    PROVE  /\ [i \in DOMAIN us |-> IF us[i].tokens = None THEN 0 ELSE us[i].tokens] \in Seq(Nat)
           /\ Len([i \in DOMAIN us |-> IF us[i].tokens = None THEN 0 ELSE us[i].tokens]) = Len(us)
           /\ Reported(us) \in Nat
<1> DEFINE ns == [i \in DOMAIN us |-> IF us[i].tokens = None THEN 0 ELSE us[i].tokens]
<1>1. ns \in [1..Len(us) -> Nat]
  <2>1. DOMAIN us = 1..Len(us) /\ \A i \in 1..Len(us) : us[i] \in Usage
    OBVIOUS
  <2>2. \A i \in 1..Len(us) : us[i].tokens = None \/ us[i].tokens \in Nat
    BY <2>1 DEF Usage
  <2> QED
    BY <2>1, <2>2
<1>2. Reported(us) = SumUp(ns)
  BY DEF Reported
<1>3. ns \in Seq(Nat) /\ Len(ns) = Len(us) /\ Reported(us) \in Nat
  <2> HIDE DEF ns
  <2>1. ns \in Seq(Nat) /\ Len(ns) = Len(us)
    BY <1>1
  <2> QED
    BY <1>2, <2>1, SumIsNat
<1> QED
  BY <1>3

\* One response more adds its count.
LEMMA ReportedGrows ==
    ASSUME NEW us \in Seq(Usage), NEW u \in Usage, u.tokens # None
    PROVE  Reported(Append(us, u)) = Reported(us) + u.tokens
<1> DEFINE count(vs) == [i \in DOMAIN vs |-> IF vs[i].tokens = None THEN 0 ELSE vs[i].tokens]
           vs == Append(us, u)
           ns == count(us)
           ms == count(vs)
<1>1. vs \in Seq(Usage) /\ Len(vs) = Len(us) + 1 /\ DOMAIN vs = 1..Len(us) + 1 /\ DOMAIN us = 1..Len(us)
  OBVIOUS
<1>2. vs[Len(us) + 1] = u /\ \A k \in 1..Len(us) : vs[k] = us[k]
  OBVIOUS
<1>3. ns \in Seq(Nat) /\ Len(ns) = Len(us) /\ ms \in Seq(Nat) /\ Len(ms) = Len(us) + 1
  <2> HIDE DEF vs
  <2> QED
    BY <1>1, ReportedIs
<1>4. ms[Len(us) + 1] = u.tokens /\ \A k \in 1..Len(us) : ms[k] = ns[k]
  <2> HIDE DEF vs
  <2> QED
    BY <1>1, <1>2
<1>5. SumUp(ns) = Reported(us) /\ SumUp(ms) = Reported(vs)
  BY DEF Reported
<1> HIDE DEF ns, ms, vs
<1>6. SumUp(ms) = SumUp(ns) + ms[Len(ms)]
  BY <1>3, <1>4, SumUpOneMore
<1>7. Reported(vs) = Reported(us) + u.tokens
  BY <1>3, <1>4, <1>5, <1>6
<1> QED
  BY <1>7 DEF vs

\* The initial states have the invariant.
LEMMA CallsInvInit == CallInit => CallsInv
<1>1. Reported(<< >>) = 0
  <2>1. [i \in DOMAIN << >> |-> IF << >>[i].tokens = None THEN 0 ELSE << >>[i].tokens] = << >>
    OBVIOUS
  <2> QED
    BY <2>1, SumUpNone DEF Reported
<1>2. CallOK(Idle)
  BY <1>1 DEF CallOK, Idle, GoodUsages, CallEnds, Over
<1> QED
  BY <1>2 DEF CallInit, CallsInv

\* Sending and losing an attempt, and beginning a call, keep it.
LEMMA CallGoesOn ==
    ASSUME CallsInv, Begin \/ Send \/ Lost
    PROVE  CallsInv'
<1> SUFFICES CallOK(call')
  BY DEF Begin, Send, Lost, CallsInv
<1>0. MaxRetries \in Nat
  BY ProviderAssumption
<1>1. CASE Begin
  <2>1. Reported(<< >>) = 0
    BY CallsInvInit, SumUpNone DEF Reported
  <2>2. call' = [pc |-> "send", attempts |-> 0, usages |-> << >>, billed |-> 0, end |-> None]
    BY <1>1 DEF Begin, Idle
  <2> QED
    BY <1>0, <2>1, <2>2 DEF CallOK, GoodUsages, CallEnds, Over
<1>2. CASE Send
  <2>1. /\ CallOK(call) /\ call.pc = "send"
        /\ call' = [pc |-> "sent", attempts |-> call.attempts + 1, usages |-> call.usages,
                    billed |-> call.billed, end |-> call.end]
    BY <1>2 DEF Send, CallsInv, CallOK
  <2>2. call.attempts \in Nat /\ Over(call') = Over(call)
    BY <2>1 DEF CallOK, Over
  <2> QED
    BY <1>0, <2>1, <2>2 DEF CallOK
<1>3. CASE Lost
  <2>1. PICK end \in {"timeout", "connection"}, n \in Tokens \cup {0} :
            call' = [call EXCEPT !.pc = After(end), !.end = end, !.billed = @ + n]
    BY <1>3 DEF Lost
  <2>2. call.pc = "sent" /\ CallOK(call)
    BY <1>3 DEF Lost, CallsInv
  <2>3. n \in Nat
    BY ProviderAssumption
  <2>4. end \in CallEnds
    BY DEF CallEnds, Faults, Retried
  <2>5. After(end) \in {"send", "ended"} /\ (After(end) = "send" => call.attempts <= MaxRetries)
    BY DEF After
  <2>6. call' = [pc |-> After(end), attempts |-> call.attempts, usages |-> call.usages,
                 billed |-> call.billed + n, end |-> end]
    BY <2>1, <2>2 DEF CallOK
  <2>7. /\ Over(call) = call.attempts - 1 /\ Over(call') = call.attempts
        /\ call.attempts \in 1..MaxRetries + 1
    BY <2>2, <2>5, <2>6 DEF CallOK, Over
  <2>8. /\ Len(call'.usages) < Over(call')
        /\ call' \in [pc : {"idle", "send", "sent", "ended"}, attempts : Nat, usages : Seq(Usage),
                      billed : Nat, end : CallEnds]
    BY <1>0, <2>2, <2>3, <2>4, <2>5, <2>6, <2>7 DEF CallOK
  <2> QED
    BY <1>0, <2>2, <2>5, <2>6, <2>7, <2>8 DEF CallOK
<1> QED
  BY <1>1, <1>2, <1>3

\* So does a response.
LEMMA CallIsAnswered ==
    ASSUME CallsInv, Respond
    PROVE  CallsInv'
<1> SUFFICES CallOK(call')
  BY DEF Respond, CallsInv
<1>0. MaxRetries \in Nat
  BY ProviderAssumption
<1>1. PICK end \in (Faults \ {"timeout", "connection"}) \cup Answers \cup Defects,
           n \in Tokens, readable \in {"full", "partial", "none"} :
         call' = [call EXCEPT !.pc = After(end), !.end = end, !.billed = @ + n,
                     !.usages = Append(@, IF readable = "none" THEN NoUsage
                                          ELSE [full |-> readable = "full", tokens |-> n])]
  BY DEF Respond
<1>2. call.pc = "sent" /\ n \in Nat /\ end \in CallEnds /\ n # None
  BY ProviderAssumption DEF Respond, CallEnds
<1>3. PICK u : u = IF readable = "none" THEN NoUsage ELSE [full |-> readable = "full", tokens |-> n]
  OBVIOUS
<1>4. u \in Usage /\ (u.full => u.tokens = n)
  BY <1>2, <1>3 DEF NoUsage, Usage
<1>5. After(end) \in {"send", "ended"} /\ (After(end) = "send" => call.attempts <= MaxRetries)
  BY DEF After
<1>6. /\ call \in [pc : {"idle", "send", "sent", "ended"}, attempts : Nat, usages : Seq(Usage),
                   billed : Nat, end : CallEnds]
      /\ GoodUsages(call.usages) /\ call.attempts \in 1..MaxRetries + 1
      /\ Len(call.usages) <= call.attempts - 1
      /\ AllFull(call.usages) /\ Len(call.usages) = call.attempts - 1
            => call.billed = Reported(call.usages)
  BY <1>2 DEF CallsInv, CallOK, Over
<1>7. call' = [pc |-> After(end), attempts |-> call.attempts, usages |-> Append(call.usages, u),
               billed |-> call.billed + n, end |-> end]
  BY <1>1, <1>3, <1>6
<1>8. PICK vs : vs = Append(call.usages, u)
  OBVIOUS
<1>9. /\ vs \in Seq(Usage) /\ Len(vs) = Len(call.usages) + 1
      /\ DOMAIN vs = 1..Len(call.usages) + 1 /\ DOMAIN call.usages = 1..Len(call.usages)
      /\ vs[Len(call.usages) + 1] = u
      /\ \A k \in 1..Len(call.usages) : vs[k] = call.usages[k]
  BY <1>4, <1>6, <1>8
<1>10. GoodUsages(vs)
  BY <1>2, <1>4, <1>6, <1>9 DEF GoodUsages
<1>11. AllFull(vs) => AllFull(call.usages) /\ u.full
  BY <1>6, <1>9 DEF AllFull
<1>12. AllFull(vs) => Reported(vs) = Reported(call.usages) + n
  BY <1>2, <1>4, <1>6, <1>8, <1>11, ReportedGrows
<1>13. /\ call'.pc = After(end) /\ call'.attempts = call.attempts /\ call'.usages = vs
       /\ call'.billed = call.billed + n /\ call'.end = end
       /\ call' \in [pc : {"idle", "send", "sent", "ended"}, attempts : Nat, usages : Seq(Usage),
                   billed : Nat, end : CallEnds]
  BY <1>2, <1>5, <1>6, <1>7, <1>8, <1>9
<1>14. Over(call') = call.attempts
  BY <1>5, <1>13 DEF Over
<1>15. Len(vs) = call.attempts => Len(call.usages) = call.attempts - 1
  BY <1>6, <1>9
<1>16. AllFull(vs) /\ Len(vs) = call.attempts => call.billed + n = Reported(vs)
  BY <1>6, <1>11, <1>12, <1>15
<1>17. Len(vs) <= call.attempts
  BY <1>6, <1>9
<1> QED
  BY <1>5, <1>6, <1>10, <1>13, <1>14, <1>16, <1>17 DEF CallOK

\* What is kept of a call that is over
LEMMA KeptOfCall ==
    ASSUME CallOK(call), call.pc = "ended",
           NEW m, m = _safe_response_metadata(call.attempts, call.usages)
    PROVE  /\ m \in Measurement /\ m.attempts = call.attempts
           /\ m.complete => m.tokens = call.billed
           /\ sanitize_provider_measurement(m) = m
<1> DEFINE us == call.usages
           t == Reported(us)
<1>1. /\ call.attempts \in 1..MaxRetries + 1 /\ GoodUsages(us) /\ us \in Seq(Usage)
      /\ call.attempts = Over(call)
      /\ AllFull(us) /\ Len(us) = Over(call) => call.billed = t
  BY DEF CallOK, Over
<1>2. call.attempts \in 1..3 /\ None \notin Nat
  BY <1>1, ProviderAssumption
<1>3. t \in Nat
  BY <1>1, ReportedIs
<1>4. m = [attempts |-> IF call.attempts = 0 THEN None ELSE call.attempts,
           tokens   |-> IF Unread(us) \/ t > MAX_PROVIDER_USAGE_COUNT THEN None ELSE t,
           complete |-> /\ call.attempts = Len(us)
                        /\ us # << >> /\ AllFull(us)
                        /\ t <= MAX_PROVIDER_USAGE_COUNT]
  BY DEF _safe_response_metadata, AllFull
<1> HIDE DEF t, us
<1>5. /\ m.attempts = call.attempts
      /\ m.tokens = IF Unread(us) \/ t > MAX_PROVIDER_USAGE_COUNT THEN None ELSE t
      /\ m.complete <=> /\ call.attempts = Len(us)
                        /\ us # << >> /\ AllFull(us)
                        /\ t <= MAX_PROVIDER_USAGE_COUNT
  BY <1>2, <1>4
<1>6. m \in Measurement
  BY <1>2, <1>3, <1>4 DEF Measurement
<1>7. ASSUME m.complete
      PROVE  m.tokens = t /\ t # None /\ call.billed = t
  <2>1. ~ Unread(us)
    <3>1. 1 \in DOMAIN us
      BY <1>1, <1>5, <1>7
    <3>2. us[1].tokens \in Nat
      BY <1>1, <1>5, <1>7, <3>1 DEF GoodUsages, AllFull
    <3> QED
      BY <1>2, <3>1, <3>2 DEF Unread
  <2>2. ~ (t > MAX_PROVIDER_USAGE_COUNT)
    BY <1>3, <1>5, <1>7 DEF MAX_PROVIDER_USAGE_COUNT
  <2> QED
    BY <1>1, <1>2, <1>3, <1>5, <1>7, <2>1, <2>2
<1>8. sanitize_provider_measurement(m) = m
  <2>1. ~ (m.attempts > MAX_PROVIDER_HTTP_ATTEMPTS)
    BY <1>2, <1>5 DEF MAX_PROVIDER_HTTP_ATTEMPTS
  <2>2. ~ (m.complete /\ m.tokens = None)
    BY <1>7
  <2> QED
    BY Zenon, <2>1, <2>2 DEF sanitize_provider_measurement
<1> QED
  BY <1>5, <1>6, <1>7, <1>8

\* The log grows by an entry of its kind.
LEMMA LogGrows ==
    ASSUME CallsInv, NEW e \in LogEntry, EntryOK(e), log' = Append(log, e)
    PROVE  log' \in Seq(LogEntry) /\ \A i \in DOMAIN log' : EntryOK(log'[i])
<1>1. log \in Seq(LogEntry) /\ \A i \in DOMAIN log : EntryOK(log[i])
  BY DEF CallsInv
<1>2. /\ log' \in Seq(LogEntry) /\ DOMAIN log' = 1..Len(log) + 1 /\ DOMAIN log = 1..Len(log)
      /\ log'[Len(log) + 1] = e /\ \A i \in 1..Len(log) : log'[i] = log[i]
  BY <1>1
<1>3. \A i \in DOMAIN log' : EntryOK(log'[i])
  BY <1>1, <1>2
<1> QED
  BY <1>2, <1>3

\* Finishing a call, and not making one, keep the invariant.
LEMMA CallIsKept ==
    ASSUME CallsInv, Finish \/ Skip
    PROVE  CallsInv'
<1>0. CallOK(Idle)
  <2>1. Reported(<< >>) = 0
    BY CallsInvInit, SumUpNone DEF Reported
  <2> QED
    BY <2>1 DEF CallOK, Idle, GoodUsages, CallEnds, Over
<1>1. CASE Finish
  <2>1. PICK m : m = _safe_response_metadata(call.attempts, call.usages)
    OBVIOUS
  <2>2. PICK ok \in BOOLEAN : log' = Append(log,
            [measurement |-> sanitize_provider_measurement(m),
             attempts |-> call.attempts, billed |-> call.billed, end |-> call.end,
             fatal |-> fatal(call.end), status |-> service_status(plan_result(call.end), ok)])
    BY <1>1, <2>1 DEF Finish
  <2>3. CallOK(call) /\ call.pc = "ended" /\ call' = Idle
    BY <1>1 DEF Finish, CallsInv
  <2>4. /\ m \in Measurement /\ m.attempts = call.attempts
        /\ m.complete => m.tokens = call.billed
        /\ sanitize_provider_measurement(m) = m
    BY <2>1, <2>3, KeptOfCall
  <2>5. PICK e : e = [measurement |-> m,
             attempts |-> call.attempts, billed |-> call.billed, end |-> call.end,
             fatal |-> fatal(call.end), status |-> service_status(plan_result(call.end), ok)]
    OBVIOUS
  <2>6. e \in LogEntry
    <3>1. fatal(call.end) \in BOOLEAN
      BY DEF fatal
    <3>2. call.attempts \in Nat /\ call.billed \in Nat /\ call.end \in CallEnds
      BY <2>3 DEF CallOK
    <3>3. service_status(plan_result(call.end), ok) \in Statuses
      BY <3>2 DEF Statuses
    <3> QED
      BY <2>4, <2>5, <3>1, <3>2, <3>3 DEF LogEntry
  <2>7. EntryOK(e)
    <3>1. m # None
      BY <2>4, ProviderAssumption
    <3>2. e.measurement = m /\ e.attempts = call.attempts /\ e.billed = call.billed
      BY <2>5
    <3> QED
      BY <2>4, <3>1, <3>2 DEF EntryOK
  <2>8. log' = Append(log, e)
    BY <2>2, <2>4, <2>5
  <2> QED
    BY <1>0, <2>3, <2>6, <2>7, <2>8, LogGrows DEF CallsInv
<1>2. CASE Skip
  <2>1. PICK e : e = [measurement |-> None, attempts |-> 0, billed |-> 0,
                      end |-> "no_authorized_schema", fatal |-> FALSE,
                      status |-> service_status(plan_result("no_authorized_schema"), TRUE)]
    OBVIOUS
  <2>2. log' = Append(log, e) /\ call' = call
    BY <1>2, <2>1 DEF Skip
  <2>3. e \in LogEntry
    <3>1. "no_authorized_schema" \in CallEnds
      BY DEF CallEnds
    <3>2. service_status(plan_result("no_authorized_schema"), TRUE) \in Statuses
      <4>1. PICK end \in CallEnds, ok \in BOOLEAN : end = "no_authorized_schema" /\ ok = TRUE
        BY <3>1
      <4>2. service_status(plan_result(end), ok) \in Statuses
        BY DEF Statuses
      <4> QED
        BY <4>1, <4>2
    <3> QED
      BY <2>1, <3>1, <3>2 DEF LogEntry
  <2>4. EntryOK(e)
    BY <2>1 DEF EntryOK
  <2>5. log' \in Seq(LogEntry) /\ \A i \in DOMAIN log' : EntryOK(log'[i])
    BY <2>2, <2>3, <2>4, LogGrows
  <2> QED
    BY <2>2, <2>5 DEF CallsInv
<1> QED
  BY <1>1, <1>2

\* Every step of a call keeps the invariant.
LEMMA CallsInvNext == CallsInv /\ [CallNext]_callvars => CallsInv'
<1> SUFFICES ASSUME CallsInv, [CallNext]_callvars PROVE CallsInv'
  OBVIOUS
<1>1. CASE UNCHANGED callvars
  BY <1>1 DEF callvars, CallsInv
<1> QED
  BY <1>1, CallGoesOn, CallIsAnswered, CallIsKept DEF CallNext

\* The invariant is what the property needs.
LEMMA CallsInvSuffices == CallsInv => UsageHonest
<1> SUFFICES ASSUME CallsInv PROVE UsageHonest
  OBVIOUS
<1> DEFINE ms == [i \in DOMAIN log |-> log[i].measurement]
           given == {i \in DOMAIN ms : ms[i] # None}
           attempts == [i \in DOMAIN log |-> log[i].attempts]
           billed == [i \in DOMAIN log |-> log[i].billed]
           total(column) ==
               IF \E i \in given : column[i] = None THEN None
               ELSE SumUp([i \in DOMAIN ms |-> IF i \in given THEN column[i] ELSE 0])
           bounded(n) == IF n # None /\ n <= MAX_PROVIDER_USAGE_COUNT THEN n ELSE None
<1>1. \A i \in DOMAIN log : log[i] \in LogEntry /\ EntryOK(log[i])
  <2>1. log \in Seq(LogEntry) /\ \A i \in DOMAIN log : EntryOK(log[i])
    BY DEF CallsInv
  <2> QED
    BY <2>1
<1>2. None \notin Nat
  BY ProviderAssumption
<1>3. /\ Total.attempts = bounded(total([i \in given |-> ms[i].attempts]))
      /\ Total.tokens = IF \A i \in given : ms[i].complete
                        THEN bounded(total([i \in given |-> ms[i].tokens])) ELSE None
  BY DEF Total, aggregate_provider_measurements
<1>4. DOMAIN ms = DOMAIN log /\ \A i \in DOMAIN log : ms[i] = log[i].measurement
  OBVIOUS
<1>5. ASSUME NEW column, NEW due, due = [i \in DOMAIN ms |-> IF i \in given THEN column[i] ELSE 0],
             bounded(total(column)) # None
      PROVE  bounded(total(column)) = SumUp(due)
  <2> HIDE DEF ms, given
  <2>1. total(column) # None /\ bounded(total(column)) = total(column)
    <3> HIDE DEF total
    <3> QED
      BY <1>5
  <2> QED
    BY <1>5, <2>1
<1>6. attempts = [i \in DOMAIN ms |-> IF i \in given THEN [j \in given |-> ms[j].attempts][i] ELSE 0]
  <2>1. \A i \in DOMAIN log : IF i \in given THEN log[i].attempts = ms[i].attempts
                              ELSE log[i].attempts = 0
    BY <1>1, <1>4 DEF EntryOK
  <2> HIDE DEF ms, given
  <2> QED
    BY <1>4, <2>1
<1>7. ASSUME \A i \in given : ms[i].complete
      PROVE  billed = [i \in DOMAIN ms |-> IF i \in given THEN [j \in given |-> ms[j].tokens][i] ELSE 0]
  <2>1. \A i \in DOMAIN log : IF i \in given THEN log[i].billed = ms[i].tokens
                              ELSE log[i].billed = 0
    BY <1>1, <1>4, <1>7 DEF EntryOK
  <2> HIDE DEF ms, given
  <2> QED
    BY <1>4, <2>1
<1>8. \A i \in DOMAIN log :
         LET m == log[i].measurement
         IN  /\ log[i].attempts > 0 => m # None /\ m.attempts = log[i].attempts
             /\ m # None /\ m.complete => m.tokens = log[i].billed
  <2> TAKE i \in DOMAIN log
  <2>1. log[i].attempts \in Nat /\ EntryOK(log[i])
    BY <1>1 DEF LogEntry
  <2> QED
    BY <2>1 DEF EntryOK
<1>9. Total.attempts # None => Total.attempts = SumUp(attempts)
  <2> HIDE DEF ms, given, attempts, bounded, total
  <2> QED
    BY <1>3, <1>5, <1>6
<1>10. Total.tokens # None => Total.tokens = SumUp(billed)
  <2>1. ASSUME Total.tokens # None
        PROVE  Total.tokens = SumUp(billed)
    <3> HIDE DEF ms, given, billed, bounded, total
    <3>1. \A i \in given : ms[i].complete
      BY <1>3, <2>1
    <3>2. Total.tokens = bounded(total([i \in given |-> ms[i].tokens]))
      BY <1>3, <3>1
    <3>3. billed = [i \in DOMAIN ms |-> IF i \in given THEN [j \in given |-> ms[j].tokens][i] ELSE 0]
      BY <1>7, <3>1
    <3> QED
      BY <1>5, <2>1, <3>2, <3>3
  <2> QED
    BY <2>1
<1> QED
  BY <1>8, <1>9, <1>10 DEF UsageHonest

\* However many calls a run makes and whatever the provider reports, every call
\* that reached the network is measured, and a token total that is reported is
\* what was billed.
THEOREM ReportsAreHonest == CallSpec => []UsageHonest
<1> QED
  BY CallsInvInit, CallsInvNext, CallsInvSuffices, PTL DEF CallSpec

-----------------------------------------------------------------------------
(* Loops                                                                   *)

\* What holds before a loop and is kept by each round holds after every round.
LEMMA RoundByRound ==
    ASSUME NEW n \in Nat, NEW G, 0 \in G, \A k \in 1..n : k - 1 \in G => k \in G
    PROVE  \A k \in 0..n : k \in G
<1> DEFINE T == {k \in 0..n : k \notin G}
<1> SUFFICES ASSUME T # {} PROVE FALSE
  OBVIOUS
<1>1. T \subseteq Nat
  OBVIOUS
<1>2. PICK k \in T : \A j \in T : k <= j
  BY <1>1, LeastNatural
<1>3. k \in 1..n /\ k - 1 \in 0..n /\ ~ (k <= k - 1)
  BY <1>2
<1>4. k - 1 \in G
  BY <1>2, <1>3
<1> QED
  BY <1>2, <1>3, <1>4

\* The loops of the model, each with the argument it is about
LoopStart(loop, a) ==
    CASE loop = "joins" -> [avail |-> {a.root}, pending |-> DOMAIN a.joins, order |-> <<>>]
      [] loop = "grain" -> [visited |-> {a.e}, edges |-> DOMAIN a.p.joins, multiplies |-> FALSE]
      [] loop = "near"  -> {a.start}
      [] loop = "or"    -> << ParsedBranch(a[1]) >>
      [] loop = "from"  -> RootRows(a.c)

LoopStep(loop, a, s, k) ==
    CASE loop = "joins" -> JoinRound(s, a.joins)
      [] loop = "grain" -> WalkRound(s)
      [] loop = "near"  -> WithNeighbours(s, a.p)
      [] loop = "or"    -> _collapse_special_or(Append(s, ParsedBranch(a[k + 1])))
      [] loop = "from"  -> Joined(s, k, a.c, a.d)

\* The values a loop runs through in n rounds
Run(loop, a, n, s) ==
    s = [k \in 0..n |-> IF k = 0 THEN LoopStart(loop, a) ELSE LoopStep(loop, a, s[k - 1], k)]

\* Every loop has such values, however many rounds it runs.
LEMMA RunsExist ==
    ASSUME NEW loop, NEW a, NEW n \in Nat
    PROVE  \E s : Run(loop, a, n, s)
<1> DEFINE Start == LoopStart(loop, a)
           Step(x, k) == LoopStep(loop, a, x, k)
           Has(m) == \E s : s = [k \in 0..m |-> IF k = 0 THEN Start ELSE Step(s[k - 1], k)]
           G == {m \in 0..n : Has(m)}
<1> HIDE DEF Start, Step
<1>1. Has(0)
  <2> DEFINE s == [k \in 0..0 |-> Start]
  <2>1. s = [k \in 0..0 |-> IF k = 0 THEN Start ELSE Step(s[k - 1], k)]
    OBVIOUS
  <2> QED
    BY <2>1
<1>2. ASSUME NEW m \in Nat, Has(m)
      PROVE  Has(m + 1)
  <2>1. PICK s : s = [k \in 0..m |-> IF k = 0 THEN Start ELSE Step(s[k - 1], k)]
    BY <1>2
  <2> DEFINE t == [k \in 0..(m + 1) |-> IF k = m + 1 THEN Step(s[m], m + 1) ELSE s[k]]
  <2>2. ASSUME NEW k \in 0..(m + 1)
        PROVE  t[k] = IF k = 0 THEN Start ELSE Step(t[k - 1], k)
    <3>1. CASE k = m + 1
      <4>1. k # 0 /\ k - 1 = m /\ m \in 0..(m + 1) /\ m # m + 1
        BY <3>1
      <4>2. t[k] = Step(s[m], k) /\ t[k - 1] = s[m]
        BY <3>1, <4>1
      <4> HIDE DEF t
      <4> QED
        BY <4>1, <4>2
    <3>2. CASE k # m + 1
      <4>1. k \in 0..m /\ t[k] = s[k] /\ (k # 0 => k - 1 \in 0..m /\ t[k - 1] = s[k - 1])
        BY <3>2
      <4>2. s[k] = IF k = 0 THEN Start ELSE Step(s[k - 1], k)
        BY <2>1, <4>1
      <4> HIDE DEF t
      <4> QED
        BY <4>1, <4>2
    <3> QED
      BY <3>1, <3>2
  <2>3. t = [k \in 0..(m + 1) |-> t[k]]
    OBVIOUS
  <2> HIDE DEF t
  <2>4. t = [k \in 0..(m + 1) |-> IF k = 0 THEN Start ELSE Step(t[k - 1], k)]
    BY <2>2, <2>3
  <2> QED
    BY <2>4
<1>3. 0 \in G /\ \A k \in 1..n : k - 1 \in G => k \in G
  <2> HIDE DEF Has
  <2>1. \A k \in 1..n : k - 1 \in Nat /\ k - 1 + 1 = k /\ k \in 0..n
    OBVIOUS
  <2> QED
    BY <1>1, <1>2, <2>1
<1>4. \A k \in 0..n : k \in G
  <2> HIDE DEF G
  <2> QED
    BY <1>3, RoundByRound
<1>5. Has(n)
  <2> HIDE DEF Has
  <2> QED
    BY <1>4
<1> QED
  BY <1>5 DEF Run, Start, Step

\* The values of a run, one by one
LEMMA RunIs ==
    ASSUME NEW loop, NEW a, NEW n \in Nat, NEW s, Run(loop, a, n, s)
    PROVE  /\ s[0] = LoopStart(loop, a)
           /\ \A k \in 1..n : s[k] = LoopStep(loop, a, s[k - 1], k)
<1> DEFINE Start == LoopStart(loop, a)
           Step(x, k) == LoopStep(loop, a, x, k)
<1>1. s = [k \in 0..n |-> IF k = 0 THEN Start ELSE Step(s[k - 1], k)]
  BY DEF Run
<1> HIDE DEF Start, Step
<1>2. s[0] = Start /\ \A k \in 1..n : s[k] = Step(s[k - 1], k)
  BY <1>1
<1> QED
  BY <1>2 DEF Start, Step

\* The rounds of selected_join_order from one root
LEMMA TraverseIs ==
    ASSUME NEW root, NEW joins, NEW n \in Nat, n = Cardinality(DOMAIN joins)
    PROVE  \E s : /\ TraverseFrom(root, joins) = s[n]
                  /\ s[0] = [avail |-> {root}, pending |-> DOMAIN joins, order |-> <<>>]
                  /\ \A k \in 1..n : s[k] = JoinRound(s[k - 1], joins)
<1> DEFINE start == [avail |-> {root}, pending |-> DOMAIN joins, order |-> <<>>]
           Rounds(s) == s = [i \in 0..n |-> IF i = 0 THEN start ELSE JoinRound(s[i - 1], joins)]
<1>1. PICK a : a = [root |-> root, joins |-> joins]
  OBVIOUS
<1>2. /\ a.root = root /\ a.joins = joins /\ LoopStart("joins", a) = start
      /\ \A s, k : LoopStep("joins", a, s, k) = JoinRound(s, joins)
  BY <1>1 DEF LoopStart, LoopStep
<1> HIDE DEF start
<1>3. \E s : Rounds(s)
  <2>1. PICK s : Run("joins", a, n, s)
    BY RunsExist
  <2>2. s[0] = start /\ \A k \in 1..n : s[k] = JoinRound(s[k - 1], joins)
    BY <1>2, <2>1, RunIs
  <2>3. s = [k \in 0..n |-> s[k]]
    BY <2>1 DEF Run
  <2>4. \A k \in 0..n : s[k] = IF k = 0 THEN start ELSE JoinRound(s[k - 1], joins)
    BY <2>2
  <2> QED
    BY <2>3, <2>4
<1>4. PICK s : s = CHOOSE u : Rounds(u)
  OBVIOUS
<1>5. Rounds(s)
  BY <1>3, <1>4
<1>6. s[0] = start /\ \A k \in 1..n : s[k] = JoinRound(s[k - 1], joins)
  BY <1>5
<1>8. TraverseFrom(root, joins) = s[n]
  BY <1>4 DEF TraverseFrom, start
<1> QED
  BY <1>6, <1>8 DEF start

\* The rounds of population_may_multiply
LEMMA GrainIs ==
    ASSUME NEW e, NEW p, NEW n \in Nat, n = Cardinality(DOMAIN p.joins)
    PROVE  \E s : /\ population_may_multiply(e, p) = s[n].multiplies
                  /\ s[0] = [visited |-> {e}, edges |-> DOMAIN p.joins, multiplies |-> FALSE]
                  /\ \A k \in 1..n : s[k] = WalkRound(s[k - 1])
<1> DEFINE start == [visited |-> {e}, edges |-> DOMAIN p.joins, multiplies |-> FALSE]
           Rounds(s) == s = [i \in 0..n |-> IF i = 0 THEN start ELSE WalkRound(s[i - 1])]
<1>1. PICK a : a = [e |-> e, p |-> p]
  OBVIOUS
<1>2. /\ a.e = e /\ a.p = p /\ LoopStart("grain", a) = start
      /\ \A s, k : LoopStep("grain", a, s, k) = WalkRound(s)
  BY <1>1 DEF LoopStart, LoopStep
<1> HIDE DEF start
<1>3. \E s : Rounds(s)
  <2>1. PICK s : Run("grain", a, n, s)
    BY RunsExist
  <2>2. s[0] = start /\ \A k \in 1..n : s[k] = WalkRound(s[k - 1])
    BY <1>2, <2>1, RunIs
  <2>3. s = [k \in 0..n |-> s[k]]
    BY <2>1 DEF Run
  <2>4. \A k \in 0..n : s[k] = IF k = 0 THEN start ELSE WalkRound(s[k - 1])
    BY <2>2
  <2> QED
    BY <2>3, <2>4
<1>4. PICK s : s = CHOOSE u : Rounds(u)
  OBVIOUS
<1>5. Rounds(s)
  BY <1>3, <1>4
<1>6. s[0] = start /\ \A k \in 1..n : s[k] = WalkRound(s[k - 1])
  BY <1>5
<1>8. population_may_multiply(e, p) = s[n].multiplies
  BY <1>4 DEF population_may_multiply, start
<1> QED
  BY <1>6, <1>8 DEF start

\* The rounds of the walk over a plan's relationships
SpreadInTurn(s, e, p, n) ==
    s[0] = {e} /\ \A k \in 1..n : s[k] = WithNeighbours(s[k - 1], p)

\* Reached: the rounds of its spreading
LEMMA ReachedIs ==
    ASSUME NEW e, NEW p, NEW n \in Nat, n = Cardinality(p.entities)
    PROVE  \E s : Reached(e, p) = s[n] /\ SpreadInTurn(s, e, p, n)
<1> DEFINE start == {e}
           step(x, k) == WithNeighbours(x, p)
           Rounds(s) == s = [i \in 0..n |-> IF i = 0 THEN start ELSE step(s[i - 1], i)]
<1>1. PICK a : a = [start |-> e, p |-> p]
  OBVIOUS
<1>2. /\ LoopStart("near", a) = start
      /\ \A s, k : LoopStep("near", a, s, k) = step(s, k)
  BY <1>1 DEF LoopStart, LoopStep
<1>3. PICK s : s = CHOOSE u : Rounds(u)
  OBVIOUS
<1>4. Reached(e, p) = s[n]
  BY <1>3 DEF Reached
<1> HIDE DEF start, step
<1>5. \E u : Rounds(u)
  <2>1. PICK u : Run("near", a, n, u)
    BY RunsExist
  <2>2. u[0] = start /\ \A k \in 1..n : u[k] = step(u[k - 1], k)
    BY <1>2, <2>1, RunIs
  <2>3. u = [k \in 0..n |-> u[k]]
    BY <2>1 DEF Run
  <2>4. \A k \in 0..n : u[k] = IF k = 0 THEN start ELSE step(u[k - 1], k)
    BY <2>2
  <2> QED
    BY <2>3, <2>4
<1>6. s[0] = start /\ \A k \in 1..n : s[k] = step(s[k - 1], k)
  <2>1. Rounds(s)
    <3> HIDE DEF Rounds
    <3> QED
      BY <1>3, <1>5
  <2> QED
    BY <2>1
<1> QED
  BY <1>4, <1>6 DEF SpreadInTurn, start, step

\* The joins of a statement, one by one
JoinedInTurn(s, c, d, n) ==
    s[0] = RootRows(c) /\ \A k \in 1..n : s[k] = Joined(s[k - 1], k, c, d)

\* FromRows: the rows after each join
LEMMA FromRowsIs ==
    ASSUME NEW c, NEW d, NEW n \in Nat, n = Len(c.joins)
    PROVE  \E s : FromRows(c, d) = s[n] /\ JoinedInTurn(s, c, d, n)
<1> DEFINE start == RootRows(c)
           step(x, k) == Joined(x, k, c, d)
           Rounds(s) == s = [i \in 0..n |-> IF i = 0 THEN start ELSE step(s[i - 1], i)]
<1>1. PICK a : a = [c |-> c, d |-> d]
  OBVIOUS
<1>2. /\ LoopStart("from", a) = start
      /\ \A s, k : LoopStep("from", a, s, k) = step(s, k)
  BY <1>1 DEF LoopStart, LoopStep
<1>3. PICK s : s = CHOOSE u : Rounds(u)
  OBVIOUS
<1>4. FromRows(c, d) = s[n]
  BY <1>3 DEF FromRows
<1> HIDE DEF start, step
<1>5. \E u : Rounds(u)
  <2>1. PICK u : Run("from", a, n, u)
    BY RunsExist
  <2>2. u[0] = start /\ \A k \in 1..n : u[k] = step(u[k - 1], k)
    BY <1>2, <2>1, RunIs
  <2>3. u = [k \in 0..n |-> u[k]]
    BY <2>1 DEF Run
  <2>4. \A k \in 0..n : u[k] = IF k = 0 THEN start ELSE step(u[k - 1], k)
    BY <2>2
  <2> QED
    BY <2>3, <2>4
<1>6. s[0] = start /\ \A k \in 1..n : s[k] = step(s[k - 1], k)
  <2>1. Rounds(s)
    <3> HIDE DEF Rounds
    <3> QED
      BY <1>3, <1>5
  <2> QED
    BY <2>1
<1> QED
  BY <1>4, <1>6 DEF JoinedInTurn, start, step

\* The branches of an OR, one by one
LEMMA NormalizedIs ==
    ASSUME NEW t, NEW n \in Nat, n = Len(t) - 1
    PROVE  \E s : /\ _normalize_boolean(t) = s[n]
                  /\ s[0] = << ParsedBranch(t[1]) >>
                  /\ \A k \in 1..n : s[k] = _collapse_special_or(
                        Append(s[k - 1], ParsedBranch(t[k + 1])))
<1> DEFINE start == << ParsedBranch(t[1]) >>
           step(x, k) == _collapse_special_or(Append(x, ParsedBranch(t[k + 1])))
           Rounds(s) == s = [i \in 0..n |-> IF i = 0 THEN start ELSE step(s[i - 1], i)]
<1>1. PICK a : a = t
  OBVIOUS
<1>2. /\ LoopStart("or", a) = start
      /\ \A s, k : LoopStep("or", a, s, k) = step(s, k)
  BY <1>1 DEF LoopStart, LoopStep
<1>3. PICK s : s = CHOOSE u : Rounds(u)
  OBVIOUS
<1>4. _normalize_boolean(t) = s[n]
  BY <1>3 DEF _normalize_boolean
<1> HIDE DEF start, step
<1>5. \E u : Rounds(u)
  <2>1. PICK u : Run("or", a, n, u)
    BY RunsExist
  <2>2. u[0] = start /\ \A k \in 1..n : u[k] = step(u[k - 1], k)
    BY <1>2, <2>1, RunIs
  <2>3. u = [k \in 0..n |-> u[k]]
    BY <2>1 DEF Run
  <2>4. \A k \in 0..n : u[k] = IF k = 0 THEN start ELSE step(u[k - 1], k)
    BY <2>2
  <2> QED
    BY <2>3, <2>4
<1>6. s[0] = start /\ \A k \in 1..n : s[k] = step(s[k - 1], k)
  <2>1. Rounds(s)
    <3> HIDE DEF Rounds
    <3> QED
      BY <1>3, <1>5
  <2> QED
    BY <2>1
<1> QED
  BY <1>4, <1>6 DEF start, step

-----------------------------------------------------------------------------
(* Sorting                                                                 *)

\* The positions of s whose elements come before that of i
Lower(s, i) == {j \in DOMAIN s : s[j] < s[i] \/ (s[j] = s[i] /\ j < i)}
\* How many of its elements sort before the i-th
PlaceOf(s, i) == Cardinality(Lower(s, i))

\* Positions have different places, none beyond the length.
LEMMA PlacesDiffer ==
    ASSUME NEW s \in Seq(Int), NEW n, n = Len(s)
    PROVE  /\ \A i \in 1..n : PlaceOf(s, i) \in 0..(n - 1)
           /\ \A i, j \in 1..n : i # j => PlaceOf(s, i) # PlaceOf(s, j)
<1>1. n \in Nat /\ DOMAIN s = 1..n /\ \A i \in 1..n : s[i] \in Int
  BY LenProperties, ElementOfSeq
<1>2. IsFiniteSet(1..n) /\ Cardinality(1..n) = n
  <2>1. 1 \in Int /\ n \in Int /\ n >= 0
    BY <1>1
  <2>2. IsFiniteSet(1..n) /\ Cardinality(1..n) = IF 1 > n THEN 0 ELSE n - 1 + 1
    BY <2>1, FS_Interval
  <2> QED
    BY <2>1, <2>2
<1> DEFINE less(j, i) == s[j] < s[i] \/ (s[j] = s[i] /\ j < i)
<1>3. /\ \A i \in 1..n : ~ less(i, i)
      /\ \A i, j \in 1..n : i # j => less(i, j) \/ less(j, i)
      /\ \A i, j, k \in 1..n : less(i, j) /\ less(j, k) => less(i, k)
  BY <1>1
<1>4. \A i : Lower(s, i) = {j \in 1..n : less(j, i)}
  BY <1>1 DEF Lower
<1> HIDE DEF less
<1>5. ASSUME NEW i \in 1..n
      PROVE  /\ IsFiniteSet(Lower(s, i)) /\ PlaceOf(s, i) \in Nat
             /\ PlaceOf(s, i) < n
  <2>1. Lower(s, i) \in SUBSET (1..n) /\ i \in (1..n) \ Lower(s, i)
    BY <1>3, <1>4
  <2>2. /\ IsFiniteSet(Lower(s, i)) /\ Cardinality(Lower(s, i)) <= n
        /\ Cardinality(Lower(s, i)) # n
    BY <1>2, <2>1, FS_Subset
  <2>3. Cardinality(Lower(s, i)) \in Nat
    BY <2>2, FS_CardinalityType
  <2> QED
    BY <1>1, <2>2, <2>3 DEF PlaceOf
<1>6. ASSUME NEW i \in 1..n, NEW j \in 1..n, less(i, j)
      PROVE  PlaceOf(s, i) < PlaceOf(s, j)
  <2>1. Lower(s, i) \in SUBSET Lower(s, j) /\ i \in Lower(s, j) \ Lower(s, i)
    BY <1>3, <1>4, <1>6
  <2>2. /\ Cardinality(Lower(s, i)) <= Cardinality(Lower(s, j))
        /\ Cardinality(Lower(s, i)) # Cardinality(Lower(s, j))
    BY <1>5, <2>1, FS_Subset
  <2> QED
    BY <1>5, <2>2 DEF PlaceOf
<1>7. \A i, j \in 1..n : i # j => PlaceOf(s, i) # PlaceOf(s, j)
  <2>1. \A i \in 1..n : PlaceOf(s, i) \in Nat
    BY <1>5
  <2> QED
    BY <1>3, <1>6, <2>1
<1>8. \A i \in 1..n : PlaceOf(s, i) \in 0..(n - 1)
  BY <1>1, <1>5
<1> QED
  BY <1>7, <1>8

\* A sorted sequence has the elements of the sequence.
LEMMA SortedIs ==
    ASSUME NEW S \in SUBSET Int, NEW s \in Seq(S)
    PROVE  /\ Sorted(s) \in Seq(S)
           /\ ToSet(Sorted(s)) = ToSet(s)
<1>1. PICK n \in Nat : n = Len(s) /\ DOMAIN s = 1..n /\ s \in [1..n -> S]
  BY LenProperties
<1>2. s \in Seq(Int)
  BY SeqMonotonic
<1> DEFINE r == [i \in 1..n |-> PlaceOf(s, i)]
<1>3. r \in Injection(1..n, 0..(n - 1))
  BY <1>1, <1>2, PlacesDiffer DEF Injection, IsInjective
<1>4. /\ IsFiniteSet(1..n) /\ Cardinality(1..n) = n
      /\ IsFiniteSet(0..(n - 1)) /\ Cardinality(0..(n - 1)) = n
  <2>1. 0 \in Int /\ n - 1 \in Int /\ 1 \in Int /\ n \in Int
    OBVIOUS
  <2>2. /\ IsFiniteSet(0..(n - 1))
        /\ Cardinality(0..(n - 1)) = IF 0 > n - 1 THEN 0 ELSE (n - 1) - 0 + 1
    BY <2>1, FS_Interval
  <2>3. /\ IsFiniteSet(1..n)
        /\ Cardinality(1..n) = IF 1 > n THEN 0 ELSE n - 1 + 1
    BY <2>1, FS_Interval
  <2> QED
    BY <2>2, <2>3
<1>5. r \in Surjection(1..n, 0..(n - 1))
  BY <1>3, <1>4, FS_Injection
<1>6. /\ \A k \in 0..(n - 1) : \E i \in 1..n : PlaceOf(s, i) = k
      /\ \A i \in 1..n : PlaceOf(s, i) \in 0..(n - 1)
      /\ \A i, j \in 1..n : PlaceOf(s, i) = PlaceOf(s, j) => i = j
  <2>1. \A k \in 0..(n - 1) : \E i \in 1..n : r[i] = k
    BY <1>5 DEF Surjection
  <2> QED
    BY <1>1, <1>2, <2>1, PlacesDiffer
<1> HIDE DEF r
<1>7. PICK o : o = Sorted(s)
  OBVIOUS
<1>8. o = [k \in 1..n |-> s[CHOOSE i \in 1..n : PlaceOf(s, i) = k - 1]]
  BY <1>1, <1>7 DEF Sorted, PlaceOf, Lower
<1>9. ASSUME NEW k \in 1..n
      PROVE  \E i \in 1..n : PlaceOf(s, i) = k - 1 /\ o[k] = s[i]
  <2>1. PICK i : i = CHOOSE j \in 1..n : PlaceOf(s, j) = k - 1
    OBVIOUS
  <2>2. k - 1 \in 0..(n - 1)
    OBVIOUS
  <2>3. i \in 1..n /\ PlaceOf(s, i) = k - 1
    BY <1>6, <2>1, <2>2
  <2> QED
    BY <1>8, <2>1, <2>3
<1>10. o \in Seq(S)
  <2>1. \A k \in 1..n : o[k] \in S
    BY <1>1, <1>9
  <2>2. o \in [1..n -> S]
    BY <1>8, <2>1
  <2> QED
    BY <2>2, SeqDef
<1>11. DOMAIN o = 1..n
  BY <1>8
<1>12. ASSUME NEW i \in 1..n PROVE \E k \in 1..n : o[k] = s[i]
  <2>1. PICK k : k = PlaceOf(s, i) + 1
    OBVIOUS
  <2>2. k \in 1..n /\ k - 1 = PlaceOf(s, i)
    BY <1>6, <2>1
  <2>3. PICK j \in 1..n : PlaceOf(s, j) = k - 1 /\ o[k] = s[j]
    BY <1>9, <2>2
  <2> QED
    BY <1>6, <2>2, <2>3
<1>13. ToSet(o) = ToSet(s)
  <2>1. ToSet(o) = {o[k] : k \in 1..n} /\ ToSet(s) = {s[i] : i \in 1..n}
    BY <1>1, <1>11 DEF ToSet
  <2>2. \A k \in 1..n : \E i \in 1..n : o[k] = s[i]
    BY <1>9
  <2> QED
    BY <1>12, <2>1, <2>2
<1> QED
  BY <1>7, <1>10, <1>13

-----------------------------------------------------------------------------
(* What the parser makes of filters                                        *)

\* A branch of an OR holds of a joined row.
BranchHolds(b, x) == \A q \in b : Holds(q, ValueOf(x, q.e, q.f))

\* A predicate is parsed as one that says the same.
LEMMA ParsedHolds ==
    ASSUME Null \notin Int, NEW q, PredOK(q), NEW v
    PROVE  /\ PredOK(_parse_predicate(q))
           /\ _parse_predicate(q).e = q.e /\ _parse_predicate(q).f = q.f
           /\ Holds(_parse_predicate(q), v) <=> Holds(q, v)
<1>1. PICK r : r = _parse_predicate(q)
  OBVIOUS
<1>2. q \in [e : Entities, f : Fields, op : Ops, v : {q.v}]
  BY DEF PredOK
<1>3. CASE q.op = "not_in" /\ Len(q.v) = 1
  <2>1. q.v \in Seq(Int)
    BY <1>3 DEF PredOK
  <2>2. DOMAIN q.v = 1..1 /\ q.v[1] \in Int
    BY <1>3, <2>1, LenProperties, ElementOfSeq
  <2>3. ToSet(q.v) = {q.v[1]}
    BY <2>2 DEF ToSet
  <2>4. r = [q EXCEPT !.op = "not_equals", !.v = q.v[1]]
    BY <1>1, <1>3 DEF _parse_predicate
  <2>5. r.e = q.e /\ r.f = q.f /\ r.op = "not_equals" /\ r.v = q.v[1]
    BY <1>2, <2>4
  <2>6. r \in [e : Entities, f : Fields, op : Ops, v : {r.v}]
    BY <1>2, <2>4 DEF Ops
  <2>7. PredOK(r)
    BY <2>2, <2>5, <2>6 DEF PredOK
  <2>8. Holds(r, v) <=> v \notin {Null, q.v[1]}
    BY <2>5 DEF Holds
  <2>9. Holds(q, v) <=> v \notin ToSet(q.v) \cup {Null}
    BY <1>3 DEF Holds
  <2> QED
    BY <1>1, <2>3, <2>5, <2>7, <2>8, <2>9
<1>4. CASE q.op \in {"in", "not_in"} /\ ~ (q.op = "not_in" /\ Len(q.v) = 1)
  <2>1. q.v \in Seq(Int)
    BY <1>4 DEF PredOK
  <2>2. Sorted(q.v) \in Seq(Int) /\ ToSet(Sorted(q.v)) = ToSet(q.v)
    BY <2>1, SortedIs
  <2>3. r = [q EXCEPT !.v = Sorted(q.v)]
    BY <1>1, <1>4 DEF _parse_predicate
  <2>4. r.e = q.e /\ r.f = q.f /\ r.op = q.op /\ r.v = Sorted(q.v)
    BY <1>2, <2>3
  <2>5. r \in [e : Entities, f : Fields, op : Ops, v : {r.v}]
    BY <1>2, <2>3
  <2>6. PredOK(r)
    BY <1>4, <2>2, <2>4, <2>5 DEF PredOK
  <2>7. Holds(r, v) <=> Holds(q, v)
    BY <1>4, <2>2, <2>4 DEF Holds
  <2> QED
    BY <1>1, <2>4, <2>6, <2>7
<1>5. CASE q.op \notin {"in", "not_in"}
  <2>1. r = q
    BY <1>1, <1>5 DEF _parse_predicate
  <2> QED
    BY <1>1, <2>1
<1> QED
  BY <1>3, <1>4, <1>5

\* So is a branch.
LEMMA ParsedBranchHolds ==
    ASSUME Null \notin Int, NEW b, IsFiniteSet(b), \A q \in b : PredOK(q)
    PROVE  /\ IsFiniteSet(ParsedBranch(b)) /\ \A q \in ParsedBranch(b) : PredOK(q)
           /\ \A x : BranchHolds(ParsedBranch(b), x) <=> BranchHolds(b, x)
<1> DEFINE f == [q \in b |-> _parse_predicate(q)]
<1>1. f \in Surjection(b, ParsedBranch(b))
  BY DEF Surjection, ParsedBranch
<1>2. IsFiniteSet(ParsedBranch(b))
  BY <1>1, FS_Surjection
<1>3. \A q \in ParsedBranch(b) : PredOK(q)
  BY ParsedHolds DEF ParsedBranch
<1>4. ASSUME NEW x PROVE BranchHolds(ParsedBranch(b), x) <=> BranchHolds(b, x)
  <2>1. \A q \in b : Holds(_parse_predicate(q), ValueOf(x, _parse_predicate(q).e, _parse_predicate(q).f))
                     <=> Holds(q, ValueOf(x, q.e, q.f))
    <3> SUFFICES ASSUME NEW q \in b
                 PROVE  Holds(_parse_predicate(q), ValueOf(x, _parse_predicate(q).e, _parse_predicate(q).f))
                        <=> Holds(q, ValueOf(x, q.e, q.f))
      OBVIOUS
    <3>1. _parse_predicate(q).e = q.e /\ _parse_predicate(q).f = q.f
      BY ParsedHolds
    <3>2. Holds(_parse_predicate(q), ValueOf(x, q.e, q.f)) <=> Holds(q, ValueOf(x, q.e, q.f))
      BY ParsedHolds
    <3> QED
      BY <3>1, <3>2
  <2> QED
    BY <2>1 DEF BranchHolds, ParsedBranch
<1> QED
  BY <1>2, <1>3, <1>4

\* A term holds if a branch does; terms with the same branches say the same.
LEMMA TermHoldsIs ==
    ASSUME NEW t, NEW x
    PROVE  TermHolds(t, x) <=> \E b \in ToSet(t) : BranchHolds(b, x)
BY DEF TermHolds, BranchHolds, ToSet

\* An ordinary conjunct
LEMMA AtomIs ==
    ASSUME NEW q
    PROVE  /\ Len(Atom(q)) = 1 /\ Atom(q)[1] = {q} /\ ToSet(Atom(q)) = { {q} }
           /\ PredOK(q) => TermOK(Atom(q))
           /\ \A x : TermHolds(Atom(q), x) <=> Holds(q, ValueOf(x, q.e, q.f))
<1>1. PICK t : t = Atom(q)
  OBVIOUS
<1>2. t = << {q} >> /\ Len(t) = 1 /\ DOMAIN t = {1} /\ t[1] = {q}
  BY <1>1 DEF Atom
<1>3. ToSet(t) = { {q} }
  BY <1>2 DEF ToSet
<1>4. t \in Seq({ {q} }) /\ t # <<>>
  BY <1>2
<1>5. IsFiniteSet({q})
  BY FS_Singleton
<1>6. PredOK(q) => TermOK(t)
  BY <1>3, <1>4, <1>5 DEF TermOK
<1>7. \A x : TermHolds(t, x) <=> Holds(q, ValueOf(x, q.e, q.f))
  BY <1>3, TermHoldsIs DEF BranchHolds
<1> QED
  BY <1>1, <1>2, <1>3, <1>6, <1>7

\* A branch of one predicate is that predicate.
LEMMA SingleBranch ==
    ASSUME NEW b, IsFiniteSet(b), Cardinality(b) = 1, NEW q, q = CHOOSE r \in b : TRUE
    PROVE  b = {q}
<1>1. PICK r : b = {r}
  BY FS_Singleton
<1> QED
  BY <1>1

\* b is an OR of n equalities a on one column.
AllEqual(b, a, n) ==
    /\ DOMAIN b = 1..n /\ DOMAIN a = 1..n
    /\ \A i \in 1..n : b[i] = {a[i]} /\ a[i].e = a[1].e /\ a[i].f = a[1].f /\ a[i].op = "equals"

\* The IN that is made of it
InOf(a, n) == [a[1] EXCEPT !.op = "in", !.v = Sorted([i \in 1..n |-> a[i].v])]

\* Such an OR says what that IN says.
LEMMA EqualitiesCollapse ==
    ASSUME Null \notin Int, NEW b, TermOK(b), NEW n \in Nat \ {0}, NEW a, AllEqual(b, a, n),
           NEW r, r = InOf(a, n)
    PROVE  TermOK(Atom(r)) /\ \A x : TermHolds(Atom(r), x) <=> TermHolds(b, x)
<1>0. /\ DOMAIN b = 1..n
      /\ \A i \in 1..n : b[i] = {a[i]} /\ a[i].e = a[1].e /\ a[i].f = a[1].f /\ a[i].op = "equals"
  BY DEF AllEqual
<1>1. \A i \in 1..n : PredOK(a[i])
  BY <1>0 DEF TermOK, ToSet
<1>2. PICK vs : vs = [i \in 1..n |-> a[i].v]
  OBVIOUS
<1>3. vs \in [1..n -> Int]
  BY <1>0, <1>1, <1>2 DEF PredOK
<1>4. vs \in Seq(Int) /\ DOMAIN vs = 1..n
  BY <1>3, SeqDef
<1>5. Sorted(vs) \in Seq(Int) /\ ToSet(Sorted(vs)) = ToSet(vs)
  BY <1>4, SortedIs
<1>6. ToSet(vs) = {a[i].v : i \in 1..n}
  BY <1>2, <1>4 DEF ToSet
<1>8. r = [a[1] EXCEPT !.op = "in", !.v = Sorted(vs)]
  BY <1>2 DEF InOf
<1>7. 1 \in 1..n /\ a[1] \in [e : Entities, f : Fields, op : Ops, v : {a[1].v}]
  BY <1>1 DEF PredOK
<1>9. r.e = a[1].e /\ r.f = a[1].f /\ r.op = "in" /\ r.v = Sorted(vs)
  BY <1>7, <1>8
<1>10. r \in [e : Entities, f : Fields, op : Ops, v : {r.v}]
  BY <1>7, <1>8 DEF Ops
<1>11. PredOK(r)
  BY <1>5, <1>9, <1>10 DEF PredOK
<1>12. ASSUME NEW x PROVE TermHolds(Atom(r), x) <=> TermHolds(b, x)
  <2>1. PICK v : v = ValueOf(x, a[1].e, a[1].f)
    OBVIOUS
  <2>2. TermHolds(Atom(r), x) <=> Holds(r, v)
    BY <1>9, <2>1, AtomIs
  <2>3. Holds(r, v) <=> v \in ToSet(vs) \ {Null}
    BY <1>5, <1>9 DEF Holds
  <2>4. \A i \in 1..n : a[i].v # Null
    BY <1>0, <1>1 DEF PredOK
  <2>5. Holds(r, v) <=> \E i \in 1..n : v = a[i].v
    BY <1>6, <2>3, <2>4
  <2>6. \A i \in 1..n : Holds(a[i], ValueOf(x, a[i].e, a[i].f)) <=> v = a[i].v
    BY <1>0, <2>1 DEF Holds
  <2>7. TermHolds(b, x) <=> \E i \in 1..n : Holds(a[i], ValueOf(x, a[i].e, a[i].f))
    BY <1>0 DEF TermHolds
  <2> QED
    BY <2>2, <2>5, <2>6, <2>7
<1> QED
  BY <1>11, <1>12, AtomIs

\* IS NULL OR older says what its operator says.
LEMMA OlderCollapses ==
    ASSUME NEW b, TermOK(b), DOMAIN b = 1..2, NEW a,
           \A i \in 1..2 : b[i] = {a[i]} /\ a[i].e = a[1].e /\ a[i].f = a[1].f,
           NEW i \in 1..2, a[i].op = "older_than", a[3 - i].op = "is_null",
           NEW r, r = [a[i] EXCEPT !.op = "is_null_or_older"]
    PROVE  TermOK(Atom(r)) /\ \A x : TermHolds(Atom(r), x) <=> TermHolds(b, x)
<1>1. PredOK(a[i]) /\ 3 - i \in 1..2 /\ \A j \in 1..2 : j = i \/ j = 3 - i
  BY DEF TermOK, ToSet
<1>2. a[i] \in [e : Entities, f : Fields, op : Ops, v : {a[i].v}]
  BY <1>1 DEF PredOK
<1>3. r.e = a[1].e /\ r.f = a[1].f /\ r.op = "is_null_or_older" /\ r.v = a[i].v
  BY <1>2
<1>4. r \in [e : Entities, f : Fields, op : Ops, v : {r.v}]
  BY <1>2 DEF Ops
<1>5. PredOK(r)
  BY <1>3, <1>4 DEF PredOK
<1>6. ASSUME NEW x PROVE TermHolds(Atom(r), x) <=> TermHolds(b, x)
  <2>1. PICK v : v = ValueOf(x, a[1].e, a[1].f)
    OBVIOUS
  <2>2. TermHolds(Atom(r), x) <=> Holds(r, v)
    BY <1>3, <2>1, AtomIs
  <2>3. Holds(r, v) <=> IF v = Null THEN TRUE ELSE v < a[i].v
    BY <1>3 DEF Holds
  <2>4. Holds(a[i], v) <=> IF v = Null THEN FALSE ELSE v < a[i].v
    BY DEF Holds
  <2>5. Holds(a[3 - i], v) <=> v = Null
    BY DEF Holds
  <2>6. TermHolds(b, x) <=> \E j \in 1..2 : Holds(a[j], v)
    BY <2>1 DEF TermHolds
  <2> QED
    BY <1>1, <2>2, <2>3, <2>4, <2>5, <2>6
<1> QED
  BY <1>5, <1>6, AtomIs

\* What an OR collapses to, a being the atoms of its branches
Collapsed(b, a) ==
    LET single == \A i \in DOMAIN b : Cardinality(b[i]) = 1
        oneColumn == \A i \in DOMAIN b : a[i].e = a[1].e /\ a[i].f = a[1].f
        older == IF Len(b) = 2 /\ single /\ oneColumn
                 THEN {i \in 1..2 : a[i].op = "older_than" /\ a[3 - i].op = "is_null"} ELSE {}
    IN  IF single /\ oneColumn /\ \A i \in DOMAIN b : a[i].op = "equals"
        THEN Atom([a[1] EXCEPT !.op = "in", !.v = Sorted([i \in DOMAIN b |-> a[i].v])])
        ELSE IF older # {}
        THEN Atom([a[CHOOSE i \in older : TRUE] EXCEPT !.op = "is_null_or_older"])
        ELSE b

\* Collapsing an OR keeps what it says.
LEMMA CollapseHolds ==
    ASSUME Null \notin Int, NEW b, TermOK(b), NEW t, t = _collapse_special_or(b)
    PROVE  TermOK(t) /\ \A x : TermHolds(t, x) <=> TermHolds(b, x)
<1>1. PICK n \in Nat \ {0} : n = Len(b) /\ DOMAIN b = 1..n
  BY LenProperties, EmptySeq DEF TermOK
<1> DEFINE single == \A i \in DOMAIN b : Cardinality(b[i]) = 1
<1>2. PICK a : a = [i \in DOMAIN b |-> CHOOSE q \in b[i] : TRUE]
  OBVIOUS
<1> DEFINE oneColumn == \A i \in DOMAIN b : a[i].e = a[1].e /\ a[i].f = a[1].f
           older == IF Len(b) = 2 /\ single /\ oneColumn
                    THEN {i \in 1..2 : a[i].op = "older_than" /\ a[3 - i].op = "is_null"} ELSE {}
           equal == single /\ oneColumn /\ \A i \in DOMAIN b : a[i].op = "equals"
<1>3. t = IF equal
          THEN Atom([a[1] EXCEPT !.op = "in", !.v = Sorted([i \in DOMAIN b |-> a[i].v])])
          ELSE IF older # {}
          THEN Atom([a[CHOOSE i \in older : TRUE] EXCEPT !.op = "is_null_or_older"])
          ELSE b
  <2>1. t = Collapsed(b, [i \in DOMAIN b |-> CHOOSE q \in b[i] : TRUE])
    BY ZenonT(60) DEF Collapsed, _collapse_special_or
  <2>2. t = Collapsed(b, a)
    BY <1>2, <2>1, Zenon
  <2> QED
    BY ZenonT(60), <2>2 DEF Collapsed
<1>4. ASSUME single PROVE \A i \in 1..n : b[i] = {a[i]}
  <2> SUFFICES ASSUME NEW i \in 1..n PROVE b[i] = {a[i]}
    OBVIOUS
  <2>1. IsFiniteSet(b[i]) /\ Cardinality(b[i]) = 1
    BY <1>1, <1>4 DEF TermOK, ToSet
  <2>2. a[i] = CHOOSE q \in b[i] : TRUE
    BY <1>1, <1>2
  <2> QED
    BY <2>1, <2>2, SingleBranch
<1>5. CASE equal
  <2>1. PICK r : r = InOf(a, n)
    OBVIOUS
  <2>2. t = Atom(r)
    BY <1>1, <1>3, <1>5, <2>1 DEF InOf
  <2>3. AllEqual(b, a, n)
    BY <1>1, <1>2, <1>4, <1>5 DEF AllEqual
  <2> HIDE DEF equal, older, single, oneColumn
  <2> QED
    <3>1. TermOK(Atom(r)) /\ \A x : TermHolds(Atom(r), x) <=> TermHolds(b, x)
      BY <1>1, <2>1, <2>3, EqualitiesCollapse
    <3> QED
      BY <2>2, <3>1
<1>6. CASE ~ equal /\ older # {}
  <2>1. PICK i : i = CHOOSE j \in older : TRUE
    OBVIOUS
  <2>2. i \in older
    BY <1>6, <2>1
  <2>3. n = 2 /\ single /\ oneColumn /\ i \in 1..2 /\ a[i].op = "older_than" /\ a[3 - i].op = "is_null"
    BY <1>1, <1>6, <2>2
  <2>4. PICK r : r = [a[i] EXCEPT !.op = "is_null_or_older"]
    OBVIOUS
  <2>5. t = Atom(r)
    <3> HIDE DEF equal, older
    <3> QED
      BY <1>3, <1>6, <2>1, <2>4
  <2>6. DOMAIN b = 1..2 /\ \A j \in 1..2 : b[j] = {a[j]} /\ a[j].e = a[1].e /\ a[j].f = a[1].f
    BY <1>1, <1>4, <2>3
  <2> HIDE DEF equal, older, single, oneColumn
  <2> QED
    BY <2>3, <2>4, <2>5, <2>6, OlderCollapses
<1>7. CASE ~ equal /\ older = {}
  <2>1. t = b
    <3> HIDE DEF equal, older
    <3> QED
      BY <1>3, <1>7
  <2> QED
    BY <2>1
<1> QED
  <2> HIDE DEF equal, older
  <2> QED
    BY <1>5, <1>6, <1>7

\* One more branch
LEMMA AppendedBranch ==
    ASSUME NEW t, TermOK(t), NEW b, IsFiniteSet(b), \A q \in b : PredOK(q)
    PROVE  /\ TermOK(Append(t, b))
           /\ \A x : TermHolds(Append(t, b), x) <=> TermHolds(t, x) \/ BranchHolds(b, x)
<1>1. PICK S : S = ToSet(t) \cup {b}
  OBVIOUS
<1>2. t \in Seq(S) /\ b \in S
  <2>1. t \in Seq(ToSet(t)) /\ ToSet(t) \subseteq S
    BY <1>1 DEF TermOK
  <2> QED
    BY <1>1, <2>1, SeqMonotonic
<1>3. PICK n \in Nat : n = Len(t) /\ DOMAIN t = 1..n
  BY <1>2, LenProperties
<1>4. PICK u : u = Append(t, b)
  OBVIOUS
<1>5. /\ u \in Seq(S) /\ Len(u) = n + 1 /\ DOMAIN u = 1..(n + 1)
      /\ \A i \in 1..n : u[i] = t[i]
      /\ u[n + 1] = b
  BY <1>2, <1>3, <1>4
<1>6. ToSet(u) = S
  <2>1. ToSet(t) = {t[i] : i \in 1..n} /\ ToSet(u) = {u[i] : i \in 1..(n + 1)}
    BY <1>3, <1>5 DEF ToSet
  <2>2. \A i \in 1..(n + 1) : i \in 1..n \/ i = n + 1
    OBVIOUS
  <2>3. \A i \in 1..n : i \in 1..(n + 1)
    OBVIOUS
  <2>4. n + 1 \in 1..(n + 1)
    OBVIOUS
  <2> QED
    BY <1>1, <1>5, <2>1, <2>2, <2>3, <2>4
<1>7. TermOK(u)
  <2>1. u # <<>>
    BY <1>3, <1>5
  <2> QED
    BY <1>1, <1>5, <1>6, <2>1 DEF TermOK
<1>8. \A x : TermHolds(u, x) <=> TermHolds(t, x) \/ BranchHolds(b, x)
  BY <1>1, <1>6, TermHoldsIs
<1> QED
  BY <1>4, <1>7, <1>8

\* What the parser makes of a term says the same.
LEMMA NormalizeHolds ==
    ASSUME Null \notin Int, NEW t, TermOK(t)
    PROVE  /\ TermOK(_normalize_boolean(t))
           /\ \A x : TermHolds(_normalize_boolean(t), x) <=> TermHolds(t, x)
<1>0. PICK len \in Nat \ {0} : len = Len(t) /\ DOMAIN t = 1..len
  BY LenProperties, EmptySeq DEF TermOK
<1>1. PICK n \in Nat : n = len - 1 /\ n + 1 = len
  BY <1>0
<1>2. PICK s : /\ _normalize_boolean(t) = s[n]
               /\ s[0] = << ParsedBranch(t[1]) >>
               /\ \A k \in 1..n : s[k] = _collapse_special_or(Append(s[k - 1], ParsedBranch(t[k + 1])))
  BY <1>0, <1>1, NormalizedIs
<1>3. \A i \in 1..(n + 1) : IsFiniteSet(t[i]) /\ \A q \in t[i] : PredOK(q)
  BY <1>0, <1>1 DEF TermOK, ToSet
<1>4. ASSUME NEW i \in 1..(n + 1)
      PROVE  /\ IsFiniteSet(ParsedBranch(t[i])) /\ \A q \in ParsedBranch(t[i]) : PredOK(q)
             /\ \A x : BranchHolds(ParsedBranch(t[i]), x) <=> BranchHolds(t[i], x)
  BY <1>3, ParsedBranchHolds
<1> DEFINE Good(k) == /\ TermOK(s[k])
                      /\ \A x : TermHolds(s[k], x) <=> \E i \in 1..(k + 1) : BranchHolds(t[i], x)
           G == {k \in 0..n : Good(k)}
<1>5. Good(0)
  <2>1. PICK b : b = ParsedBranch(t[1])
    OBVIOUS
  <2>2. PICK u : u = << b >>
    OBVIOUS
  <2>3. DOMAIN u = {1} /\ u[1] = b
    BY <2>2
  <2>4. ToSet(u) = {b} /\ u \in Seq({b}) /\ u # <<>>
    BY <2>2, <2>3 DEF ToSet
  <2>5. 1 \in 1..(n + 1) /\ 1..(0 + 1) = {1}
    OBVIOUS
  <2>6. TermOK(u)
    BY <1>4, <2>1, <2>4, <2>5 DEF TermOK
  <2>7. \A x : TermHolds(u, x) <=> BranchHolds(t[1], x)
    BY <1>4, <2>1, <2>4, <2>5, TermHoldsIs
  <2> QED
    BY <1>2, <2>1, <2>2, <2>5, <2>6, <2>7
<1>6. ASSUME NEW k \in 1..n, Good(k - 1) PROVE Good(k)
  <2>1. k + 1 \in 1..(n + 1) /\ (k - 1) + 1 = k /\ \A i \in 1..(k + 1) : i \in 1..k \/ i = k + 1
    OBVIOUS
  <2>2. \A i \in 1..k : i \in 1..(k + 1)
    OBVIOUS
  <2>3. k + 1 \in 1..(k + 1)
    OBVIOUS
  <2>4. PICK b, u : b = ParsedBranch(t[k + 1]) /\ u = Append(s[k - 1], b)
    OBVIOUS
  <2>5. /\ IsFiniteSet(b) /\ \A q \in b : PredOK(q)
        /\ \A x : BranchHolds(b, x) <=> BranchHolds(t[k + 1], x)
    BY <1>4, <2>1, <2>4
  <2>6. TermOK(s[k - 1]) /\ \A x : TermHolds(s[k - 1], x) <=> \E i \in 1..k : BranchHolds(t[i], x)
    BY <1>6, <2>1
  <2>7. TermOK(u) /\ \A x : TermHolds(u, x) <=> TermHolds(s[k - 1], x) \/ BranchHolds(b, x)
    BY <2>4, <2>5, <2>6, AppendedBranch
  <2>8. s[k] = _collapse_special_or(u)
    BY <1>2, <2>4
  <2>9. TermOK(s[k]) /\ \A x : TermHolds(s[k], x) <=> TermHolds(u, x)
    BY <2>7, <2>8, CollapseHolds
  <2>10. \A x : TermHolds(s[k], x) <=> \E i \in 1..(k + 1) : BranchHolds(t[i], x)
    BY <2>1, <2>2, <2>3, <2>5, <2>6, <2>7, <2>9
  <2> QED
    BY <2>9, <2>10
<1>7. Good(n)
  <2> HIDE DEF Good
  <2>1. 0 \in G /\ \A k \in 1..n : k - 1 \in G => k \in G
    BY <1>5, <1>6
  <2>2. \A k \in 0..n : k \in G
    <3> HIDE DEF G
    <3> QED
      BY <2>1, RoundByRound
  <2> QED
    BY <2>2
<1>8. \A x : TermHolds(t, x) <=> \E i \in 1..(n + 1) : BranchHolds(t[i], x)
  BY <1>0, <1>1 DEF TermHolds, BranchHolds
<1> QED
  BY <1>2, <1>7, <1>8

\* Terms with one tally have the same branches.
LEMMA TallyTells ==
    ASSUME NEW s, NEW t, Tally(s) = Tally(t), NEW x
    PROVE  TermHolds(s, x) <=> TermHolds(t, x)
<1>1. DOMAIN Tally(s) = ToSet(s) /\ DOMAIN Tally(t) = ToSet(t)
  BY DEF Tally
<1> QED
  BY <1>1, TermHoldsIs

\* Filters that the comparison passes keep the rows that the plan's keep.
LEMMA FiltersAgree ==
    ASSUME Null \notin Int, NEW p, PlanOK(p), NEW c, \A t \in c.terms : TermOK(t),
           _check_predicates(p, c), NEW x
    PROVE  (\A t \in c.terms : TermHolds(t, x)) <=> (\A t \in PlanTerms(p) : TermHolds(t, x))
<1> DEFINE node(t) == _normalize_boolean(t)
           one == {t \in c.terms : Len(node(t)) = 1}
           many == {t \in c.terms : Len(node(t)) > 1}
<1>1. ASSUME NEW t \in c.terms
      PROVE  /\ TermHolds(t, x) <=> TermHolds(node(t), x)
             /\ Len(node(t)) = 1 => ToSet(node(t)) = {node(t)[1]}
             /\ t \in one \/ t \in many
  <2>1. TermOK(node(t)) /\ (TermHolds(t, x) <=> TermHolds(node(t), x))
    BY <1>1, NormalizeHolds
  <2>2. Len(node(t)) \in Nat \ {0} /\ DOMAIN node(t) = 1..Len(node(t))
    BY <2>1, LenProperties, EmptySeq DEF TermOK
  <2>3. Len(node(t)) = 1 => ToSet(node(t)) = {node(t)[1]}
    BY <2>2 DEF ToSet
  <2> QED
    BY <2>1, <2>2, <2>3
<1>2. (\A t \in one : TermHolds(t, x)) <=> \A q \in p.preds \cup p.filters : TermHolds(Atom(q), x)
  <2>1. ParsedPreds(c) = p.preds \cup p.filters
    BY DEF _check_predicates
  <2>2. ParsedPreds(c) = UNION {IF Len(node(t)) = 1 THEN node(t)[1] ELSE {} : t \in c.terms}
    BY DEF ParsedPreds
  <2>3. \A t \in one : TermHolds(t, x) <=> \A q \in node(t)[1] : Holds(q, ValueOf(x, q.e, q.f))
    <3> SUFFICES ASSUME NEW t \in one
                 PROVE  TermHolds(t, x) <=> BranchHolds(node(t)[1], x)
      BY DEF BranchHolds
    <3> HIDE DEF node
    <3> QED
      BY <1>1, TermHoldsIs
  <2>4. \A q : TermHolds(Atom(q), x) <=> Holds(q, ValueOf(x, q.e, q.f))
    BY AtomIs
  <2>5. \A q : q \in ParsedPreds(c) <=> \E t \in one : q \in node(t)[1]
    <3> HIDE DEF node
    <3> QED
      BY <2>2
  <2> HIDE DEF node, one
  <2> QED
    BY <2>1, <2>3, <2>4, <2>5
<1>3. (\A t \in many : TermHolds(t, x)) <=> \A g \in p.groups : TermHolds(g, x)
  <2>1. DOMAIN ParsedGroups(c) = {Tally(node(t)) : t \in many}
    BY DEF ParsedGroups
  <2>2. DOMAIN ParsedGroups(c) = {Tally(g) : g \in p.groups}
    BY DEF _check_predicates
  <2>3. \A t \in many : TermHolds(t, x) <=> TermHolds(node(t), x)
    BY <1>1
  <2>4. /\ \A t \in many : \E g \in p.groups : Tally(node(t)) = Tally(g)
        /\ \A g \in p.groups : \E t \in many : Tally(node(t)) = Tally(g)
    <3> HIDE DEF node, many
    <3>1. {Tally(node(t)) : t \in many} = {Tally(g) : g \in p.groups}
      BY <2>1, <2>2
    <3> QED
      BY <3>1
  <2>5. \A t \in many, g \in p.groups :
           Tally(node(t)) = Tally(g) => (TermHolds(t, x) <=> TermHolds(g, x))
    <3> HIDE DEF node, many
    <3> QED
      BY <2>3, TallyTells
  <2> HIDE DEF node, many
  <2> QED
    BY <2>4, <2>5
<1>4. c.terms = one \cup many
  BY <1>1
<1> HIDE DEF one, many
<1> QED
  BY <1>2, <1>3, <1>4 DEF PlanTerms


-----------------------------------------------------------------------------
(* Joins: an order of joins makes the rows that each join lets through     *)

\* The tables that are there after k joins
Sofar(c, k) == {c.root} \cup {c.joins[j].added : j \in 1..k}

\* SQL whose joins add one table each, on columns that are there, and whose
\* terms read tables that are there.
SqlOK(c) ==
    /\ c.joins \in Seq([rel : Rels, type : {"inner", "left"}, added : Entities])
    /\ c.root \in Entities /\ c.at \in 0..Len(c.joins)
    /\ \A i \in 1..Len(c.joins) :
          /\ c.joins[i].added \notin Sofar(c, i - 1)
          /\ Ends(c.joins[i].rel) \subseteq Sofar(c, i)
    /\ \A t \in c.terms : TermOK(t)
    /\ c.at > 0 => \A t \in c.terms : \A b \in ToSet(t) : \A q \in b : q.e \in Sofar(c, c.at)

\* What a matching row of the i-th join fulfils
Fits(c, d, i, x) ==
    LinkedBy(c.joins[i].rel, x, d) /\ \A t \in On(c, i) : TermHolds(t, x)

\* What the i-th join does to every row that it lets through
LetThrough(c, d, i, x) ==
    \/ x[c.joins[i].added] # Null /\ Fits(c, d, i, x)
    \/ /\ c.joins[i].type = "left" /\ x[c.joins[i].added] = Null
       /\ \A r \in Rows : ~ Fits(c, d, i, [x EXCEPT ![c.joins[i].added] = r])

\* Every assignment of a row, or Null, to each entity
AllRows == [Entities -> Rows \cup {Null}]

\* The rows over the first k joins that all of them let through
RowsThrough(c, d, k) ==
    {x \in AllRows :
        /\ \A e \in Entities \ Sofar(c, k) : x[e] = Null
        /\ x[c.root] # Null
        /\ \A i \in 1..k : LetThrough(c, d, i, x)}

\* The rows x and y have the same values in the tables of S.
Same(x, y, S) == \A e \in S : x[e] = y[e]

\* The joins of such SQL are steps, and its tables grow by one with each.
LEMMA SqlOKIs ==
    ASSUME NEW c, SqlOK(c), NEW n, n = Len(c.joins), From \in [Rels -> Entities], To \in [Rels -> Entities]
    PROVE  /\ n \in Nat /\ DOMAIN c.joins = 1..n
           /\ \A i \in 1..n : c.joins[i] \in [rel : Rels, type : {"inner", "left"}, added : Entities]
           /\ \A k \in 0..n : Sofar(c, k) \subseteq Entities /\ c.root \in Sofar(c, k)
           /\ \A i, k \in 0..n : i <= k => Sofar(c, i) \subseteq Sofar(c, k)
           /\ \A k \in 1..n : Sofar(c, k) = Sofar(c, k - 1) \cup {c.joins[k].added}
           /\ Sofar(c, 0) = {c.root}
<1>1. /\ n \in Nat /\ DOMAIN c.joins = 1..n
      /\ \A i \in 1..n : c.joins[i] \in [rel : Rels, type : {"inner", "left"}, added : Entities]
  BY LenProperties, ElementOfSeq DEF SqlOK
<1>2. \A i \in 1..n : c.joins[i].added \in Entities
  BY <1>1
<1>3. \A k \in 0..n : Sofar(c, k) \subseteq Entities /\ c.root \in Sofar(c, k)
  <2>1. \A k \in 0..n : \A j \in 1..k : j \in 1..n
    BY <1>1
  <2> QED
    BY <1>2, <2>1 DEF Sofar, SqlOK
<1>4. \A i, k \in 0..n : i <= k => Sofar(c, i) \subseteq Sofar(c, k)
  <2>1. \A i, k \in 0..n : i <= k => \A j \in 1..i : j \in 1..k
    BY <1>1
  <2> QED
    BY <2>1 DEF Sofar
<1>5. \A k \in 1..n : Sofar(c, k) = Sofar(c, k - 1) \cup {c.joins[k].added}
  <2>1. \A k \in 1..n : 1..k = 1..(k - 1) \cup {k}
    BY <1>1
  <2> QED
    BY <2>1 DEF Sofar
<1>6. Sofar(c, 0) = {c.root}
  <2>1. 1..0 = {}
    OBVIOUS
  <2> QED
    BY <2>1 DEF Sofar
<1> QED
  BY <1>1, <1>3, <1>4, <1>5, <1>6

\* A term says the same of rows that have the same values where it reads.
LEMMA SameTerm ==
    ASSUME NEW t, NEW S, \A b \in ToSet(t) : \A q \in b : q.e \in S, NEW x, NEW y, Same(x, y, S)
    PROVE  TermHolds(t, x) <=> TermHolds(t, y)
<1>1. \A b \in ToSet(t) : BranchHolds(b, x) <=> BranchHolds(b, y)
  BY DEF Same, BranchHolds, ValueOf
<1> QED
  BY <1>1, TermHoldsIs

\* A join sees the tables that are there.
LEMMA SameFits ==
    ASSUME NEW c, SqlOK(c), From \in [Rels -> Entities], To \in [Rels -> Entities],
           NEW d, NEW i \in 1..Len(c.joins), NEW x, NEW y, Same(x, y, Sofar(c, i))
    PROVE  Fits(c, d, i, x) <=> Fits(c, d, i, y)
<1>1. Ends(c.joins[i].rel) \subseteq Sofar(c, i)
  BY DEF SqlOK
<1>2. LinkedBy(c.joins[i].rel, x, d) <=> LinkedBy(c.joins[i].rel, y, d)
  BY <1>1 DEF LinkedBy, Ends, Same
<1>3. \A t \in On(c, i) : TermHolds(t, x) <=> TermHolds(t, y)
  <2> SUFFICES ASSUME NEW t \in On(c, i) PROVE TermHolds(t, x) <=> TermHolds(t, y)
    OBVIOUS
  <2>1. c.at = i /\ t \in c.terms
    BY DEF On
  <2>2. i > 0
    BY SqlOKIs
  <2>3. \A b \in ToSet(t) : \A q \in b : q.e \in Sofar(c, i)
    BY <2>1, <2>2 DEF SqlOK
  <2> QED
    BY <2>3, SameTerm
<1> QED
  BY <1>2, <1>3 DEF Fits

\* What a join lets through depends on the tables that are there by then.
LEMMA SameThrough ==
    ASSUME NEW c, SqlOK(c), From \in [Rels -> Entities], To \in [Rels -> Entities],
           NEW d, NEW i \in 1..Len(c.joins), NEW x \in AllRows, NEW y \in AllRows,
           Same(x, y, Sofar(c, i))
    PROVE  LetThrough(c, d, i, x) => LetThrough(c, d, i, y)
<1>1. PICK a : a = c.joins[i].added
  OBVIOUS
<1>2. a \in Entities /\ a \in Sofar(c, i) /\ Sofar(c, i) \subseteq Entities
  <2>1. i \in 0..Len(c.joins) /\ c.joins[i].added \in Entities /\ Sofar(c, i) = Sofar(c, i - 1) \cup {c.joins[i].added}
    BY SqlOKIs
  <2> QED
    BY <1>1, <2>1, SqlOKIs
<1>3. Fits(c, d, i, x) <=> Fits(c, d, i, y)
  BY SameFits
<1>4. ASSUME NEW r \in Rows
      PROVE  Fits(c, d, i, [x EXCEPT ![a] = r]) <=> Fits(c, d, i, [y EXCEPT ![a] = r])
  <2>1. PICK u, v : u = [x EXCEPT ![a] = r] /\ v = [y EXCEPT ![a] = r]
    OBVIOUS
  <2>2. Same(u, v, Sofar(c, i))
    BY <1>2, <2>1 DEF Same, AllRows
  <2>3. Fits(c, d, i, u) <=> Fits(c, d, i, v)
    BY <2>2, SameFits
  <2> QED
    BY <2>1, <2>3
<1>5. x[a] = y[a]
  BY <1>2 DEF Same
<1> QED
  BY <1>1, <1>3, <1>4, <1>5 DEF LetThrough

\* One join more
LEMMA OneJoinMore ==
    ASSUME NEW c, SqlOK(c), From \in [Rels -> Entities], To \in [Rels -> Entities], Null \notin Rows,
           NEW d, NEW k \in 1..Len(c.joins)
    PROVE  Joined(RowsThrough(c, d, k - 1), k, c, d) = RowsThrough(c, d, k)
<1>1. PICK n \in Nat : n = Len(c.joins)
  BY SqlOKIs
<1>2. PICK a, j : j = c.joins[k] /\ a = j.added
  OBVIOUS
<1>3. /\ k \in 1..n /\ k - 1 \in 0..n /\ k \in 0..n /\ \A i \in 1..(k - 1) : i \in 1..k /\ i \in 1..n /\ i <= k - 1 /\ i \in 0..n
      /\ \A i \in 1..k : i \in 1..(k - 1) \/ i = k
      /\ k \in 1..k
  BY <1>1
<1>4. /\ a \in Entities /\ a \notin Sofar(c, k - 1) /\ c.root \in Entities /\ c.root # a
      /\ Sofar(c, k) = Sofar(c, k - 1) \cup {a}
      /\ \A i \in 1..(k - 1) : Sofar(c, i) \subseteq Sofar(c, k - 1)
      /\ Sofar(c, k - 1) \subseteq Entities
  <2>1. a \in Entities /\ Sofar(c, k) = Sofar(c, k - 1) \cup {a}
    BY <1>1, <1>2, <1>3, SqlOKIs
  <2>2. a \notin Sofar(c, k - 1) /\ c.root \in Entities
    BY <1>1, <1>2, <1>3 DEF SqlOK
  <2>3. c.root \in Sofar(c, k - 1) /\ Sofar(c, k - 1) \subseteq Entities
    BY <1>1, <1>3, SqlOKIs
  <2>4. \A i \in 1..(k - 1) : Sofar(c, i) \subseteq Sofar(c, k - 1)
    BY <1>1, <1>3, SqlOKIs
  <2> QED
    BY <2>1, <2>2, <2>3, <2>4
<1> DEFINE With(x, r) == [x EXCEPT ![a] = r]
           Match(x) == {y \in {With(x, r) : r \in Rows} : Fits(c, d, k, y)}
           Out(x) == IF Match(x) = {} /\ j.type = "left" THEN {x} ELSE Match(x)
<1>5. \A xs : Joined(xs, k, c, d) = UNION {Out(x) : x \in xs}
  BY <1>2 DEF Joined, Matches, Fits
<1>6. \A x \in AllRows, y \in AllRows : Same(x, y, Sofar(c, k - 1)) =>
          \A i \in 1..(k - 1) : LetThrough(c, d, i, x) => LetThrough(c, d, i, y)
  <2> SUFFICES ASSUME NEW x \in AllRows, NEW y \in AllRows, Same(x, y, Sofar(c, k - 1)),
                      NEW i \in 1..(k - 1)
               PROVE  LetThrough(c, d, i, x) => LetThrough(c, d, i, y)
    OBVIOUS
  <2>1. Same(x, y, Sofar(c, i))
    BY <1>4 DEF Same
  <2> QED
    BY <1>1, <1>3, <2>1, SameThrough
<1>7. /\ \A x : LetThrough(c, d, k, x) <=>
              \/ x[a] # Null /\ Fits(c, d, k, x)
              \/ j.type = "left" /\ x[a] = Null /\ \A r \in Rows : ~ Fits(c, d, k, With(x, r))
      /\ \A x : Match(x) = {} <=> \A r \in Rows : ~ Fits(c, d, k, With(x, r))
  BY <1>2 DEF LetThrough
<1>8. \A x \in AllRows, r \in Rows \cup {Null} :
          /\ With(x, r) \in AllRows /\ With(x, r)[a] = r
          /\ \A e \in Entities : e # a => With(x, r)[e] = x[e]
          /\ With(With(x, r), x[a]) = x
          /\ x[a] = r => With(x, r) = x
  BY <1>4 DEF AllRows
<1> HIDE DEF With
<1>9. ASSUME NEW x \in RowsThrough(c, d, k - 1), NEW z \in Out(x)
      PROVE  z \in RowsThrough(c, d, k)
  <2>1. /\ x \in AllRows /\ x[c.root] # Null /\ \A i \in 1..(k - 1) : LetThrough(c, d, i, x)
        /\ \A e \in Entities \ Sofar(c, k - 1) : x[e] = Null
    BY DEF RowsThrough
  <2>2. CASE Match(x) = {} /\ j.type = "left"
    <3>1. z = x /\ x[a] = Null
      BY <1>4, <2>1, <2>2
    <3>2. LetThrough(c, d, k, z)
      BY <1>7, <2>2, <3>1
    <3>3. \A e \in Entities \ Sofar(c, k) : z[e] = Null
      BY <1>4, <2>1, <3>1
    <3> QED
      BY <1>3, <2>1, <3>1, <3>2, <3>3 DEF RowsThrough
  <2>3. CASE ~ (Match(x) = {} /\ j.type = "left")
    <3>1. PICK r \in Rows : z = With(x, r) /\ Fits(c, d, k, z)
      BY <2>3
    <3>2. /\ z \in AllRows /\ z[a] = r /\ r # Null
          /\ \A e \in Entities : e # a => z[e] = x[e]
      BY <1>8, <2>1, <3>1
    <3>3. LetThrough(c, d, k, z)
      BY <1>7, <3>1, <3>2
    <3>4. Same(x, z, Sofar(c, k - 1))
      BY <1>4, <3>2 DEF Same
    <3>5. \A i \in 1..(k - 1) : LetThrough(c, d, i, z)
      BY <1>6, <2>1, <3>2, <3>4
    <3>6. z[c.root] # Null /\ \A e \in Entities \ Sofar(c, k) : z[e] = Null
      BY <1>4, <2>1, <3>2
    <3> QED
      BY <1>3, <3>2, <3>3, <3>5, <3>6 DEF RowsThrough
  <2> QED
    BY <2>2, <2>3
<1>10. ASSUME NEW z \in RowsThrough(c, d, k)
       PROVE  \E x \in RowsThrough(c, d, k - 1) : z \in Out(x)
  <2>1. /\ z \in AllRows /\ z[c.root] # Null /\ \A i \in 1..k : LetThrough(c, d, i, z)
        /\ \A e \in Entities \ Sofar(c, k) : z[e] = Null
    BY DEF RowsThrough
  <2>2. PICK x : x = With(z, Null)
    OBVIOUS
  <2>3. /\ x \in AllRows /\ x[a] = Null /\ \A e \in Entities : e # a => x[e] = z[e]
        /\ With(x, z[a]) = z /\ (z[a] = Null => x = z)
    BY <1>8, <2>1, <2>2
  <2>4. Same(z, x, Sofar(c, k - 1))
    BY <1>4, <2>3 DEF Same
  <2>5. \A i \in 1..(k - 1) : LetThrough(c, d, i, x)
    BY <1>3, <1>6, <2>1, <2>3, <2>4
  <2>6. x[c.root] # Null /\ \A e \in Entities \ Sofar(c, k - 1) : x[e] = Null
    BY <1>4, <2>1, <2>3
  <2>7. x \in RowsThrough(c, d, k - 1)
    BY <2>3, <2>5, <2>6 DEF RowsThrough
  <2>8. z \in Out(x)
    <3>1. LetThrough(c, d, k, z) /\ z[a] \in Rows \cup {Null}
      BY <1>3, <1>4, <2>1 DEF AllRows
    <3>2. CASE z[a] # Null
      <4>1. Fits(c, d, k, z) /\ z[a] \in Rows
        BY <1>7, <3>1, <3>2
      <4>2. z \in Match(x)
        BY <2>3, <4>1
      <4> QED
        BY <4>2
    <3>3. CASE z[a] = Null
      <4>1. j.type = "left" /\ \A r \in Rows : ~ Fits(c, d, k, With(x, r))
        BY <1>7, <2>3, <3>1, <3>3
      <4>2. Match(x) = {}
        BY <1>7, <4>1
      <4> QED
        BY <2>3, <3>3, <4>1, <4>2
    <3> QED
      BY <3>2, <3>3
  <2> QED
    BY <2>7, <2>8
<1> HIDE DEF Out
<1>11. PICK xs : xs = RowsThrough(c, d, k - 1)
  OBVIOUS
<1>12. \A z : z \in Joined(xs, k, c, d) <=> \E x \in xs : z \in Out(x)
  BY <1>5
<1>13. \A z : z \in Joined(xs, k, c, d) <=> z \in RowsThrough(c, d, k)
  BY <1>9, <1>10, <1>11, <1>12
<1> QED
  BY <1>11, <1>13

\* All joins
LEMMA RowsFromJoins ==
    ASSUME NEW c, SqlOK(c), From \in [Rels -> Entities], To \in [Rels -> Entities], Null \notin Rows,
           NEW d
    PROVE  FromRows(c, d) = RowsThrough(c, d, Len(c.joins))
<1>1. PICK n \in Nat : n = Len(c.joins)
  BY SqlOKIs
<1>2. PICK s : FromRows(c, d) = s[n] /\ JoinedInTurn(s, c, d, n)
  BY <1>1, FromRowsIs
<1> DEFINE G == {k \in 0..n : s[k] = RowsThrough(c, d, k)}
<1>3. s[0] = RowsThrough(c, d, 0)
  <2>1. Sofar(c, 0) = {c.root} /\ c.root \in Entities
    BY SqlOKIs DEF SqlOK
  <2>2. RowsThrough(c, d, 0) = {x \in AllRows : (\A e \in Entities \ {c.root} : x[e] = Null) /\ x[c.root] # Null}
    <3>1. 1..0 = {}
      OBVIOUS
    <3> QED
      BY <2>1, <3>1 DEF RowsThrough
  <2>3. ASSUME NEW x \in RootRows(c) PROVE x \in RowsThrough(c, d, 0)
    <3>1. PICK r \in Rows : x = [e \in Entities |-> IF e = c.root THEN r ELSE Null]
      BY DEF RootRows
    <3>2. x \in AllRows
      BY <3>1 DEF AllRows
    <3>3. x[c.root] = r /\ r # Null /\ \A e \in Entities \ {c.root} : x[e] = Null
      BY <2>1, <3>1
    <3> QED
      BY <2>2, <3>2, <3>3
  <2>4. ASSUME NEW x \in RowsThrough(c, d, 0) PROVE x \in RootRows(c)
    <3>1. /\ x \in [Entities -> Rows \cup {Null}] /\ x[c.root] # Null
          /\ \A e \in Entities \ {c.root} : x[e] = Null
      BY <2>2 DEF AllRows
    <3>2. x[c.root] \in Rows
      BY <2>1, <3>1
    <3>3. PICK y : y = [e \in Entities |-> IF e = c.root THEN x[c.root] ELSE Null]
      OBVIOUS
    <3>4. \A e \in Entities : x[e] = y[e]
      BY <3>1, <3>3
    <3>5. x = y
      BY <3>1, <3>3, <3>4
    <3> QED
      BY <3>2, <3>3, <3>5 DEF RootRows
  <2> QED
    BY <1>2, <2>3, <2>4 DEF JoinedInTurn
<1>4. \A k \in 1..n : k - 1 \in G => k \in G
  <2> SUFFICES ASSUME NEW k \in 1..n, s[k - 1] = RowsThrough(c, d, k - 1)
               PROVE  s[k] = RowsThrough(c, d, k)
    OBVIOUS
  <2> QED
    <3>1. s[k] = Joined(RowsThrough(c, d, k - 1), k, c, d)
      BY <1>2 DEF JoinedInTurn
    <3> QED
      BY <1>1, <3>1, OneJoinMore
<1>5. 0 \in G
  BY <1>3
<1>6. \A k \in 0..n : k \in G
  <2> HIDE DEF G
  <2> QED
    BY <1>4, <1>5, RoundByRound
<1> QED
  BY <1>1, <1>2, <1>6

-----------------------------------------------------------------------------
(* SQL whose joins are the plan's has the rows the plan means              *)

\* The i-th join of c carries out the relationship r of the plan.
CarriesOut(p, r, c, i) ==
    /\ c.joins[i].rel = r
    /\ c.joins[i].type = "left" <=> IsLeft(p.joins[r])
    /\ IsLeft(p.joins[r]) => c.joins[i].added = Nullable(p, r)

\* The comparison of keys pairs the plan's relationships with the joins.
LEMMA JoinsAsCompared ==
    ASSUME NEW p, PlanOK(p), NEW c, SqlOK(c), From \in [Rels -> Entities], To \in [Rels -> Entities],
           _check_relationships(p, c)
    PROVE  /\ \A r \in DOMAIN p.joins : \E i \in 1..Len(c.joins) : CarriesOut(p, r, c, i)
           /\ \A i \in 1..Len(c.joins) : \E r \in DOMAIN p.joins : CarriesOut(p, r, c, i)
<1>1. DOMAIN c.joins = 1..Len(c.joins) /\ \A i \in 1..Len(c.joins) : c.joins[i].type \in {"inner", "left"}
  BY SqlOKIs
<1>2. \A r \in DOMAIN p.joins : p.joins[r] \in {"inner", "left", "left_reverse"}
  BY DEF PlanOK
<1> DEFINE asked(r) == JoinKey(r, SqlType(p.joins[r]), Nullable(p, r))
           made(i) == JoinKey(c.joins[i].rel, c.joins[i].type, c.joins[i].added)
<1>3. {asked(r) : r \in DOMAIN p.joins} = {made(i) : i \in 1..Len(c.joins)}
  BY <1>1 DEF _check_relationships, Nullable
<1>4. ASSUME NEW r \in DOMAIN p.joins, NEW i \in 1..Len(c.joins), asked(r) = made(i)
      PROVE  CarriesOut(p, r, c, i)
  <2>1. c.joins[i].rel = r /\ c.joins[i].type = SqlType(p.joins[r])
        /\ (c.joins[i].type = "left" => c.joins[i].added = Nullable(p, r))
    BY <1>4 DEF JoinKey
  <2>2. c.joins[i].type = "left" <=> IsLeft(p.joins[r])
    BY <1>2, <2>1 DEF SqlType, IsLeft
  <2> QED
    BY <2>1, <2>2 DEF CarriesOut
<1> HIDE DEF asked, made
<1> QED
  BY <1>3, <1>4

\* What a row of the plan is at a relationship
Crosses(p, d, r, x) ==
    \/ LinkedBy(r, x, d)
    \/ /\ IsLeft(p.joins[r]) /\ x[Nullable(p, r)] = Null
       /\ \A y \in Rows : ~ LinkedBy(r, [x EXCEPT ![Nullable(p, r)] = y], d)

\* The joined rows of some of the entities are those that are Null at the others.
LEMMA RowsOverIs ==
    ASSUME NEW es, es \subseteq Entities
    PROVE  RowsOver(es) = {x \in AllRows : \A e \in Entities \ es : x[e] = Null}
<1>1. ASSUME NEW x \in RowsOver(es)
      PROVE  x \in AllRows /\ \A e \in Entities \ es : x[e] = Null
  <2>1. PICK y \in [es -> Rows \cup {Null}] : x = [e \in Entities |-> IF e \in es THEN y[e] ELSE Null]
    BY DEF RowsOver
  <2> QED
    BY <2>1 DEF AllRows
<1>2. ASSUME NEW x \in AllRows, \A e \in Entities \ es : x[e] = Null
      PROVE  x \in RowsOver(es)
  <2>1. PICK y : y = [e \in es |-> x[e]]
    OBVIOUS
  <2>2. x \in [Entities -> Rows \cup {Null}]
    BY DEF AllRows
  <2>3. y \in [es -> Rows \cup {Null}]
    BY <2>1, <2>2
  <2>4. x = [e \in Entities |-> IF e \in es THEN y[e] ELSE Null]
    BY <1>2, <2>1, <2>2
  <2> QED
    BY <2>3, <2>4 DEF RowsOver
<1> QED
  BY <1>1, <1>2

\* The rows of a plan, by what each of its relationships asks of a row
LEMMA PlanRowsIs ==
    ASSUME NEW p, PlanOK(p), NEW d
    PROVE  PlanRows(p, d) =
             {x \in AllRows :
                /\ \A e \in Entities \ p.entities : x[e] = Null
                /\ \A e \in p.entities \ NullableEnds(p) : x[e] # Null
                /\ \A r \in DOMAIN p.joins : Crosses(p, d, r, x)
                /\ \A t \in PlanTerms(p) : TermHolds(t, x)}
<1>1. RowsOver(p.entities) = {x \in AllRows : \A e \in Entities \ p.entities : x[e] = Null}
  BY RowsOverIs DEF PlanOK
<1>2. PlanRows(p, d) =
        {x \in RowsOver(p.entities) :
           /\ \A e \in p.entities \ NullableEnds(p) : x[e] # Null
           /\ \A r \in DOMAIN p.joins : Crosses(p, d, r, x)
           /\ \A t \in PlanTerms(p) : TermHolds(t, x)}
  BY DEF PlanRows, Crosses
<1> QED
  BY <1>1, <1>2

\* What is known of one of them
LEMMA PlanRowIs ==
    ASSUME NEW p, PlanOK(p), NEW d, NEW x \in PlanRows(p, d)
    PROVE  /\ x \in AllRows
           /\ \A e \in Entities \ p.entities : x[e] = Null
           /\ \A e \in p.entities \ NullableEnds(p) : x[e] # Null
BY PlanRowsIs

\* A join with no terms of its own lets through what crosses its relationship.
LEMMA ThroughIsAcross ==
    ASSUME NEW p, PlanOK(p), NEW c, SqlOK(c), From \in [Rels -> Entities], To \in [Rels -> Entities],
           NEW r \in DOMAIN p.joins, NEW i \in 1..Len(c.joins), CarriesOut(p, r, c, i),
           NEW d, NEW x \in AllRows,
           c.joins[i].type = "left" => On(c, i) = {},
           IsLeft(p.joins[r]) \/ x[c.joins[i].added] # Null
    PROVE  LetThrough(c, d, i, x) <=> Crosses(p, d, r, x) /\ \A t \in On(c, i) : TermHolds(t, x)
<1>1. PICK a, j : a = c.joins[i].added /\ j = c.joins[i]
  OBVIOUS
<1>2. j.rel = r /\ (j.type = "left" <=> IsLeft(p.joins[r])) /\ (IsLeft(p.joins[r]) => a = Nullable(p, r))
  BY <1>1 DEF CarriesOut
<1>3. CASE ~ IsLeft(p.joins[r])
  <2>1. LetThrough(c, d, i, x) <=> Fits(c, d, i, x)
    BY <1>1, <1>2, <1>3 DEF LetThrough
  <2>2. Crosses(p, d, r, x) <=> LinkedBy(r, x, d)
    BY <1>3 DEF Crosses
  <2> QED
    BY <1>1, <1>2, <2>1, <2>2 DEF Fits
<1>4. CASE IsLeft(p.joins[r])
  <2>1. a = Nullable(p, r) /\ j.type = "left" /\ On(c, i) = {}
    BY <1>1, <1>2, <1>4
  <2>2. \A y : Fits(c, d, i, y) <=> LinkedBy(r, y, d)
    BY <1>1, <1>2, <2>1 DEF Fits
  <2>3. LetThrough(c, d, i, x) <=>
          \/ x[a] # Null /\ LinkedBy(r, x, d)
          \/ x[a] = Null /\ \A y \in Rows : ~ LinkedBy(r, [x EXCEPT ![a] = y], d)
    BY <1>1, <2>1, <2>2 DEF LetThrough
  <2>4. LinkedBy(r, x, d) => x[a] # Null
    BY <2>1 DEF LinkedBy, Nullable
  <2>5. Crosses(p, d, r, x) <=>
          \/ LinkedBy(r, x, d)
          \/ x[a] = Null /\ \A y \in Rows : ~ LinkedBy(r, [x EXCEPT ![a] = y], d)
    BY <1>4, <2>1 DEF Crosses
  <2> QED
    BY <2>1, <2>3, <2>4, <2>5
<1> QED
  BY <1>3, <1>4

\* Each table is added once.
LEMMA AddedOnce ==
    ASSUME NEW c, SqlOK(c), From \in [Rels -> Entities], To \in [Rels -> Entities]
    PROVE  /\ \A i \in 1..Len(c.joins) : c.joins[i].added # c.root
           /\ \A i, k \in 1..Len(c.joins) : c.joins[i].added = c.joins[k].added => i = k
<1>1. PICK n \in Nat : n = Len(c.joins)
  BY SqlOKIs
<1>2. ASSUME NEW i \in 1..n, NEW k \in 1..n, i < k
      PROVE  c.joins[i].added # c.joins[k].added
  <2>1. i \in 1..(k - 1)
    BY <1>1, <1>2
  <2>2. c.joins[i].added \in Sofar(c, k - 1)
    BY <2>1 DEF Sofar
  <2>3. c.joins[k].added \notin Sofar(c, k - 1)
    BY <1>1 DEF SqlOK
  <2> QED
    BY <2>2, <2>3
<1>3. \A i \in 1..n : c.joins[i].added # c.root
  BY <1>1 DEF SqlOK, Sofar
<1>4. \A i, k \in 1..n : i < k \/ k < i \/ i = k
  BY <1>1
<1> QED
  BY <1>1, <1>2, <1>3, <1>4

\* The rows of SQL that passes the comparison are the rows of the plan.
LEMMA ApprovedRows ==
    ASSUME PlanSetting, NEW p, PlanOK(p), NEW c, SqlOK(c),
           check_semantic_conformance(p, c), NEW d
    PROVE  ResultRows(c, d) = PlanRows(p, d)
<1>1. From \in [Rels -> Entities] /\ To \in [Rels -> Entities] /\ Null \notin Rows /\ Null \notin Int
  BY DEF PlanSetting
<1>2. PICK n \in Nat : n = Len(c.joins) /\ DOMAIN c.joins = 1..n
  BY <1>1, SqlOKIs
<1>3. /\ c.at \in 0..n /\ \A t \in c.terms : TermOK(t)
      /\ c.root \in Entities /\ p.entities = SqlEntities(c)
      /\ (c.at = 0 \/ c.terms = {} \/ c.joins[c.at].type = "inner")
      /\ _check_relationships(p, c) /\ _check_predicates(p, c)
  BY <1>2 DEF SqlOK, check_semantic_conformance, ResidualsAllowed
<1>4. p.entities = Sofar(c, n)
  BY <1>2, <1>3 DEF SqlEntities, Sofar
<1>5. /\ \A r \in DOMAIN p.joins : \E i \in 1..n : CarriesOut(p, r, c, i)
      /\ \A i \in 1..n : \E r \in DOMAIN p.joins : CarriesOut(p, r, c, i)
  BY <1>1, <1>2, <1>3, JoinsAsCompared
<1>6. /\ \A i \in 1..n : c.joins[i].added # c.root
      /\ \A i, k \in 1..n : c.joins[i].added = c.joins[k].added => i = k
  BY <1>1, <1>2, AddedOnce
<1>7. \A i \in 1..n : c.joins[i].type = "left" => On(c, i) = {}
  BY <1>3 DEF On
\* A table is on the nullable side of the plan if its join is a LEFT JOIN.
<1>8. NullableEnds(p) = {Nullable(p, r) : r \in {q \in DOMAIN p.joins : IsLeft(p.joins[q])}}
  BY DEF NullableEnds
<1>9. c.root \notin NullableEnds(p)
  <2> SUFFICES ASSUME NEW r \in DOMAIN p.joins, IsLeft(p.joins[r]), Nullable(p, r) = c.root PROVE FALSE
    BY <1>8
  <2>1. PICK i \in 1..n : CarriesOut(p, r, c, i)
    BY <1>5
  <2> QED
    BY <1>6, <2>1 DEF CarriesOut
<1>10. ASSUME NEW i \in 1..n, c.joins[i].type # "left" PROVE c.joins[i].added \notin NullableEnds(p)
  <2> SUFFICES ASSUME NEW r \in DOMAIN p.joins, IsLeft(p.joins[r]), Nullable(p, r) = c.joins[i].added PROVE FALSE
    BY <1>8
  <2>1. PICK k \in 1..n : CarriesOut(p, r, c, k)
    BY <1>5
  <2>2. c.joins[k].added = c.joins[i].added /\ c.joins[k].type = "left"
    BY <2>1 DEF CarriesOut
  <2> QED
    BY <1>6, <1>10, <2>2
<1>11. ASSUME NEW i \in 1..n, c.joins[i].type = "left" PROVE c.joins[i].added \in NullableEnds(p)
  BY <1>5, <1>8, <1>11 DEF CarriesOut
<1> DEFINE ons(x) == \A i \in 1..n : \A t \in On(c, i) : TermHolds(t, x)
           wheres(x) == c.at > 0 \/ \A t \in c.terms : TermHolds(t, x)
<1>12. \A x : ons(x) /\ wheres(x) <=> \A t \in PlanTerms(p) : TermHolds(t, x)
  <2> SUFFICES ASSUME NEW x PROVE ons(x) /\ wheres(x) <=> \A t \in c.terms : TermHolds(t, x)
    BY <1>1, <1>3, FiltersAgree
  <2>1. CASE c.at = 0
    <3>1. \A i \in 1..n : On(c, i) = {}
      BY <2>1 DEF On
    <3> QED
      BY <2>1, <3>1
  <2>2. CASE c.at # 0
    <3>1. c.at > 0 /\ c.at \in 1..n
      BY <1>3, <2>2
    <3>2. \A i \in 1..n : On(c, i) = IF i = c.at THEN c.terms ELSE {}
      BY DEF On
    <3> QED
      BY <3>1, <3>2
  <2> QED
    BY <2>1, <2>2
<1>13. ResultRows(c, d) = {x \in RowsThrough(c, d, n) : wheres(x)}
  <2>1. FromRows(c, d) = RowsThrough(c, d, n)
    BY <1>1, <1>2, RowsFromJoins
  <2>2. c.at > 0 \/ c.at = 0
    BY <1>3
  <2> QED
    BY <2>1, <2>2 DEF ResultRows
<1> HIDE DEF ons, wheres
<1>14. ASSUME NEW x \in AllRows,
              \A i \in 1..n : c.joins[i].type # "left" => x[c.joins[i].added] # Null
       PROVE  (\A i \in 1..n : LetThrough(c, d, i, x))
              <=> (\A r \in DOMAIN p.joins : Crosses(p, d, r, x)) /\ ons(x)
  <2>1. \A r \in DOMAIN p.joins, i \in 1..n : CarriesOut(p, r, c, i) =>
          (LetThrough(c, d, i, x) <=> Crosses(p, d, r, x) /\ \A t \in On(c, i) : TermHolds(t, x))
    <3> SUFFICES ASSUME NEW r \in DOMAIN p.joins, NEW i \in 1..n, CarriesOut(p, r, c, i)
                 PROVE  LetThrough(c, d, i, x) <=> Crosses(p, d, r, x) /\ \A t \in On(c, i) : TermHolds(t, x)
      OBVIOUS
    <3>1. IsLeft(p.joins[r]) \/ x[c.joins[i].added] # Null
      BY <1>14 DEF CarriesOut
    <3> QED
      BY <1>1, <1>2, <1>7, <3>1, ThroughIsAcross
  <2> QED
    BY <1>5, <2>1 DEF ons
<1>15. \A e \in p.entities : e = c.root \/ \E i \in 1..n : e = c.joins[i].added
  BY <1>4 DEF Sofar
<1>16. c.root \in p.entities /\ \A i \in 1..n : c.joins[i].added \in p.entities
  BY <1>4 DEF Sofar
<1>17. ASSUME NEW x \in ResultRows(c, d) PROVE x \in PlanRows(p, d)
  <2>1. /\ x \in AllRows /\ wheres(x) /\ x[c.root] # Null
        /\ \A e \in Entities \ p.entities : x[e] = Null
        /\ \A i \in 1..n : LetThrough(c, d, i, x)
    BY <1>4, <1>13 DEF RowsThrough
  <2>2. \A i \in 1..n : c.joins[i].type # "left" => x[c.joins[i].added] # Null
    BY <2>1 DEF LetThrough
  <2>3. (\A r \in DOMAIN p.joins : Crosses(p, d, r, x)) /\ ons(x)
    BY <1>14, <2>1, <2>2
  <2>4. \A e \in p.entities \ NullableEnds(p) : x[e] # Null
    <3> SUFFICES ASSUME NEW e \in p.entities, e \notin NullableEnds(p) PROVE x[e] # Null
      OBVIOUS
    <3>1. CASE e = c.root
      BY <2>1, <3>1
    <3>2. CASE \E i \in 1..n : e = c.joins[i].added
      <4>1. PICK i \in 1..n : e = c.joins[i].added
        BY <3>2
      <4>2. c.joins[i].type # "left"
        BY <1>11, <4>1
      <4> QED
        BY <2>2, <4>1, <4>2
    <3> QED
      BY <1>15, <3>1, <3>2
  <2>5. \A t \in PlanTerms(p) : TermHolds(t, x)
    BY <1>12, <2>1, <2>3
  <2> QED
    BY <2>1, <2>3, <2>4, <2>5, PlanRowsIs
<1>18. ASSUME NEW x \in PlanRows(p, d) PROVE x \in ResultRows(c, d)
  <2>1. /\ x \in AllRows
        /\ \A e \in Entities \ p.entities : x[e] = Null
        /\ \A e \in p.entities \ NullableEnds(p) : x[e] # Null
        /\ \A r \in DOMAIN p.joins : Crosses(p, d, r, x)
        /\ \A t \in PlanTerms(p) : TermHolds(t, x)
    BY PlanRowsIs
  <2>2. x[c.root] # Null /\ \A i \in 1..n : c.joins[i].type # "left" => x[c.joins[i].added] # Null
    BY <1>9, <1>10, <1>16, <2>1
  <2>3. ons(x) /\ wheres(x)
    BY <1>12, <2>1
  <2>4. \A i \in 1..n : LetThrough(c, d, i, x)
    BY <1>14, <2>1, <2>2, <2>3
  <2> QED
    BY <1>4, <1>13, <2>1, <2>2, <2>3, <2>4 DEF RowsThrough
<1> QED
  BY <1>17, <1>18

-----------------------------------------------------------------------------
(* The SQL that is checked joins one table after the other                 *)

\* The tables that an order of joins has added
Tables(root, order, k) == {root} \cup {order[j].added : j \in 1..k}

\* A step joins a relationship of the plan, the nullable side of a LEFT one.
FollowsPlan(j, joins) ==
    /\ j.rel \in DOMAIN joins /\ j.type = joins[j.rel]
    /\ j.added \in Ends(j.rel)
    /\ j.type = "left" => j.added = To[j.rel]
    /\ j.type = "left_reverse" => j.added = From[j.rel]

\* What selected_join_order keeps while it traverses
Traversed(root, joins, s) ==
    /\ s.pending \subseteq DOMAIN joins
    /\ s.order \in Seq(JoinStep)
    /\ s.avail = Tables(root, s.order, Len(s.order))
    /\ \A i \in 1..Len(s.order) :
          /\ s.order[i].added \notin Tables(root, s.order, i - 1)
          /\ Ends(s.order[i].rel) \subseteq Tables(root, s.order, i)
          /\ FollowsPlan(s.order[i], joins)
    /\ \A r \in DOMAIN joins : r \in s.pending \/ \E i \in 1..Len(s.order) : s.order[i].rel = r

\* A round that adds an entity with a pending relationship that can be joined
Joins(s, t, joins, r, added) ==
    /\ r \in s.pending /\ CanJoin(r, joins[r], s.avail)
    /\ added = IF From[r] \in s.avail THEN To[r] ELSE From[r]
    /\ added \in Entities \ s.avail
    /\ Ends(r) \subseteq s.avail \cup {added}
    /\ t.avail = s.avail \cup {added} /\ t.pending = s.pending \ {r}
    /\ t.order = Append(s.order, [rel |-> r, type |-> joins[r], added |-> added])

\* The state once relationship r is joined
AfterJoining(s, joins, r) ==
    LET added == IF From[r] \in s.avail THEN To[r] ELSE From[r]
    IN  [avail |-> s.avail \cup {added}, pending |-> s.pending \ {r},
         order |-> Append(s.order, [rel |-> r, type |-> joins[r], added |-> added])]

\* A round joins one relationship, unless there is none to join.
LEMMA RoundJoins ==
    ASSUME PlanSetting, NEW joins, DOMAIN joins \subseteq Rels,
           NEW s, s.pending \subseteq DOMAIN joins, NEW t, t = JoinRound(s, joins)
    PROVE  \/ t = s /\ ~ \E r \in s.pending : CanJoin(r, joins[r], s.avail)
           \/ \E r, added : Joins(s, t, joins, r, added)
<1> DEFINE fit == {r \in s.pending : CanJoin(r, joins[r], s.avail)}
<1>1. CASE fit = {}
  BY <1>1 DEF JoinRound
<1>2. CASE fit # {}
  <2>1. PICK r : r = CHOOSE q \in fit : \A o \in fit : q <= o
    OBVIOUS
  <2>2. fit \subseteq Nat
    BY DEF PlanSetting
  <2>3. r \in fit
    <3> HIDE DEF fit
    <3>1. \E q \in fit : \A o \in fit : q <= o
      BY <1>2, <2>2, LeastNatural
    <3> QED
      BY <2>1, <3>1
  <2>4. PICK added : added = IF From[r] \in s.avail THEN To[r] ELSE From[r]
    OBVIOUS
  <2>5. PICK order : order = Append(s.order, [rel |-> r, type |-> joins[r], added |-> added])
    OBVIOUS
  <2>6. t = [avail |-> s.avail \cup {added}, pending |-> s.pending \ {r}, order |-> order]
    <3>1. t = AfterJoining(s, joins, CHOOSE q \in fit : \A o \in fit : q <= o)
      BY <1>2 DEF JoinRound, AfterJoining
    <3>2. t = AfterJoining(s, joins, r)
      BY <2>1, <3>1, Zenon
    <3> QED
      BY <2>4, <2>5, <3>2, Zenon DEF AfterJoining
  <2>7. r \in Rels /\ r \in s.pending /\ CanJoin(r, joins[r], s.avail)
    BY <2>3
  <2>8. From[r] \in Entities /\ To[r] \in Entities
    BY <2>7 DEF PlanSetting
  <2>9. added \notin s.avail /\ Ends(r) \subseteq s.avail \cup {added} /\ added \in Entities
    BY <2>4, <2>7, <2>8 DEF CanJoin, Ends
  <2>10. t.avail = s.avail \cup {added} /\ t.pending = s.pending \ {r} /\ t.order = order
    BY <2>6
  <2>11. Joins(s, t, joins, r, added)
    <3> HIDE DEF fit
    <3> QED
      BY <2>4, <2>5, <2>7, <2>9, <2>10 DEF Joins
  <2> QED
    BY <2>11
<1> QED
  BY <1>1, <1>2

\* A round keeps what the traversal keeps.
LEMMA RoundTraverses ==
    ASSUME PlanSetting, NEW root \in Entities, NEW joins, DOMAIN joins \subseteq Rels,
           \A r \in DOMAIN joins : joins[r] \in {"inner", "left", "left_reverse"},
           NEW s, Traversed(root, joins, s)
    PROVE  Traversed(root, joins, JoinRound(s, joins))
<1>1. PICK u : u = JoinRound(s, joins)
  OBVIOUS
<1>2. CASE u = s
  BY <1>1, <1>2
<1>3. CASE u # s
  <2>1. PICK r, added : Joins(s, u, joins, r, added)
    BY <1>1, <1>3, RoundJoins DEF Traversed
  <2>2. /\ r \in s.pending /\ CanJoin(r, joins[r], s.avail)
        /\ added = IF From[r] \in s.avail THEN To[r] ELSE From[r]
        /\ added \notin s.avail /\ added \in Entities
        /\ Ends(r) \subseteq s.avail \cup {added}
        /\ u.avail = s.avail \cup {added} /\ u.pending = s.pending \ {r}
        /\ u.order = Append(s.order, [rel |-> r, type |-> joins[r], added |-> added])
    BY <2>1 DEF Joins
  <2>3. PICK step, order : step = [rel |-> r, type |-> joins[r], added |-> added] /\ order = Append(s.order, step)
    OBVIOUS
  <2>4. r \in DOMAIN joins /\ r \in Rels /\ joins[r] \in {"inner", "left", "left_reverse"}
        /\ CanJoin(r, joins[r], s.avail)
    BY <2>2 DEF Traversed
  <2>5. FollowsPlan(step, joins)
    <3>1. step.rel = r /\ step.type = joins[r] /\ step.added = added
      BY <2>3
    <3>2. /\ joins[r] = "left" => From[r] \in s.avail
          /\ joins[r] = "left_reverse" => From[r] \notin s.avail
      BY <2>4 DEF CanJoin
    <3> QED
      BY <2>2, <2>4, <3>1, <3>2 DEF FollowsPlan, Ends
  <2>6. step \in JoinStep
    BY <2>2, <2>3, <2>4 DEF JoinStep
  <2>7. s.order \in Seq(JoinStep)
    BY DEF Traversed
  <2>8. PICK n \in Nat : n = Len(s.order)
    BY <2>7, LenProperties
  <2>9. order \in Seq(JoinStep) /\ Len(order) = n + 1 /\ order[n + 1] = step
         /\ \A i \in 1..n : order[i] = s.order[i]
    BY <2>3, <2>6, <2>7, <2>8
  <2>10. \A k \in 0..n : Tables(root, order, k) = Tables(root, s.order, k)
    <3>1. \A k \in 0..n : \A j \in 1..k : j \in 1..n
      OBVIOUS
    <3> QED
      BY <2>9, <3>1 DEF Tables
  <2>11. Tables(root, order, n + 1) = Tables(root, order, n) \cup {added}
    <3>1. 1..(n + 1) = 1..n \cup {n + 1}
      OBVIOUS
    <3> QED
      BY <2>3, <2>9, <3>1 DEF Tables
  <2>12. s.avail = Tables(root, order, n)
    BY <2>8, <2>10 DEF Traversed
  <2>13. ASSUME NEW i \in 1..(n + 1)
         PROVE  /\ order[i].added \notin Tables(root, order, i - 1)
                /\ Ends(order[i].rel) \subseteq Tables(root, order, i)
                /\ FollowsPlan(order[i], joins)
    <3>1. CASE i = n + 1
      <4>1. i - 1 = n /\ order[i] = step /\ step.added = added /\ step.rel = r
        BY <2>3, <2>9, <3>1
      <4> QED
        BY <2>2, <2>5, <2>11, <2>12, <3>1, <4>1
    <3>2. CASE i # n + 1
      <4>1. i \in 1..n /\ i \in 0..n /\ i - 1 \in 0..n
        BY <3>2
      <4> QED
        BY <2>8, <2>9, <2>10, <4>1 DEF Traversed
    <3> QED
      BY <3>1, <3>2
  <2>14. s.pending \subseteq DOMAIN joins
    BY DEF Traversed
  <2>15. u.avail = s.avail \cup {added} /\ u.pending = s.pending \ {r} /\ u.order = order
    BY <2>2, <2>3
  <2>16. \A q \in DOMAIN joins : q \in s.pending \ {r} \/ \E i \in 1..(n + 1) : order[i].rel = q
    <3>1. order[n + 1].rel = r /\ n + 1 \in 1..(n + 1) /\ \A i \in 1..n : i \in 1..(n + 1)
      BY <2>3, <2>9
    <3>2. \A q \in DOMAIN joins : q \in s.pending \/ \E i \in 1..n : s.order[i].rel = q
      BY <2>8 DEF Traversed
    <3> QED
      BY <2>9, <3>1, <3>2
  <2>17. Traversed(root, joins, u)
    <3>1. s.pending \ {r} \subseteq DOMAIN joins /\ s.avail \cup {added} = Tables(root, order, n + 1)
      BY <2>11, <2>12, <2>14
    <3> QED
      BY <2>9, <2>13, <2>15, <2>16, <3>1 DEF Traversed
  <2> QED
    BY <1>1, <2>17
<1> QED
  BY <1>2, <1>3

\* Every traversal is one.
LEMMA TraversalHolds ==
    ASSUME PlanSetting, NEW root \in Entities, NEW joins, DOMAIN joins \subseteq Rels,
           \A r \in DOMAIN joins : joins[r] \in {"inner", "left", "left_reverse"}
    PROVE  Traversed(root, joins, TraverseFrom(root, joins))
<1>1. PICK n \in Nat : n = Cardinality(DOMAIN joins)
  <2>1. IsFiniteSet(DOMAIN joins)
    BY FS_Subset DEF PlanSetting
  <2> QED
    BY <2>1, FS_CardinalityType
<1>2. PICK s : /\ TraverseFrom(root, joins) = s[n]
               /\ s[0] = [avail |-> {root}, pending |-> DOMAIN joins, order |-> <<>>]
               /\ \A k \in 1..n : s[k] = JoinRound(s[k - 1], joins)
  BY <1>1, TraverseIs
<1> DEFINE G == {k \in 0..n : Traversed(root, joins, s[k])}
<1>3. Traversed(root, joins, s[0])
  <2>1. s[0].avail = {root} /\ s[0].pending = DOMAIN joins /\ s[0].order = <<>>
    BY <1>2
  <2>2. <<>> \in Seq(JoinStep) /\ Len(<<>>) = 0 /\ 1..0 = {}
    BY EmptySeq
  <2>3. Tables(root, <<>>, 0) = {root}
    BY <2>2 DEF Tables
  <2> QED
    BY <2>1, <2>2, <2>3 DEF Traversed
<1>4. \A k \in 1..n : k - 1 \in G => k \in G
  <2> SUFFICES ASSUME NEW k \in 1..n, Traversed(root, joins, s[k - 1])
               PROVE  Traversed(root, joins, s[k])
    OBVIOUS
  <2> QED
    BY <1>2, RoundTraverses
<1>5. 0 \in G
  BY <1>3
<1>6. \A k \in 0..n : k \in G
  <2> HIDE DEF G
  <2> QED
    BY <1>4, <1>5, RoundByRound
<1> QED
  BY <1>2, <1>6

\* The order that is selected is a traversal of the whole plan.
LEMMA SelectedIs ==
    ASSUME PlanSetting, NEW p, PlanOK(p), selected_join_order(p) # Null
    PROVE  \E root, s :
              /\ root \in p.entities
              /\ Traversed(root, p.joins, s) /\ s.pending = {} /\ s.avail = p.entities
              /\ selected_join_order(p).root = root /\ selected_join_order(p).order = s.order
<1> DEFINE works(e) == /\ TraverseFrom(e, p.joins).pending = {}
                       /\ TraverseFrom(e, p.joins).avail = p.entities
           roots == {e \in p.entities : works(e)}
<1>1. PICK o, root : o = selected_join_order(p) /\ root = CHOOSE e \in roots : \A q \in roots : e <= q
  OBVIOUS
<1>2. o = IF roots = {} THEN Null
          ELSE [root |-> root, order |-> TraverseFrom(root, p.joins).order]
  BY <1>1 DEF selected_join_order
<1>3. p.entities \subseteq Entities /\ DOMAIN p.joins \subseteq Rels
      /\ \A r \in DOMAIN p.joins : p.joins[r] \in {"inner", "left", "left_reverse"}
  BY DEF PlanOK
<1>4. roots \subseteq p.entities /\ roots \subseteq Nat
  BY <1>3 DEF PlanSetting
<1>5. \A e \in roots : works(e)
  OBVIOUS
<1> HIDE DEF works, roots
<1>6. roots # {}
  BY <1>1, <1>2
<1>7. root \in roots
  <2>1. \E e \in roots : \A q \in roots : e <= q
    BY <1>4, <1>6, LeastNatural
  <2> QED
    BY <1>1, <2>1
<1>8. PICK s : s = TraverseFrom(root, p.joins)
  OBVIOUS
<1>9. root \in Entities /\ Traversed(root, p.joins, s)
  BY <1>3, <1>4, <1>7, <1>8, TraversalHolds
<1>10. o.root = root /\ o.order = s.order
  BY <1>2, <1>6, <1>8
<1>11. s.pending = {} /\ s.avail = p.entities
  BY <1>5, <1>7, <1>8 DEF works
<1> QED
  BY <1>1, <1>4, <1>7, <1>9, <1>10, <1>11

\* The renderer's SQL is such SQL.
LEMMA RenderedSqlOK ==
    ASSUME PlanSetting, NEW p, PlanOK(p), selected_join_order(p) # Null,
           NEW c, c = Rendered(p)
    PROVE  SqlOK(c)
<1>1. PICK o : o = selected_join_order(p)
  OBVIOUS
<1>2. PICK root, s : root \in p.entities /\ Traversed(root, p.joins, s) /\ o.root = root /\ o.order = s.order
  BY <1>1, SelectedIs
<1>8. root \in Entities /\ Traversed(root, p.joins, s)
  BY <1>2 DEF PlanOK
<1>10. PICK n \in Nat : n = Len(s.order) /\ DOMAIN s.order = 1..n
  BY <1>8, LenProperties DEF Traversed
<1>11. c.root = root /\ c.at = 0 /\ c.terms = RenderedTerms(p) /\ c.joins = RenderedJoins(p)
  BY <1>1, <1>2 DEF Rendered
<1>12. c.joins = [i \in 1..n |-> [s.order[i] EXCEPT !.type = SqlType(s.order[i].type)]]
  BY <1>1, <1>2, <1>10, <1>11 DEF RenderedJoins
<1>13. ASSUME NEW i \in 1..n
       PROVE  /\ c.joins[i].rel = s.order[i].rel /\ c.joins[i].added = s.order[i].added
              /\ c.joins[i] \in [rel : Rels, type : {"inner", "left"}, added : Entities]
  <2>1. s.order[i] \in JoinStep
    BY <1>8, <1>10, ElementOfSeq DEF Traversed
  <2>2. PICK j : j = s.order[i] /\ j \in [rel : Rels, type : {"inner", "left", "left_reverse"}, added : Entities]
    BY <2>1 DEF JoinStep
  <2>3. SqlType(j.type) \in {"inner", "left"}
    BY DEF SqlType
  <2>4. c.joins[i] = [j EXCEPT !.type = SqlType(j.type)]
    BY <1>12, <2>2
  <2> QED
    BY <2>2, <2>3, <2>4
<1>14. c.joins \in Seq([rel : Rels, type : {"inner", "left"}, added : Entities]) /\ Len(c.joins) = n
  <2>1. c.joins \in [1..n -> [rel : Rels, type : {"inner", "left"}, added : Entities]]
    BY <1>12, <1>13
  <2>2. PICK S, js : S = [rel : Rels, type : {"inner", "left"}, added : Entities] /\ js = c.joins
    OBVIOUS
  <2>3. js \in [1..n -> S]
    BY <2>1, <2>2
  <2>4. js \in Seq(S) /\ DOMAIN js = 1..n
    BY <2>3, SeqDef
  <2>5. Len(js) = n
    BY <2>4, LenProperties
  <2> QED
    BY <2>2, <2>4, <2>5
<1>15. \A k \in 0..n : Sofar(c, k) = Tables(root, s.order, k)
  <2>1. \A k \in 0..n : \A j \in 1..k : j \in 1..n
    OBVIOUS
  <2> QED
    BY <1>11, <1>13, <2>1 DEF Sofar, Tables
<1>16. ASSUME NEW i \in 1..n
       PROVE  c.joins[i].added \notin Sofar(c, i - 1) /\ Ends(c.joins[i].rel) \subseteq Sofar(c, i)
  <2>1. i \in 0..n /\ i - 1 \in 0..n
    OBVIOUS
  <2> QED
    BY <1>8, <1>10, <1>13, <1>15, <2>1 DEF Traversed
<1>17. \A t \in c.terms : TermOK(t)
  <2>1. \A q \in p.preds \cup p.filters : TermOK(Atom(q))
    BY AtomIs DEF PlanOK
  <2>2. \A g \in p.groups : TermOK(g)
    BY DEF PlanOK
  <2> QED
    BY <1>11, <2>1, <2>2 DEF RenderedTerms
<1>18. c.root \in Entities /\ c.at \in 0..Len(c.joins) /\ ~ (c.at > 0)
  BY <1>8, <1>11, <1>14
<1> QED
  BY <1>14, <1>16, <1>17, <1>18 DEF SqlOK

\* So is any other SQL over the catalog.
LEMMA WrittenSqlOK ==
    ASSUME PlanSetting, NEW p, PlanOK(p), p.entities # {}, NEW c \in WrittenSql(p)
    PROVE  /\ SqlOK(c) /\ Len(c.joins) + 1 = Cardinality(p.entities)
           /\ c.root \in p.entities /\ \A i \in 1..Len(c.joins) : c.joins[i].added \in p.entities
<1>1. PICK n \in Nat : n = Cardinality(p.entities) - 1 /\ n + 1 = Cardinality(p.entities)
  <2>1. IsFiniteSet(p.entities)
    BY FS_Subset DEF PlanSetting, PlanOK
  <2>2. Cardinality(p.entities) \in Nat /\ Cardinality(p.entities) # 0
    BY <2>1, FS_CardinalityType, FS_EmptySet
  <2> QED
    BY <2>2
<1> DEFINE tables == {s \in [1..Cardinality(p.entities) -> p.entities] :
                        \A i, j \in DOMAIN s : i # j => s[i] # s[j]}
           sofar(s, i) == {s[j] : j \in 1..i}
           ons(s) == {f \in [1..Len(s) - 1 -> Rels \X {"inner", "left"}] :
                        \A i \in DOMAIN f : Ends(f[i][1]) \subseteq sofar(s, i + 1)}
           counts == {Null} \cup (IF p.metric THEN [e : {p.subject}, f : Fields] ELSE {})
           from(s, f) == [i \in DOMAIN f |-> [rel |-> f[i][1], type |-> f[i][2], added |-> s[i + 1]]]
           readable(s, at, w) == \A t \in w : {q.e : q \in UNION ToSet(t)} \subseteq sofar(s, at + 1)
           filters(s) == {a \in (0..(Cardinality(p.entities) - 1)) \X Writes[p.entities] :
                            a[1] > 0 => a[2] # {} /\ readable(s, a[1], a[2])}
           texts(s) == {[root |-> s[1], joins |-> from(s, f), at |-> a[1], terms |-> a[2], count |-> m]
                          : f \in ons(s), a \in filters(s), m \in counts}
<1>2. PICK s \in tables : c \in texts(s)
  <2>1. WrittenSql(p) = UNION {texts(s) : s \in tables}
    BY DEF WrittenSql
  <2> HIDE DEF texts, tables
  <2> QED
    BY <2>1
<1>3. PICK f \in ons(s), at \in 0..(Cardinality(p.entities) - 1), w \in Writes[p.entities] :
          /\ at > 0 => readable(s, at, w)
          /\ c.root = s[1] /\ c.joins = from(s, f) /\ c.at = at /\ c.terms = w
  <2>1. PICK f \in ons(s), a \in filters(s) :
            c.root = s[1] /\ c.joins = from(s, f) /\ c.at = a[1] /\ c.terms = a[2]
    <3> HIDE DEF ons, from, counts, filters, tables
    <3> QED
      BY <1>2
  <2> HIDE DEF ons, from, counts, readable, sofar, tables
  <2> QED
    BY <2>1
<1>4. /\ s \in [1..(n + 1) -> p.entities]
      /\ \A i, j \in 1..(n + 1) : i # j => s[i] # s[j]
      /\ at \in 0..n
  BY <1>1
<1>5. Len(s) = n + 1
  <2>1. PICK m \in Nat : m = n + 1
    OBVIOUS
  <2>2. s \in Seq(p.entities) /\ DOMAIN s = 1..m
    BY <1>4, <2>1, SeqDef
  <2> QED
    BY <2>1, <2>2, LenProperties
<1>6. /\ f \in [1..n -> Rels \X {"inner", "left"}]
      /\ \A i \in 1..n : Ends(f[i][1]) \subseteq sofar(s, i + 1)
  <2>1. Len(s) - 1 = n
    BY <1>5
  <2> HIDE DEF sofar
  <2> QED
    BY <2>1
<1>7. at > 0 => \A t \in w : \A b \in ToSet(t) : \A q \in b : q.e \in sofar(s, at + 1)
  <2>1. at > 0 => \A t \in w : {q.e : q \in UNION ToSet(t)} \subseteq sofar(s, at + 1)
    BY <1>3
  <2> HIDE DEF sofar
  <2> QED
    BY <2>1
<1>8. PICK js : js = c.joins
  OBVIOUS
<1>9. js = [i \in 1..n |-> [rel |-> f[i][1], type |-> f[i][2], added |-> s[i + 1]]]
  BY <1>3, <1>6, <1>8
<1>10. c.root = s[1] /\ c.at = at /\ c.terms = w
  BY <1>3
<1> HIDE DEF tables, sofar, ons, counts, from, readable, filters, texts
<1>11. ASSUME NEW i \in 1..n
       PROVE  /\ js[i].rel = f[i][1] /\ js[i].added = s[i + 1] /\ i + 1 \in 1..(n + 1)
              /\ js[i] \in [rel : Rels, type : {"inner", "left"}, added : Entities]
  <2>1. i + 1 \in 1..(n + 1)
    OBVIOUS
  <2>2. s[i + 1] \in Entities /\ f[i][1] \in Rels /\ f[i][2] \in {"inner", "left"}
    BY <1>4, <1>6, <2>1 DEF PlanOK
  <2> QED
    BY <1>9, <2>1, <2>2
<1>12. js \in Seq([rel : Rels, type : {"inner", "left"}, added : Entities]) /\ Len(js) = n
  <2>1. PICK S : S = [rel : Rels, type : {"inner", "left"}, added : Entities]
    OBVIOUS
  <2>2. js \in [1..n -> S]
    BY <1>9, <1>11, <2>1
  <2>3. js \in Seq(S) /\ DOMAIN js = 1..n
    BY <2>2, SeqDef
  <2> QED
    BY <2>1, <2>3, LenProperties
<1>13. ASSUME NEW k \in 0..n PROVE Sofar(c, k) = sofar(s, k + 1)
  <2>1. ASSUME NEW j \in 1..k PROVE c.joins[j].added = s[j + 1]
    <3>1. j \in 1..n
      OBVIOUS
    <3> QED
      BY <1>8, <1>11, <3>1
  <2>2. \A e : e \in Sofar(c, k) <=> e = s[1] \/ \E j \in 1..k : e = s[j + 1]
    BY <1>10, <2>1 DEF Sofar
  <2>3. \A j \in 1..(k + 1) : j = 1 \/ (j - 1 \in 1..k /\ (j - 1) + 1 = j)
    OBVIOUS
  <2>4. 1 \in 1..(k + 1) /\ \A j \in 1..k : j + 1 \in 1..(k + 1)
    OBVIOUS
  <2>5. \A e : e \in sofar(s, k + 1) <=> \E j \in 1..(k + 1) : e = s[j]
    BY DEF sofar
  <2>6. \A e : e \in Sofar(c, k) <=> e \in sofar(s, k + 1)
    BY <2>2, <2>3, <2>4, <2>5
  <2> QED
    BY <2>6
<1>14. ASSUME NEW i \in 1..n
       PROVE  js[i].added \notin Sofar(c, i - 1) /\ Ends(js[i].rel) \subseteq Sofar(c, i)
  <2>1. i - 1 \in 0..n /\ i \in 0..n /\ (i - 1) + 1 = i
    OBVIOUS
  <2>2. Sofar(c, i - 1) = sofar(s, i)
    BY <1>13, <2>1
  <2>3. \A j \in 1..i : j \in 1..(n + 1) /\ j # i + 1
    OBVIOUS
  <2>4. \A j \in 1..i : s[j] # s[i + 1]
    BY <1>4, <1>11, <2>3
  <2>5. js[i].added \notin Sofar(c, i - 1)
    BY <1>11, <2>2, <2>4 DEF sofar
  <2>6. Ends(js[i].rel) \subseteq Sofar(c, i)
    BY <1>6, <1>11, <1>13, <2>1
  <2> QED
    BY <2>5, <2>6
<1>15. \A t \in c.terms : TermOK(t)
  BY <1>10 DEF PlanSetting, PlanOK
<1>16. c.at > 0 => \A t \in c.terms : \A b \in ToSet(t) : \A q \in b : q.e \in Sofar(c, c.at)
  BY <1>4, <1>7, <1>10, <1>13
<1>17. c.root \in Entities /\ c.at \in 0..n
  <2>1. 1 \in 1..(n + 1)
    OBVIOUS
  <2> QED
    BY <1>4, <1>10, <2>1 DEF PlanOK
<1>18. SqlOK(c)
  BY <1>8, <1>12, <1>14, <1>15, <1>16, <1>17 DEF SqlOK
<1>19. c.root \in p.entities /\ \A i \in 1..n : js[i].added \in p.entities
  <2>1. 1 \in 1..(n + 1)
    OBVIOUS
  <2> QED
    BY <1>4, <1>10, <1>11, <2>1
<1> QED
  BY <1>1, <1>8, <1>12, <1>18, <1>19

-----------------------------------------------------------------------------
(* Plans to data                                                           *)

\* A plan that is accepted has entities and an order of joins.
LEMMA AcceptedPlan ==
    ASSUME NEW p, Refusal(p) = ""
    PROVE  /\ p.subject \in p.entities /\ selected_join_order(p) # Null
           /\ IsTree(p) /\ p.entities = {p.subject} \cup {q.e : q \in AllPreds(p)} \cup RelEnds(p)
           /\ p.metric => ~ population_may_multiply(p.subject, p) /\ ~ NullExtended(p.subject, p)
BY DEF Refusal

\* What is known of the plan, the SQL and the count at each stage
SqlInv ==
    /\ plan \in SqlPlans
    /\ stage \in {"validated", "approved", "done"} => Refusal(plan) = ""
    /\ stage \in {"approved", "done"} => SqlOK(sql) /\ check_semantic_conformance(plan, sql)
    /\ stage = "done" => data \in LinkData(plan) /\ counted = Counted(sql, data)
    /\ counted # Null => stage = "done"
    /\ reason = IF stage = "proposed" THEN "" ELSE Refusal(plan)

\* What is known at each stage is an invariant.
LEMMA SqlInvHolds ==
    ASSUME PlanSetting
    PROVE  SqlSpec => []SqlInv
<1>1. SqlInit => SqlInv
  BY DEF SqlInit, SqlInv
<1>2. SqlInv /\ [SqlNext]_sqlplanvars => SqlInv'
  <2> SUFFICES ASSUME SqlInv, [SqlNext]_sqlplanvars PROVE SqlInv'
    OBVIOUS
  <2>1. PlanOK(plan)
    BY DEF SqlInv, PlanSetting
  <2>2. CASE Validate
    BY <2>2 DEF Validate, SqlInv
  <2>3. CASE Compile
    <3>1. Refusal(plan) = "" /\ sql' = Rendered(plan) /\ plan' = plan
      BY <2>3 DEF Compile, SqlInv
    <3>2. SqlOK(sql')
      BY <2>1, <3>1, AcceptedPlan, RenderedSqlOK
    <3> QED
      BY <2>3, <3>1, <3>2 DEF Compile, SqlInv
  <2>4. CASE ApproveWritten
    <3>1. Refusal(plan) = "" /\ sql' \in WrittenSql(plan) /\ plan' = plan
          /\ check_semantic_conformance(plan, sql') /\ stage' = "approved"
      BY <2>4 DEF ApproveWritten, SqlInv
    <3>2. plan.entities # {}
      BY <3>1, AcceptedPlan
    <3>3. SqlOK(sql')
      BY <2>1, <3>1, <3>2, WrittenSqlOK
    <3> QED
      BY <2>4, <3>1, <3>3 DEF ApproveWritten, SqlInv
  <2>5. CASE Execute
    BY <2>5 DEF Execute, SqlInv
  <2>6. CASE UNCHANGED sqlplanvars
    BY <2>6 DEF sqlplanvars, SqlInv
  <2> QED
    BY <2>2, <2>3, <2>4, <2>5, <2>6 DEF SqlNext
<1> QED
  BY <1>1, <1>2, PTL DEF SqlSpec

\* check_semantic_conformance: whatever SQL it approves, written by the renderer
\* or by anyone else, returns the rows that the plan means.
THEOREM ApprovedSqlMeansThePlan ==
    ASSUME PlanSetting
    PROVE  SqlSpec => []ConformingMeansPlan
<1>1. SqlInv => ConformingMeansPlan
  <2> SUFFICES ASSUME SqlInv, counted # Null PROVE ResultRows(sql, data) = PlanRows(plan, data)
    BY DEF ConformingMeansPlan
  <2>1. PlanOK(plan) /\ SqlOK(sql) /\ check_semantic_conformance(plan, sql)
    BY DEF SqlInv, PlanSetting
  <2> QED
    BY <2>1, ApprovedRows
<1> QED
  BY <1>1, SqlInvHolds, PTL

-----------------------------------------------------------------------------
(* A row of the plan is known by the row of the metric's entity            *)

\* The order that is selected adds the entity e on the relationship r.
Adds(p, r, e) ==
    \E i \in 1..Len(selected_join_order(p).order) :
        selected_join_order(p).order[i].rel = r /\ selected_join_order(p).order[i].added = e

\* Every relationship adds one of its ends, a LEFT one its nullable end; no
\* entity is added twice.
LEMMA AddsIs ==
    ASSUME PlanSetting, NEW p, PlanOK(p), selected_join_order(p) # Null
    PROVE  /\ \A r \in DOMAIN p.joins : \E e \in Ends(r) : Adds(p, r, e)
           /\ \A r, e : Adds(p, r, e) => r \in DOMAIN p.joins /\ (IsLeft(p.joins[r]) => e = Nullable(p, r))
           /\ \A r, q, e : Adds(p, r, e) /\ Adds(p, q, e) => r = q
           /\ \A r, e : Adds(p, r, e) /\ IsLeft(p.joins[r]) => NullExtended(e, p)
<1>1. PICK order, o : o = selected_join_order(p) /\ order = o.order
  OBVIOUS
<1>2. PICK root, s : root \in p.entities /\ Traversed(root, p.joins, s) /\ s.pending = {} /\ order = s.order
  BY <1>1, SelectedIs
<1>3. PICK n \in Nat : n = Len(order) /\ DOMAIN order = 1..n
  BY <1>2, LenProperties DEF Traversed
<1>4. \A r, e : Adds(p, r, e) <=> \E i \in 1..n : order[i].rel = r /\ order[i].added = e
  BY <1>1, <1>3 DEF Adds
<1>5. \A i \in 1..n : FollowsPlan(order[i], p.joins) /\ order[i].added \notin Tables(root, order, i - 1)
  BY <1>2, <1>3 DEF Traversed
<1>6. \A r \in DOMAIN p.joins : \E i \in 1..n : order[i].rel = r
  BY <1>2, <1>3 DEF Traversed
<1>7. \A r \in DOMAIN p.joins : \E e \in Ends(r) : Adds(p, r, e)
  BY <1>4, <1>5, <1>6 DEF FollowsPlan
<1>8. ASSUME NEW r, NEW e, Adds(p, r, e)
      PROVE  r \in DOMAIN p.joins /\ (IsLeft(p.joins[r]) => e = Nullable(p, r) /\ NullExtended(e, p))
  <2>1. PICK i \in 1..n : order[i].rel = r /\ order[i].added = e
    BY <1>4, <1>8
  <2>2. FollowsPlan(order[i], p.joins)
    BY <1>5
  <2>3. r \in DOMAIN p.joins /\ order[i].type = p.joins[r]
    BY <2>1, <2>2 DEF FollowsPlan
  <2>4. IsLeft(p.joins[r]) => e = Nullable(p, r)
    BY <2>1, <2>2, <2>3 DEF FollowsPlan, IsLeft, Nullable
  <2>5. IsLeft(p.joins[r]) => NullExtended(e, p)
    BY <1>1, <1>3, <2>1, <2>3 DEF NullExtended
  <2> QED
    BY <2>3, <2>4, <2>5
<1>9. ASSUME NEW i \in 1..n, NEW k \in 1..n, order[i].added = order[k].added PROVE i = k
  <2>1. ASSUME NEW j \in 1..n, NEW l \in 1..n, j < l PROVE order[j].added # order[l].added
    <3>1. j \in 1..(l - 1)
      BY <2>1
    <3>2. order[j].added \in Tables(root, order, l - 1)
      BY <3>1 DEF Tables
    <3> QED
      BY <1>5, <3>2
  <2>2. i < k \/ k < i \/ i = k
    OBVIOUS
  <2> QED
    BY <1>9, <2>1, <2>2
<1>10. \A r, q, e : Adds(p, r, e) /\ Adds(p, q, e) => r = q
  BY <1>4, <1>9
<1> QED
  BY <1>7, <1>8, <1>10

\* One relationship walked to one: rows that agree on the end that was visited
\* agree on the other.
LEMMA WalkedToOne ==
    ASSUME PlanSetting, NEW p, PlanOK(p), NEW d \in LinkData(p), NEW r \in DOMAIN p.joins,
           NEW visited, NEW a, NEW b, Ends(r) = {a, b}, a \in visited, b \notin visited,
           ToOne(r, visited),
           NEW x \in AllRows, NEW y \in AllRows, x[a] = y[a],
           Crosses(p, d, r, x), Crosses(p, d, r, y),
           IsLeft(p.joins[r]) /\ Nullable(p, r) = a => x[a] # Null
    PROVE  x[b] = y[b]
<1>1. From[r] \in Entities /\ To[r] \in Entities /\ a # b /\ r \in Rels
      /\ a \in Entities /\ b \in Entities
  <2>1. r \in Rels
    BY DEF PlanOK
  <2>2. From[r] \in Entities /\ To[r] \in Entities
    BY <2>1 DEF PlanSetting
  <2> QED
    BY <2>1, <2>2 DEF Ends
<1>2. Nullable(p, r) \in {a, b}
  BY DEF Nullable, Ends
<1>3. ASSUME NEW u \in AllRows, NEW v \in AllRows, u[a] = v[a],
             Crosses(p, d, r, u), ~ LinkedBy(r, u, d), u[a] # Null \/ Nullable(p, r) # a
      PROVE  u[b] = Null /\ ~ LinkedBy(r, v, d)
  <2>1. Nullable(p, r) = b /\ u[b] = Null /\ \A z \in Rows : ~ LinkedBy(r, [u EXCEPT ![b] = z], d)
    BY <1>2, <1>3 DEF Crosses
  <2>2. ASSUME LinkedBy(r, v, d) PROVE FALSE
    <3>1. v[b] \in Rows
      BY <1>1, <2>2 DEF LinkedBy, Ends, AllRows
    <3>2. PICK w : w = [u EXCEPT ![b] = v[b]]
      OBVIOUS
    <3>3. w[a] = v[a] /\ w[b] = v[b]
      BY <1>1, <1>3, <3>2 DEF AllRows
    <3>4. w[From[r]] = v[From[r]] /\ w[To[r]] = v[To[r]]
      BY <3>3 DEF Ends
    <3>5. LinkedBy(r, w, d)
      BY <2>2, <3>4 DEF LinkedBy
    <3> QED
      BY <2>1, <3>1, <3>2, <3>5
  <2> QED
    BY <2>1, <2>2
<1>4. x[a] # Null \/ Nullable(p, r) # a
  <2>1. IsLeft(p.joins[r]) \/ LinkedBy(r, x, d)
    BY DEF Crosses
  <2>2. LinkedBy(r, x, d) => x[a] # Null
    BY DEF LinkedBy, Ends
  <2> QED
    BY <2>1, <2>2
<1>5. CASE LinkedBy(r, x, d) /\ LinkedBy(r, y, d)
  <2>1. /\ x[From[r]] # Null /\ x[To[r]] # Null /\ d[r][x[From[r]]] = x[To[r]]
        /\ y[From[r]] # Null /\ y[To[r]] # Null /\ d[r][y[From[r]]] = y[To[r]]
    BY <1>5 DEF LinkedBy
  <2>2. (a = From[r] /\ b = To[r]) \/ (a = To[r] /\ b = From[r])
    BY <1>1 DEF Ends
  <2>3. CASE a = From[r] /\ b = To[r]
    BY <2>1, <2>3
  <2>4. CASE a = To[r] /\ b = From[r]
    <3>1. Card[r] = "one_to_one"
      BY <1>1, <2>4 DEF ToOne
    <3>2. d[r] \in LinkColumns(r)
      BY DEF LinkData
    <3>3. \A u, v \in Rows : u # v /\ d[r][u] # Null => d[r][u] # d[r][v]
      BY <3>1, <3>2 DEF LinkColumns
    <3>4. x[b] \in Rows /\ y[b] \in Rows
      BY <1>1, <2>1, <2>4 DEF AllRows
    <3> QED
      BY <2>1, <2>4, <3>3, <3>4
  <2> QED
    BY <2>2, <2>3, <2>4
<1>6. CASE ~ LinkedBy(r, x, d)
  <2>1. x[b] = Null /\ ~ LinkedBy(r, y, d)
    BY <1>3, <1>4, <1>6
  <2>2. y[b] = Null
    BY <1>3, <1>4, <2>1
  <2> QED
    BY <2>1, <2>2
<1>7. CASE ~ LinkedBy(r, y, d)
  <2>1. y[b] = Null /\ ~ LinkedBy(r, x, d)
    BY <1>3, <1>4, <1>7
  <2>2. x[b] = Null
    BY <1>3, <1>4, <2>1
  <2> QED
    BY <2>1, <2>2
<1> QED
  BY <1>5, <1>6, <1>7

\* The states of population_may_multiply's walk
WalkState == [visited : SUBSET Entities, edges : SUBSET Rels, multiplies : BOOLEAN]

\* What the walk over the grain keeps: the rows of the plan that agree on the
\* metric's entity agree on all that was visited, and a visited entity is there
\* in every row as long as the relationship that adds it is not walked.
Walked(p, d, e, s) ==
    /\ s.edges \subseteq DOMAIN p.joins
    /\ e \in s.visited
    /\ \A r \in DOMAIN p.joins : r \in s.edges \/ Ends(r) \subseteq s.visited
    /\ \A x, y \in PlanRows(p, d) : x[e] = y[e] => Same(x, y, s.visited)
    /\ \A x \in PlanRows(p, d), a \in s.visited, r \in s.edges : Adds(p, r, a) => x[a] # Null

\* A round of the walk takes one relationship, or finds that rows may multiply.
LEMMA RoundWalks ==
    ASSUME PlanSetting, NEW p, PlanOK(p), selected_join_order(p) # Null, NEW d \in LinkData(p),
           NEW e, NEW s \in WalkState, NEW t, t = WalkRound(s)
    PROVE  /\ t \in WalkState /\ (s.multiplies => t.multiplies)
           /\ t.multiplies \/ \E r \in s.edges : t.edges = s.edges \ {r}
           /\ ~ t.multiplies /\ Walked(p, d, e, s) => Walked(p, d, e, t)
<1> DEFINE fit == {r \in s.edges : (From[r] \in s.visited) # (To[r] \in s.visited)}
<1>1. PICK r : r = CHOOSE q \in fit : \A o \in fit : q <= o
  OBVIOUS
<1>2. t = IF fit = {} \/ s.multiplies THEN [s EXCEPT !.multiplies = TRUE]
          ELSE [visited |-> s.visited \cup Ends(r), edges |-> s.edges \ {r},
                multiplies |-> ~ ToOne(r, s.visited)]
  BY <1>1 DEF WalkRound
<1>3. s.visited \subseteq Entities /\ s.edges \subseteq Rels /\ s.multiplies \in BOOLEAN
  BY DEF WalkState
<1>4. CASE fit = {} \/ s.multiplies
  <2>1. t = [s EXCEPT !.multiplies = TRUE]
    <3> HIDE DEF fit
    <3> QED
      BY <1>2, <1>4
  <2>2. t \in WalkState /\ t.multiplies
    BY <2>1 DEF WalkState
  <2> QED
    BY <2>2
<1>5. CASE fit # {} /\ ~ s.multiplies
  <2>1. r \in fit
    <3>1. fit \subseteq Nat
      BY <1>3 DEF PlanSetting
    <3> HIDE DEF fit
    <3>2. \E q \in fit : \A o \in fit : q <= o
      BY <1>5, <3>1, LeastNatural
    <3> QED
      BY <1>1, <3>2
  <2>2. t = [visited |-> s.visited \cup Ends(r), edges |-> s.edges \ {r},
             multiplies |-> ~ ToOne(r, s.visited)]
    <3> HIDE DEF fit
    <3> QED
      BY <1>2, <1>5
  <2>3. r \in s.edges /\ r \in Rels /\ (From[r] \in s.visited) # (To[r] \in s.visited)
    BY <1>3, <2>1
  <2>4. t.visited = s.visited \cup Ends(r) /\ t.edges = s.edges \ {r} /\ (t.multiplies <=> ~ ToOne(r, s.visited))
    <3>1. PICK m : m = ~ ToOne(r, s.visited)
      OBVIOUS
    <3>2. t = [visited |-> s.visited \cup Ends(r), edges |-> s.edges \ {r}, multiplies |-> m]
      BY <2>2, <3>1
    <3>3. t.visited = s.visited \cup Ends(r) /\ t.edges = s.edges \ {r} /\ t.multiplies = m
      BY <3>2
    <3> QED
      BY <3>1, <3>3, Zenon
  <2>5. t \in WalkState
    <3>1. From[r] \in Entities /\ To[r] \in Entities
      BY <2>3 DEF PlanSetting
    <3>2. ToOne(r, s.visited) \in BOOLEAN
      BY DEF ToOne
    <3> QED
      BY <1>3, <2>2, <3>1, <3>2 DEF WalkState, Ends
  <2>6. PICK a, b : Ends(r) = {a, b} /\ a \in s.visited /\ b \notin s.visited
    BY <2>3 DEF Ends
  <2>7. ASSUME ~ t.multiplies, Walked(p, d, e, s)
        PROVE  Walked(p, d, e, t)
    <3>1. /\ s.edges \subseteq DOMAIN p.joins /\ e \in s.visited
          /\ \A q \in DOMAIN p.joins : q \in s.edges \/ Ends(q) \subseteq s.visited
          /\ \A x, y \in PlanRows(p, d) : x[e] = y[e] => Same(x, y, s.visited)
          /\ \A x \in PlanRows(p, d), c \in s.visited, q \in s.edges : Adds(p, q, c) => x[c] # Null
      BY <2>7 DEF Walked
    <3>2. ToOne(r, s.visited) /\ r \in DOMAIN p.joins
      BY <2>3, <2>4, <2>7, <3>1
    <3>3. PICK c \in {a, b} : Adds(p, r, c) /\ (IsLeft(p.joins[r]) => c = Nullable(p, r))
      BY <2>6, <3>2, AddsIs
    <3>4. \A x \in PlanRows(p, d) : x \in AllRows /\ Crosses(p, d, r, x)
      BY <3>2, PlanRowsIs
    <3>5. ASSUME NEW x \in PlanRows(p, d), NEW y \in PlanRows(p, d), x[e] = y[e]
          PROVE  Same(x, y, t.visited)
      <4>1. Same(x, y, s.visited) /\ x[a] = y[a]
        BY <2>6, <3>1, <3>5 DEF Same
      <4>2. IsLeft(p.joins[r]) /\ Nullable(p, r) = a => x[a] # Null
        BY <2>3, <2>6, <3>1, <3>3
      <4>3. x[b] = y[b]
        BY <2>6, <3>2, <3>4, <4>1, <4>2, WalkedToOne
      <4> QED
        BY <2>4, <2>6, <4>1, <4>3 DEF Same
    <3>6. ASSUME NEW x \in PlanRows(p, d), NEW q \in t.edges, Adds(p, q, b)
          PROVE  x[b] # Null
      <4>1. q \in s.edges /\ q # r
        BY <2>4
      <4>2. c = a
        BY <3>3, <3>6, <4>1, AddsIs
      <4>3. x[a] # Null
        BY <2>3, <2>6, <3>1, <3>3, <4>2
      <4>4. LinkedBy(r, x, d)
        BY <3>3, <3>4, <4>2, <4>3 DEF Crosses
      <4> QED
        BY <2>6, <4>4 DEF LinkedBy, Ends
    <3>7. \A x \in PlanRows(p, d), v \in t.visited, q \in t.edges : Adds(p, q, v) => x[v] # Null
      <4> SUFFICES ASSUME NEW x \in PlanRows(p, d), NEW v \in t.visited, NEW q \in t.edges, Adds(p, q, v)
                   PROVE  x[v] # Null
        OBVIOUS
      <4>1. v \in s.visited \/ v = b
        BY <2>4, <2>6
      <4>2. q \in s.edges
        BY <2>4
      <4> QED
        BY <3>1, <3>6, <4>1, <4>2
    <3>8. \A q \in DOMAIN p.joins : q \in t.edges \/ Ends(q) \subseteq t.visited
      BY <2>4, <3>1
    <3>9. t.edges \subseteq DOMAIN p.joins /\ e \in t.visited
      BY <2>4, <3>1
    <3> QED
      BY <3>5, <3>7, <3>8, <3>9 DEF Walked
  <2> QED
    BY <1>5, <2>3, <2>4, <2>5, <2>7
<1> QED
  BY <1>4, <1>5

\* Every walk that does not multiply ends with all relationships walked.
LEMMA WholeWalk ==
    ASSUME PlanSetting, NEW p, PlanOK(p), selected_join_order(p) # Null, NEW d \in LinkData(p),
           NEW e \in Entities, \A x \in PlanRows(p, d) : x[e] # Null,
           ~ population_may_multiply(e, p)
    PROVE  \E s : Walked(p, d, e, s) /\ s.edges = {}
<1>1. DOMAIN p.joins \subseteq Rels /\ IsFiniteSet(DOMAIN p.joins)
  <2>1. DOMAIN p.joins \in SUBSET Rels /\ IsFiniteSet(Rels)
    BY DEF PlanOK, PlanSetting
  <2> QED
    BY <2>1, FS_Subset
<1>2. PICK n \in Nat : n = Cardinality(DOMAIN p.joins)
  BY <1>1, FS_CardinalityType
<1>3. PICK s : /\ population_may_multiply(e, p) = s[n].multiplies
               /\ s[0] = [visited |-> {e}, edges |-> DOMAIN p.joins, multiplies |-> FALSE]
               /\ \A k \in 1..n : s[k] = WalkRound(s[k - 1])
  BY <1>2, GrainIs
<1> DEFINE Left(k) == IsFiniteSet(s[k].edges) /\ Cardinality(s[k].edges) = n - k
           Good(k) == s[k] \in WalkState /\ (s[k].multiplies \/ (Walked(p, d, e, s[k]) /\ Left(k)))
           G == {k \in 0..n : Good(k)}
<1>4. Good(0)
  <2>1. s[0].visited = {e} /\ s[0].edges = DOMAIN p.joins
    BY <1>3
  <2>2. s[0] \in WalkState
    BY <1>1, <1>3 DEF WalkState
  <2>3. Left(0)
    BY <1>1, <1>2, <2>1
  <2>4. Walked(p, d, e, s[0])
    BY <2>1 DEF Walked, Same
  <2> QED
    BY <2>2, <2>3, <2>4
<1>5. ASSUME NEW k \in 1..n, Good(k - 1) PROVE Good(k)
  <2>1. PICK u, t : u = s[k - 1] /\ t = s[k] /\ t = WalkRound(u)
    BY <1>3
  <2>2. u \in WalkState /\ (u.multiplies \/ (Walked(p, d, e, u) /\ Left(k - 1)))
    BY <1>5, <2>1
  <2>3. /\ t \in WalkState /\ (u.multiplies => t.multiplies)
        /\ t.multiplies \/ \E r \in u.edges : t.edges = u.edges \ {r}
        /\ ~ t.multiplies /\ Walked(p, d, e, u) => Walked(p, d, e, t)
    BY <2>1, <2>2, RoundWalks
  <2>4. CASE t.multiplies
    BY <2>1, <2>3, <2>4, Zenon
  <2>5. CASE ~ t.multiplies
    <3>1. Walked(p, d, e, t) /\ IsFiniteSet(u.edges) /\ Cardinality(u.edges) = n - (k - 1)
      BY <2>1, <2>2, <2>3, <2>5
    <3>2. PICK r \in u.edges : t.edges = u.edges \ {r}
      BY <2>3, <2>5
    <3>3. IsFiniteSet(t.edges) /\ Cardinality(t.edges) = Cardinality(u.edges) - 1
      BY <3>1, <3>2, FS_RemoveElement
    <3>4. Cardinality(t.edges) = n - k
      BY <3>1, <3>3
    <3> QED
      BY <2>1, <2>3, <3>1, <3>3, <3>4, Zenon
  <2> QED
    BY <2>4, <2>5
<1>6. \A k \in 0..n : k \in G
  <2> HIDE DEF Good
  <2>1. 0 \in G /\ \A k \in 1..n : k - 1 \in G => k \in G
    BY <1>4, <1>5
  <2> HIDE DEF G
  <2> QED
    BY <2>1, RoundByRound
<1>7. Good(n)
  <2> HIDE DEF Good
  <2> QED
    BY <1>6
<1>8. Walked(p, d, e, s[n]) /\ IsFiniteSet(s[n].edges) /\ Cardinality(s[n].edges) = 0
  BY <1>3, <1>7
<1>9. s[n].edges = {}
  BY <1>8, FS_EmptySet
<1> QED
  BY <1>8, <1>9

\* Whatever can be reached over a plan's relationships is an end of one.
LEMMA ReachedOverEnds ==
    ASSUME NEW p, NEW n \in Nat, n = Cardinality(p.entities), NEW e
    PROVE  Reached(e, p) \subseteq {e} \cup RelEnds(p)
<1>1. PICK s : Reached(e, p) = s[n] /\ SpreadInTurn(s, e, p, n)
  BY ReachedIs
<1> DEFINE G == {k \in 0..n : s[k] \subseteq {e} \cup RelEnds(p)}
<1>2. 0 \in G
  BY <1>1 DEF SpreadInTurn
<1>3. ASSUME NEW k \in 1..n, k - 1 \in G PROVE k \in G
  <2>1. s[k] = WithNeighbours(s[k - 1], p)
    BY <1>1 DEF SpreadInTurn
  <2>2. \A es : WithNeighbours(es, p) \subseteq es \cup RelEnds(p)
    BY DEF WithNeighbours, RelEnds
  <2> QED
    BY <1>3, <2>1, <2>2
<1>4. \A k \in 0..n : k \in G
  <2> HIDE DEF G
  <2> QED
    BY <1>2, <1>3, RoundByRound
<1> QED
  BY <1>1, <1>4

\* A metric that is accepted has one row of the plan for each row of its entity.
LEMMA OneRowEach ==
    ASSUME PlanSetting, NEW p, PlanOK(p), Refusal(p) = "", p.metric, NEW d \in LinkData(p)
    PROVE  /\ \A x \in PlanRows(p, d) : x[p.subject] \in Rows
           /\ \A x, y \in PlanRows(p, d) : x[p.subject] = y[p.subject] => x = y
<1>1. PICK e : e = p.subject
  OBVIOUS
<1>2. /\ e \in p.entities /\ selected_join_order(p) # Null /\ IsTree(p)
      /\ ~ population_may_multiply(e, p) /\ ~ NullExtended(e, p)
      /\ p.entities \subseteq Entities /\ e \in Entities
  BY <1>1, AcceptedPlan DEF PlanOK
<1>3. e \notin NullableEnds(p)
  <2> SUFFICES ASSUME NEW r \in DOMAIN p.joins, IsLeft(p.joins[r]), Nullable(p, r) = e PROVE FALSE
    BY DEF NullableEnds
  <2>1. PICK c : Adds(p, r, c)
    BY <1>2, AddsIs
  <2>2. c = e
    BY <1>2, <2>1, AddsIs
  <2> QED
    BY <1>2, <2>1, <2>2, AddsIs
<1>4. \A x \in PlanRows(p, d) : x \in AllRows /\ x[e] # Null
  BY <1>2, <1>3, PlanRowIs
<1>5. \A x \in PlanRows(p, d) : x[e] \in Rows
  BY <1>2, <1>4 DEF AllRows
<1>6. PICK s : Walked(p, d, e, s) /\ s.edges = {}
  BY <1>2, <1>4, WholeWalk
<1>7. {e} \cup RelEnds(p) \subseteq s.visited
  BY <1>6 DEF Walked, RelEnds
<1>8. p.entities \subseteq s.visited
  <2>1. IsFiniteSet(p.entities)
    BY <1>2, FS_Subset DEF PlanSetting
  <2>2. Cardinality(p.entities) \in Nat
    BY <2>1, FS_CardinalityType
  <2>3. Reached(e, p) = p.entities
    BY <1>2 DEF IsTree
  <2>4. Reached(e, p) \subseteq {e} \cup RelEnds(p)
    BY <2>2, ReachedOverEnds
  <2> QED
    BY <1>7, <2>3, <2>4
<1>9. ASSUME NEW x \in PlanRows(p, d), NEW y \in PlanRows(p, d), x[e] = y[e] PROVE x = y
  <2>1. Same(x, y, s.visited)
    BY <1>6, <1>9 DEF Walked
  <2>2. \A c \in Entities \ p.entities : x[c] = Null /\ y[c] = Null
    BY PlanRowIs
  <2>3. \A c \in Entities : x[c] = y[c]
    BY <1>8, <2>1, <2>2 DEF Same
  <2>4. x \in [Entities -> Rows \cup {Null}] /\ y \in [Entities -> Rows \cup {Null}]
    BY <1>4 DEF AllRows
  <2>5. x = [c \in Entities |-> x[c]] /\ y = [c \in Entities |-> y[c]]
    BY <2>4
  <2>6. [c \in Entities |-> x[c]] = [c \in Entities |-> y[c]]
    BY <2>3
  <2> QED
    BY <2>5, <2>6
<1> QED
  BY <1>1, <1>5, <1>9

\* validate_semantic_plan: a named metric that is accepted counts the rows of its
\* own entity, each once.
THEOREM MetricsCountTheirPopulation ==
    ASSUME PlanSetting
    PROVE  SqlSpec => []MetricCountsPopulation
<1>1. SqlInv => MetricCountsPopulation
  <2> SUFFICES ASSUME SqlInv, counted # Null, plan.metric
               PROVE  counted = Cardinality({x[plan.subject] : x \in PlanRows(plan, data)} \ {Null})
    BY DEF MetricCountsPopulation
  <2>1. /\ PlanOK(plan) /\ Refusal(plan) = "" /\ SqlOK(sql) /\ check_semantic_conformance(plan, sql)
        /\ data \in LinkData(plan) /\ counted = Counted(sql, data)
    BY DEF SqlInv, PlanSetting
  <2>2. PICK P, e : P = PlanRows(plan, data) /\ e = plan.subject
    OBVIOUS
  <2>3. ResultRows(sql, data) = P
    BY <2>1, <2>2, ApprovedRows
  <2>4. (\A x \in P : x[e] \in Rows) /\ \A x, y \in P : x[e] = y[e] => x = y
    BY <2>1, <2>2, OneRowEach
  <2>5. \A x \in P : sql.count = Null \/ ValueOf(x, sql.count.e, sql.count.f) # Null
    <3> SUFFICES ASSUME NEW x \in P, sql.count # Null PROVE ValueOf(x, sql.count.e, sql.count.f) # Null
      OBVIOUS
    <3>1. sql.count.e = e /\ field_is_non_null(sql.count.e, sql.count.f, plan)
      BY <2>1, <2>2 DEF check_semantic_conformance, _check_outputs
    <3>2. <<e, sql.count.f>> \in NonNull
      BY <3>1 DEF field_is_non_null
    <3> QED
      BY <2>4, <3>1, <3>2 DEF ValueOf, PlanSetting
  <2>6. Counted(sql, data) = Cardinality(P)
    <3>1. {x \in P : sql.count = Null \/ ValueOf(x, sql.count.e, sql.count.f) # Null} = P
      BY <2>5
    <3> QED
      BY <2>3, <3>1 DEF Counted
  <2>7. PICK V : V = {x[e] : x \in P}
    OBVIOUS
  <2>8. V \subseteq Rows /\ V \ {Null} = V
    BY <2>4, <2>7 DEF PlanSetting
  <2>9. IsFiniteSet(V)
    BY <2>8, FS_Subset DEF PlanSetting
  <2>10. Cardinality(P) = Cardinality(V)
    <3>1. PICK f : f = [x \in P |-> x[e]]
      OBVIOUS
    <3>2. f \in Injection(P, V) /\ f \in Surjection(P, V)
      BY <2>4, <2>7, <3>1 DEF Injection, IsInjective, Surjection
    <3> QED
      BY <2>9, <3>2, FS_Injection
  <2> QED
    BY <2>1, <2>2, <2>6, <2>7, <2>8, <2>10
<1> QED
  BY <1>1, SqlInvHolds, PTL

-----------------------------------------------------------------------------
(* Filters that contradict each other                                      *)

\* The comparisons with a value, or with a list of values, among predicates
Comparisons(ps) == {a \in ps : a.op \in {"equals", "not_equals", "in", "not_in"}}

\* The comparisons collected for a column contradict each other exactly if one of
\* them says what the column must be and no value it allows satisfies them all.
LEMMA ContradictoryIs ==
    ASSUME Null \notin Int, NEW ps, IsFiniteSet(ps), \A q \in ps : PredOK(q)
    PROVE  Contradictory(ps) <=>
             \E a \in Comparisons(ps) :
                 /\ a.op \in {"equals", "in"}
                 /\ ~ \E v \in Set(a) : \A b \in Comparisons(ps) : Holds(b, v)
<1> DEFINE eq == {q.v : q \in {q \in ps : q.op = "equals"}}
           ins == {Set(q) : q \in {q \in ps : q.op = "in"}}
           allowed == {v \in UNION ins : \A s \in ins : v \in s}
           excluded == UNION {Set(q) : q \in {q \in ps : q.op \in {"not_equals", "not_in"}}}
           All(v) == \A a \in Comparisons(ps) : Holds(a, v)
<1>1. Contradictory(ps) <=>
          \/ Cardinality(eq) > 1
          \/ eq \cap excluded # {}
          \/ ins # {} /\ (allowed \ excluded = {} \/ ~ (eq \subseteq allowed))
  BY DEF Contradictory
<1>2. \A q \in ps : /\ q.op \in {"equals", "not_equals"} => Set(q) = {q.v} /\ q.v \in Int
                    /\ q.op \in {"in", "not_in"} => Set(q) = ToSet(q.v) /\ Set(q) \subseteq Int
  <2> SUFFICES ASSUME NEW q \in ps
               PROVE  /\ q.op \in {"equals", "not_equals"} => Set(q) = {q.v} /\ q.v \in Int
                      /\ q.op \in {"in", "not_in"} => Set(q) = ToSet(q.v) /\ Set(q) \subseteq Int
    OBVIOUS
  <2>1. q.op \in {"equals", "not_equals"} => q.v \in Int
    BY DEF PredOK
  <2>2. q.op \in {"equals", "not_equals"} => Set(q) = {q.v}
    BY DEF Set
  <2>3. ASSUME q.op \in {"in", "not_in"} PROVE Set(q) = ToSet(q.v) /\ Set(q) \subseteq Int
    <3>1. q.v \in Seq(Int)
      BY <2>3 DEF PredOK
    <3>2. \A i \in DOMAIN q.v : q.v[i] \in Int
      BY <3>1, ElementOfSeq, LenProperties
    <3> QED
      BY <2>3, <3>2 DEF Set, ToSet
  <2> QED
    BY <2>1, <2>2, <2>3
<1>3. IsFiniteSet(eq)
  <2>1. IsFiniteSet({q \in ps : q.op = "equals"})
    BY FS_Subset
  <2>2. PICK f : f = [q \in {q \in ps : q.op = "equals"} |-> q.v]
    OBVIOUS
  <2>3. f \in Surjection({q \in ps : q.op = "equals"}, eq)
    BY <2>2 DEF Surjection
  <2> QED
    BY <2>1, <2>3, FS_Surjection
\* The values that satisfy the comparisons
<1>4. \A v : All(v) <=> /\ \A w \in eq : v = w
                        /\ \A s \in ins : v \in s
                        /\ ~ (v \in excluded)
                        /\ Comparisons(ps) # {} => v # Null
  <2> SUFFICES ASSUME NEW v
               PROVE  All(v) <=> /\ \A w \in eq : v = w
                                 /\ \A s \in ins : v \in s
                                 /\ ~ (v \in excluded)
                                 /\ Comparisons(ps) # {} => v # Null
    OBVIOUS
  <2>1. \A q \in ps : q.op = "equals" => (Holds(q, v) <=> v = q.v)
    BY DEF Holds
  <2>2. \A q \in ps : q.op = "not_equals" => (Holds(q, v) <=> v # Null /\ v # q.v)
    BY DEF Holds
  <2>3. \A q \in ps : q.op = "in" => (Holds(q, v) <=> v # Null /\ v \in ToSet(q.v))
    BY DEF Holds
  <2>4. \A q \in ps : q.op = "not_in" => (Holds(q, v) <=> v # Null /\ v \notin ToSet(q.v))
    BY DEF Holds
  <2>5. \A q \in ps : /\ q.op = "equals" => q.v # Null
                      /\ q.op = "not_equals" => Set(q) = {q.v}
                      /\ q.op \in {"in", "not_in"} => Set(q) = ToSet(q.v)
    BY <1>2
  <2>6. ASSUME All(v) PROVE /\ \A w \in eq : v = w
                            /\ \A s \in ins : v \in s
                            /\ ~ (v \in excluded)
                            /\ Comparisons(ps) # {} => v # Null
    <3>1. \A q \in ps : q.op \in {"equals", "not_equals", "in", "not_in"} => Holds(q, v)
      BY <2>6 DEF Comparisons
    <3>2. \A w \in eq : v = w
      BY <2>1, <3>1
    <3>3. \A s \in ins : v \in s
      BY <2>3, <2>5, <3>1
    <3>4. ~ (v \in excluded)
      BY <2>2, <2>4, <2>5, <3>1
    <3>5. Comparisons(ps) # {} => v # Null
      BY <2>1, <2>2, <2>3, <2>4, <2>5, <3>1 DEF Comparisons
    <3> QED
      BY <3>2, <3>3, <3>4, <3>5
  <2>7. ASSUME /\ \A w \in eq : v = w
               /\ \A s \in ins : v \in s
               /\ ~ (v \in excluded)
               /\ Comparisons(ps) # {} => v # Null
        PROVE  All(v)
    <3> SUFFICES ASSUME NEW q \in Comparisons(ps) PROVE Holds(q, v)
      OBVIOUS
    <3>1. q \in ps /\ q.op \in {"equals", "not_equals", "in", "not_in"} /\ v # Null
      BY <2>7 DEF Comparisons
    <3>2. CASE q.op = "equals"
      BY <2>1, <2>7, <3>1, <3>2
    <3>3. CASE q.op = "not_equals"
      <4>1. v \notin Set(q)
        BY <2>7, <3>1, <3>3
      <4> QED
        BY <2>2, <2>5, <3>1, <3>3, <4>1
    <3>4. CASE q.op = "in"
      <4>1. v \in Set(q)
        BY <2>7, <3>1, <3>4
      <4> QED
        BY <2>3, <2>5, <3>1, <3>4, <4>1
    <3>5. CASE q.op = "not_in"
      <4>1. v \notin Set(q)
        BY <2>7, <3>1, <3>5
      <4> QED
        BY <2>4, <2>5, <3>1, <3>5, <4>1
    <3> QED
      BY <3>1, <3>2, <3>3, <3>4, <3>5
  <2> QED
    BY <2>6, <2>7
\* What says that the column is one value, or one of a list
<1>5. /\ \A w \in eq : w \in Int
      /\ \A s \in ins : s \subseteq Int
      /\ \A w \in eq : \E a \in Comparisons(ps) : a.op \in {"equals", "in"} /\ Set(a) = {w}
      /\ \A s \in ins : \E a \in Comparisons(ps) : a.op \in {"equals", "in"} /\ Set(a) = s
      /\ \A a \in Comparisons(ps) : a.op = "equals" => \E w \in eq : Set(a) = {w}
      /\ \A a \in Comparisons(ps) : a.op = "in" => Set(a) \in ins
  <2>1. \A w \in eq : w \in Int
    BY <1>2
  <2>2. \A s \in ins : s \subseteq Int
    BY <1>2
  <2>3. \A w \in eq : \E a \in Comparisons(ps) : a.op \in {"equals", "in"} /\ Set(a) = {w}
    BY <1>2 DEF Comparisons
  <2>4. \A s \in ins : \E a \in Comparisons(ps) : a.op \in {"equals", "in"} /\ Set(a) = s
    BY DEF Comparisons
  <2>5. \A a \in Comparisons(ps) : a.op = "equals" => \E w \in eq : Set(a) = {w}
    BY <1>2 DEF Comparisons
  <2>6. \A a \in Comparisons(ps) : a.op = "in" => Set(a) \in ins
    BY DEF Comparisons
  <2> QED
    BY <2>1, <2>2, <2>3, <2>4, <2>5, <2>6
<1> HIDE DEF eq, ins, excluded, All
\* A value that satisfies them all shows that they do not contradict each other.
<1>6. ASSUME NEW v, All(v) PROVE ~ Contradictory(ps)
  <2>1. ~ (Cardinality(eq) > 1)
    <3>1. eq = {} \/ eq = {v}
      BY <1>4, <1>6
    <3>2. Cardinality({}) = 0 /\ Cardinality({v}) = 1
      BY FS_EmptySet, FS_Singleton
    <3> QED
      BY <3>1, <3>2
  <2>2. eq \cap excluded = {}
    BY <1>4, <1>6
  <2>3. ins # {} => v \in allowed \ excluded /\ eq \subseteq allowed
    BY <1>4, <1>6
  <2> QED
    BY <1>1, <2>1, <2>2, <2>3
\* Where they do not, what says that the column is one value allows one that does.
<1>7. ASSUME ~ Contradictory(ps), NEW w \in eq PROVE All(w)
  <2>1. \A u \in eq : u = w
    <3> SUFFICES ASSUME NEW u \in eq, u # w PROVE FALSE
      OBVIOUS
    <3>1. {w} \in SUBSET eq /\ Cardinality({w}) = 1 /\ Cardinality(eq) \in Nat
      BY <1>3, FS_Singleton, FS_CardinalityType
    <3>2. Cardinality({w}) <= Cardinality(eq) /\ (Cardinality(eq) = Cardinality({w}) => eq = {w})
      BY <1>3, <3>1, FS_Subset
    <3>3. Cardinality(eq) = 1
      BY <1>1, <1>7, <3>1, <3>2
    <3> QED
      BY <3>1, <3>2, <3>3
  <2>2. w \notin excluded /\ \A s \in ins : w \in s
    BY <1>1, <1>7
  <2>3. w # Null
    BY <1>5
  <2> QED
    BY <1>4, <2>1, <2>2, <2>3
\* And so does every list.
<1>8. ASSUME ~ Contradictory(ps), NEW s \in ins PROVE \E v \in s : All(v)
  <2>1. CASE eq # {}
    <3>1. PICK w \in eq : TRUE
      BY <2>1
    <3>2. w \in s
      BY <1>1, <1>8, <3>1
    <3> QED
      BY <1>7, <1>8, <3>1, <3>2
  <2>2. CASE eq = {}
    <3>1. PICK v \in allowed : v \notin excluded
      BY <1>1, <1>8
    <3>2. v # Null /\ \A t \in ins : v \in t
      BY <1>5, <1>8, <3>1
    <3> QED
      BY <1>4, <1>8, <2>2, <3>1, <3>2
  <2> QED
    BY <2>1, <2>2
<1>9. ASSUME Contradictory(ps)
      PROVE  \E a \in Comparisons(ps) : a.op \in {"equals", "in"} /\ ~ \E v \in Set(a) : All(v)
  <2>1. eq # {} \/ ins # {}
    <3>1. Cardinality({}) = 0
      BY FS_EmptySet
    <3> QED
      BY <1>1, <1>9, <3>1
  <2>2. \A v : ~ All(v)
    BY <1>6, <1>9
  <2> QED
    BY <1>5, <2>1, <2>2
<1>10. ASSUME ~ Contradictory(ps), NEW a \in Comparisons(ps), a.op \in {"equals", "in"}
       PROVE  \E v \in Set(a) : All(v)
  <2>1. CASE a.op = "equals"
    <3>1. PICK w \in eq : Set(a) = {w}
      BY <1>5, <2>1
    <3> QED
      BY <1>7, <1>10, <3>1
  <2>2. CASE a.op = "in"
    BY <1>5, <1>8, <1>10, <2>2
  <2> QED
    BY <1>10, <2>1, <2>2
<1> QED
  BY <1>9, <1>10 DEF All

\* Filters are inconsistent exactly if some column is left with nothing.
LEMMA InconsistentIs ==
    ASSUME Null \notin Int, NEW ps, IsFiniteSet(ps), \A q \in ps : PredOK(q)
    PROVE  Inconsistent(ps) <=> NothingLeft(ps)
<1>1. ASSUME NEW e, NEW f
      PROVE  Contradictory(OnColumn(ps, e, f)) <=>
             LET q == {a \in OnColumn(ps, e, f) : a.op \in {"equals", "not_equals", "in", "not_in"}}
             IN  \E a \in q : /\ a.op \in {"equals", "in"}
                             /\ ~ \E v \in Set(a) : \A b \in q : Holds(b, v)
  <2>1. PICK qs : qs = OnColumn(ps, e, f)
    OBVIOUS
  <2>2. qs \in SUBSET ps
    BY <2>1 DEF OnColumn
  <2>3. IsFiniteSet(qs) /\ \A q \in qs : PredOK(q)
    BY <2>2, FS_Subset
  <2> QED
    BY <2>1, <2>3, ContradictoryIs DEF Comparisons
<1> QED
  BY <1>1 DEF Inconsistent, NothingLeft

\* Validation refuses the filters that leave a column nothing of what it must be.
LEMMA PlanInconsistentIs ==
    ASSUME Null \notin Int, NEW p, PlanOK(p)
    PROVE  PlanInconsistent(p) <=>
             \/ NothingLeft(p.preds \cup p.filters)
             \/ \E g \in p.groups : \E i \in DOMAIN g : NothingLeft(p.preds \cup p.filters \cup g[i])
<1>1. IsFiniteSet(p.preds \cup p.filters) /\ \A q \in p.preds \cup p.filters : PredOK(q)
  BY FS_Union DEF PlanOK
<1>2. ASSUME NEW g \in p.groups, NEW i \in DOMAIN g
      PROVE  Inconsistent(p.preds \cup p.filters \cup g[i]) <=> NothingLeft(p.preds \cup p.filters \cup g[i])
  <2>1. IsFiniteSet(g[i]) /\ \A q \in g[i] : PredOK(q)
    BY DEF PlanOK, TermOK, ToSet
  <2>2. PICK ps : ps = p.preds \cup p.filters \cup g[i]
    OBVIOUS
  <2>3. IsFiniteSet(ps) /\ \A q \in ps : PredOK(q)
    BY <1>1, <2>1, <2>2, FS_Union
  <2> QED
    BY <2>2, <2>3, InconsistentIs
<1> QED
  BY <1>1, <1>2, InconsistentIs DEF PlanInconsistent

-----------------------------------------------------------------------------
(* The greedy search of selected_join_order is complete                    *)

\* The relationships of two entities that lead out of, or lie outside, those of S
Beyond(p, S) == {r \in DOMAIN p.joins : From[r] # To[r] /\ ~ (Ends(r) \subseteq S)}

\* What is reached from S over the relationships stays in S if none leads out.
LEMMA ReachedWithin ==
    ASSUME NEW p, NEW n \in Nat, n = Cardinality(p.entities), NEW S, NEW e \in S,
           \A r \in DOMAIN p.joins : Ends(r) \cap S # {} => Ends(r) \subseteq S
    PROVE  Reached(e, p) \subseteq S
<1>1. PICK s : Reached(e, p) = s[n] /\ SpreadInTurn(s, e, p, n)
  BY ReachedIs
<1> DEFINE G == {k \in 0..n : s[k] \subseteq S}
<1>2. 0 \in G
  BY <1>1 DEF SpreadInTurn
<1>3. ASSUME NEW k \in 1..n, k - 1 \in G PROVE k \in G
  <2>1. s[k] = WithNeighbours(s[k - 1], p)
    BY <1>1 DEF SpreadInTurn
  <2>2. \A es : es \subseteq S => WithNeighbours(es, p) \subseteq S
    BY DEF WithNeighbours
  <2> QED
    BY <1>3, <2>1, <2>2
<1>4. \A k \in 0..n : k \in G
  <2> HIDE DEF G
  <2> QED
    BY <1>2, <1>3, RoundByRound
<1> QED
  BY <1>1, <1>4

\* In a connected plan, at least one relationship goes beyond S for each entity
\* outside S.
LEMMA BeyondIsLarge ==
    ASSUME NEW p, IsFiniteSet(p.entities), IsFiniteSet(DOMAIN p.joins), RelEnds(p) \subseteq p.entities,
           \A e \in p.entities : Reached(e, p) = p.entities,
           NEW S, S \subseteq p.entities, S # {}
    PROVE  Cardinality(p.entities \ S) <= Cardinality(Beyond(p, S))
<1>1. PICK n \in Nat : n = Cardinality(p.entities)
  BY FS_CardinalityType
<1>2. \A T : IsFiniteSet(Beyond(p, T)) /\ Cardinality(Beyond(p, T)) \in Nat
  <2>1. \A T : Beyond(p, T) \in SUBSET DOMAIN p.joins
    BY DEF Beyond
  <2> QED
    BY <2>1, FS_Subset, FS_CardinalityType
<1>3. \A T : IsFiniteSet(p.entities \ T) /\ Cardinality(p.entities \ T) \in 0..n
  <2>1. \A T : p.entities \ T \in SUBSET p.entities
    OBVIOUS
  <2>2. \A T : IsFiniteSet(p.entities \ T) /\ Cardinality(p.entities \ T) <= n
    BY <1>1, <2>1, FS_Subset
  <2>3. \A T : Cardinality(p.entities \ T) \in Nat
    BY <2>2, FS_CardinalityType
  <2> QED
    BY <2>2, <2>3
<1> DEFINE Large(k) == \A T : T \subseteq p.entities /\ T # {} /\ Cardinality(p.entities \ T) = k
                              => k <= Cardinality(Beyond(p, T))
           G == {k \in 0..n : Large(k)}
<1>4. Large(0)
  BY <1>2
<1>5. ASSUME NEW k \in 1..n, Large(k - 1) PROVE Large(k)
  <2> SUFFICES ASSUME NEW T, T \subseteq p.entities, T # {}, Cardinality(p.entities \ T) = k
               PROVE  k <= Cardinality(Beyond(p, T))
    OBVIOUS
  <2>1. p.entities \ T # {}
    <3>1. Cardinality({}) = 0 /\ k # 0
      BY FS_EmptySet
    <3> QED
      BY <3>1
  <2>2. PICK r \in DOMAIN p.joins : Ends(r) \cap T # {} /\ ~ (Ends(r) \subseteq T)
    <3> SUFFICES ASSUME \A r \in DOMAIN p.joins : Ends(r) \cap T # {} => Ends(r) \subseteq T PROVE FALSE
      OBVIOUS
    <3>1. PICK e \in T : TRUE
      OBVIOUS
    <3>2. Reached(e, p) \subseteq T /\ Reached(e, p) = p.entities
      BY <1>1, <3>1, ReachedWithin
    <3> QED
      BY <2>1, <3>2
  <2>3. PICK b : b \in Ends(r) /\ b \notin T /\ b \in p.entities
    BY <2>2 DEF RelEnds
  <2>4. PICK U : U = T \cup {b}
    OBVIOUS
  <2>5. Cardinality(p.entities \ U) = k - 1
    <3>1. PICK V, W : V = p.entities \ T /\ W = p.entities \ U
      OBVIOUS
    <3>2. W = V \ {b} /\ b \in V
      BY <2>3, <2>4, <3>1
    <3>3. IsFiniteSet(V) /\ Cardinality(V) = k
      BY <1>3, <3>1
    <3>4. Cardinality(V \ {b}) = Cardinality(V) - 1
      BY <3>2, <3>3, FS_RemoveElement
    <3> QED
      BY <3>1, <3>2, <3>3, <3>4
  <2>6. k - 1 <= Cardinality(Beyond(p, U))
    BY <1>5, <2>3, <2>4, <2>5
  <2>7. Ends(r) \subseteq U
    BY <2>2, <2>3, <2>4 DEF Ends
  <2>8. Beyond(p, U) \in SUBSET (Beyond(p, T) \ {r}) /\ r \in Beyond(p, T)
    <3>1. From[r] # To[r]
      BY <2>2 DEF Ends
    <3> QED
      BY <2>2, <2>4, <2>7, <3>1 DEF Beyond
  <2>9. IsFiniteSet(Beyond(p, T) \ {r}) /\ Cardinality(Beyond(p, T) \ {r}) = Cardinality(Beyond(p, T)) - 1
    BY <1>2, <2>8, FS_RemoveElement
  <2>10. Cardinality(Beyond(p, U)) <= Cardinality(Beyond(p, T) \ {r})
    BY <2>8, <2>9, FS_Subset
  <2> HIDE DEF Large
  <2> QED
    BY <1>2, <2>6, <2>9, <2>10
<1>6. \A k \in 0..n : k \in G
  <2> HIDE DEF Large
  <2>1. 0 \in G /\ \A k \in 1..n : k - 1 \in G => k \in G
    BY <1>4, <1>5
  <2> HIDE DEF G
  <2> QED
    BY <2>1, RoundByRound
<1>7. Large(Cardinality(p.entities \ S))
  <2> HIDE DEF Large
  <2> QED
    BY <1>3, <1>6
<1> QED
  BY <1>7

\* There are n numbers from 1 to n, and n + 1 - i from i.
LEMMA IntervalSize ==
    ASSUME NEW n \in Nat, NEW i \in 1..(n + 1)
    PROVE  IsFiniteSet(i..n) /\ Cardinality(i..n) = n + 1 - i
<1>1. i \in Int /\ n \in Int /\ n + 1 - i >= 0
  OBVIOUS
<1>2. IsFiniteSet(i..n) /\ Cardinality(i..n) = IF i > n THEN 0 ELSE n - i + 1
  BY <1>1, FS_Interval
<1>3. i > n => i = n + 1
  OBVIOUS
<1> QED
  BY <1>1, <1>2, <1>3

\* SQL that joins what the plan asks for, one table after the other, joins each
\* table on one of its own relationships: the plan is a tree.
LEMMA JoinsAddEnds ==
    ASSUME PlanSetting, NEW p, PlanOK(p), IsTree(p), RelEnds(p) \subseteq p.entities,
           NEW c, SqlOK(c), Len(c.joins) + 1 = Cardinality(p.entities),
           c.root \in p.entities, \A i \in 1..Len(c.joins) : c.joins[i].added \in p.entities,
           JoinsAsAsked(p, c)
    PROVE  \A i \in 1..Len(c.joins) : \E r \in DOMAIN p.joins :
              CarriesOut(p, r, c, i) /\ c.joins[i].added \in Ends(r) /\ From[r] # To[r]
<1>1. From \in [Rels -> Entities] /\ To \in [Rels -> Entities]
  BY DEF PlanSetting
<1>2. PICK n \in Nat : n = Len(c.joins) /\ DOMAIN c.joins = 1..n
  BY <1>1, SqlOKIs
<1>3. IsFiniteSet(p.entities) /\ IsFiniteSet(DOMAIN p.joins)
  BY FS_Subset DEF PlanOK, PlanSetting
<1>4. Cardinality(DOMAIN p.joins) = n
  <2>1. Cardinality(p.entities) = n + 1
    BY <1>2
  <2> QED
    BY <2>1 DEF IsTree
<1>5. \A r \in DOMAIN p.joins : \E i \in 1..n : CarriesOut(p, r, c, i)
  BY <1>2 DEF JoinsAsAsked, CarriesOut
<1>6. PICK at : at = [r \in DOMAIN p.joins |-> CHOOSE i \in 1..n : CarriesOut(p, r, c, i)]
  OBVIOUS
<1>7. at \in [DOMAIN p.joins -> 1..n] /\ \A r \in DOMAIN p.joins : CarriesOut(p, r, c, at[r])
  <2>1. ASSUME NEW r \in DOMAIN p.joins PROVE at[r] \in 1..n /\ CarriesOut(p, r, c, at[r])
    <3>1. at[r] = CHOOSE i \in 1..n : CarriesOut(p, r, c, i)
      BY <1>6
    <3>2. \E i \in 1..n : CarriesOut(p, r, c, i)
      BY <1>5
    <3> QED
      BY <3>1, <3>2
  <2> QED
    BY <1>6, <2>1
<1>8. at \in Surjection(DOMAIN p.joins, 1..n)
  <2>1. \A r, q \in DOMAIN p.joins : at[r] = at[q] => r = q
    BY <1>7 DEF CarriesOut
  <2>2. at \in Injection(DOMAIN p.joins, 1..n)
    BY <1>7, <2>1 DEF Injection, IsInjective
  <2>3. IsFiniteSet(1..n) /\ Cardinality(1..n) = n
    BY IntervalSize
  <2> QED
    BY <1>4, <2>2, <2>3, FS_Injection
<1>9. \A i \in 1..n : \E r \in DOMAIN p.joins : at[r] = i
  BY <1>8 DEF Surjection
<1> SUFFICES ASSUME NEW i \in 1..n
             PROVE  \E r \in DOMAIN p.joins :
                       CarriesOut(p, r, c, i) /\ c.joins[i].added \in Ends(r) /\ From[r] # To[r]
  BY <1>2
<1>10. PICK r \in DOMAIN p.joins : at[r] = i
  BY <1>9
<1>11. CarriesOut(p, r, c, i)
  BY <1>7, <1>10
<1>12. ASSUME c.joins[i].added \notin Ends(r) \/ From[r] = To[r] PROVE FALSE
  <2>1. PICK S : S = Sofar(c, i - 1)
    OBVIOUS
  <2>2. i - 1 \in 0..n /\ i + 1 \in 1..(n + 1) /\ i \in 1..(n + 1) /\ \A j \in 1..(i - 1) : j \in 1..n
    OBVIOUS
  <2>3. S \subseteq p.entities /\ S # {}
    BY <1>2, <2>1, <2>2 DEF Sofar
  \* The first i relationships lie within the first i tables,
  <2>4. ASSUME NEW q \in DOMAIN p.joins, at[q] \notin (i + 1)..n
        PROVE  From[q] = To[q] \/ Ends(q) \subseteq S
    <3>1. at[q] \in 1..i /\ c.joins[at[q]].rel = q
      BY <1>7, <2>4 DEF CarriesOut
    <3>2. Ends(q) \subseteq Sofar(c, at[q])
      BY <1>2, <1>7, <3>1 DEF SqlOK
    <3>3. CASE at[q] = i
      <4>1. q = r
        BY <1>11, <3>1, <3>3 DEF CarriesOut
      <4>2. Sofar(c, i) = S \cup {c.joins[i].added}
        BY <1>1, <1>2, <2>1, SqlOKIs
      <4> QED
        BY <1>12, <3>2, <3>3, <4>1, <4>2
    <3>4. CASE at[q] # i
      <4>1. at[q] \in 0..n /\ at[q] <= i - 1
        BY <3>1, <3>4
      <4>2. Sofar(c, at[q]) \subseteq S
        BY <1>1, <1>2, <2>1, <2>2, <4>1, SqlOKIs
      <4> QED
        BY <3>2, <4>2
    <3> QED
      BY <3>3, <3>4
  \* so that too few are left for the tables that are outside.
  <2>5. IsFiniteSet(Beyond(p, S)) /\ Cardinality(Beyond(p, S)) <= n - i
    <3>1. PICK f : f = [q \in Beyond(p, S) |-> at[q]]
      OBVIOUS
    <3>2. f \in [Beyond(p, S) -> (i + 1)..n]
      BY <1>7, <2>4, <3>1 DEF Beyond
    <3>3. \A q, o \in Beyond(p, S) : f[q] = f[o] => q = o
      BY <1>7, <3>1 DEF Beyond, CarriesOut
    <3>4. f \in Injection(Beyond(p, S), (i + 1)..n)
      BY <3>2, <3>3 DEF Injection, IsInjective
    <3>5. IsFiniteSet((i + 1)..n) /\ Cardinality((i + 1)..n) = n + 1 - (i + 1)
      BY <2>2, IntervalSize
    <3>6. IsFiniteSet(Beyond(p, S)) /\ Cardinality(Beyond(p, S)) <= n + 1 - (i + 1)
      BY <3>4, <3>5, FS_Injection
    <3> QED
      BY <3>6
  <2>6. Cardinality(p.entities \ S) >= n + 1 - i
    <3>1. PICK f : f = [j \in i..n |-> c.joins[j].added]
      OBVIOUS
    <3>2. \A j \in i..n : j \in 1..n /\ j - 1 \in 0..n /\ i - 1 <= j - 1
      BY <2>2
    <3>3. \A j \in i..n : f[j] \in p.entities \ S
      <4> SUFFICES ASSUME NEW j \in i..n PROVE c.joins[j].added \in p.entities \ S
        BY <3>1
      <4>1. c.joins[j].added \notin Sofar(c, j - 1)
        BY <1>2, <3>2 DEF SqlOK
      <4>2. S \subseteq Sofar(c, j - 1)
        BY <1>1, <1>2, <2>1, <2>2, <3>2, SqlOKIs
      <4> QED
        BY <1>2, <3>2, <4>1, <4>2
    <3>4. \A j, k \in i..n : f[j] = f[k] => j = k
      BY <1>1, <1>2, <3>1, <3>2, AddedOnce
    <3>5. f \in Injection(i..n, p.entities \ S)
      BY <3>1, <3>3, <3>4 DEF Injection, IsInjective
    <3>6. Cardinality(i..n) = n + 1 - i
      BY <2>2, IntervalSize
    <3>7. IsFiniteSet(p.entities \ S)
      BY <1>3, FS_Difference
    <3>8. Cardinality(i..n) <= Cardinality(p.entities \ S) /\ Cardinality(p.entities \ S) \in Nat
      BY <3>5, <3>7, FS_Injection, FS_CardinalityType
    <3> QED
      BY <3>6, <3>8
  <2>7. Cardinality(p.entities \ S) <= Cardinality(Beyond(p, S))
    BY <1>3, <2>3, BeyondIsLarge DEF IsTree
  <2>8. Cardinality(p.entities \ S) \in Nat /\ Cardinality(Beyond(p, S)) \in Nat
    BY <1>3, <2>5, FS_Difference, FS_CardinalityType
  <2> QED
    BY <2>5, <2>6, <2>7, <2>8
<1> QED
  BY <1>11, <1>12

\* The search that starts where such SQL starts finds an order.
LEMMA SearchSucceeds ==
    ASSUME PlanSetting, NEW p, PlanOK(p), IsTree(p), RelEnds(p) \subseteq p.entities,
           NEW c, SqlOK(c), Len(c.joins) + 1 = Cardinality(p.entities),
           c.root \in p.entities, \A i \in 1..Len(c.joins) : c.joins[i].added \in p.entities,
           JoinsAsAsked(p, c)
    PROVE  /\ TraverseFrom(c.root, p.joins).pending = {}
           /\ TraverseFrom(c.root, p.joins).avail = p.entities
<1>1. From \in [Rels -> Entities] /\ To \in [Rels -> Entities]
  BY DEF PlanSetting
<1>2. PICK n \in Nat : n = Len(c.joins) /\ DOMAIN c.joins = 1..n /\ Cardinality(p.entities) = n + 1
  BY <1>1, SqlOKIs
<1>3. IsFiniteSet(p.entities) /\ IsFiniteSet(DOMAIN p.joins) /\ DOMAIN p.joins \subseteq Rels
      /\ \A r \in DOMAIN p.joins : p.joins[r] \in {"inner", "left", "left_reverse"}
  BY FS_Subset DEF PlanOK, PlanSetting
<1>4. Cardinality(DOMAIN p.joins) = n
  BY <1>2 DEF IsTree
<1>5. \A e \in p.entities : e = c.root \/ \E i \in 1..n : e = c.joins[i].added
  <2>1. PICK E : E = p.entities \ {c.root}
    OBVIOUS
  <2>2. IsFiniteSet(E) /\ Cardinality(E) = n
    <3>1. IsFiniteSet(p.entities \ {c.root})
          /\ Cardinality(p.entities \ {c.root}) = Cardinality(p.entities) - 1
      BY <1>3, FS_RemoveElement
    <3>2. Cardinality(p.entities) - 1 = n
      BY <1>2
    <3> QED
      BY <2>1, <3>1, <3>2
  <2>3. PICK f : f = [i \in 1..n |-> c.joins[i].added]
    OBVIOUS
  <2>4. f \in Injection(1..n, E)
    BY <1>1, <1>2, <2>1, <2>3, AddedOnce DEF Injection, IsInjective
  <2>5. 1 \in 1..(n + 1) /\ n + 1 - 1 = n
    OBVIOUS
  <2>6. Cardinality(1..n) = n
    BY <2>5, IntervalSize
  <2>7. f \in Surjection(1..n, E)
    BY <2>2, <2>4, <2>6, FS_Injection
  <2> QED
    BY <2>1, <2>3, <2>7 DEF Surjection
<1>6. \A i \in 1..n : \E r \in DOMAIN p.joins :
          CarriesOut(p, r, c, i) /\ c.joins[i].added \in Ends(r) /\ From[r] # To[r]
  BY <1>2, JoinsAddEnds
<1>7. PICK s : /\ TraverseFrom(c.root, p.joins) = s[n]
               /\ s[0] = [avail |-> {c.root}, pending |-> DOMAIN p.joins, order |-> <<>>]
               /\ \A k \in 1..n : s[k] = JoinRound(s[k - 1], p.joins)
  BY <1>4, TraverseIs
<1> DEFINE Good(k) ==
             /\ s[k].avail \subseteq p.entities /\ c.root \in s[k].avail
             /\ IsFiniteSet(s[k].avail) /\ Cardinality(s[k].avail) = k + 1
             /\ s[k].pending \subseteq DOMAIN p.joins
             /\ IsFiniteSet(s[k].pending) /\ Cardinality(s[k].pending) = n - k
             /\ \A r \in DOMAIN p.joins : r \in s[k].pending \/ Ends(r) \subseteq s[k].avail
           G == {k \in 0..n : Good(k)}
<1>8. Good(0)
  <2>1. PICK v : v = s[0] /\ v.avail = {c.root} /\ v.pending = DOMAIN p.joins
    BY <1>7
  <2> QED
    <3>1. IsFiniteSet({c.root}) /\ Cardinality({c.root}) = 1 /\ 1 = 0 + 1
      <4>1. PICK root : root = c.root
        OBVIOUS
      <4>2. IsFiniteSet({root}) /\ Cardinality({root}) = 1
        BY FS_Singleton
      <4> QED
        BY <4>1, <4>2
    <3>2. Cardinality(DOMAIN p.joins) = n - 0
      BY <1>4
    <3>3. v.avail \subseteq p.entities /\ c.root \in v.avail /\ v.pending \subseteq DOMAIN p.joins
          /\ \A r \in DOMAIN p.joins : r \in v.pending
      BY <2>1
    <3>4. IsFiniteSet(v.avail) /\ Cardinality(v.avail) = 0 + 1
          /\ IsFiniteSet(v.pending) /\ Cardinality(v.pending) = n - 0
      BY <1>3, <2>1, <3>1, <3>2
    <3> QED
      BY <2>1, <3>3, <3>4
<1>9. ASSUME NEW k \in 1..n, Good(k - 1) PROVE Good(k)
  <2>1. PICK u, t : u = s[k - 1] /\ t = s[k] /\ t = JoinRound(u, p.joins)
    BY <1>7
  <2>2. /\ u.avail \subseteq p.entities /\ c.root \in u.avail
        /\ IsFiniteSet(u.avail) /\ Cardinality(u.avail) = k
        /\ u.pending \subseteq DOMAIN p.joins
        /\ IsFiniteSet(u.pending) /\ Cardinality(u.pending) = n - (k - 1)
        /\ \A r \in DOMAIN p.joins : r \in u.pending \/ Ends(r) \subseteq u.avail
    BY <1>9, <2>1
  \* The first table of the SQL that is not there yet can be joined.
  <2>3. \E r \in u.pending : CanJoin(r, p.joins[r], u.avail)
    <3>1. \E j \in 1..n : c.joins[j].added \notin u.avail
      <4> SUFFICES ASSUME \A j \in 1..n : c.joins[j].added \in u.avail PROVE FALSE
        OBVIOUS
      <4>1. u.avail = p.entities
        BY <1>5, <2>2
      <4>2. k # n + 1
        OBVIOUS
      <4> QED
        BY <1>2, <2>2, <4>1, <4>2
    <3>2. PICK T : T = {j \in 1..n : c.joins[j].added \notin u.avail}
      OBVIOUS
    <3>3. T \subseteq Nat /\ T # {}
      BY <3>1, <3>2
    <3>4. PICK j \in T : \A i \in T : j <= i
      BY <3>3, LeastNatural
    <3>5. j \in 1..n /\ c.joins[j].added \notin u.avail /\ \A i \in 1..(j - 1) : i \in 1..n /\ ~ (j <= i)
      BY <3>2, <3>4
    <3>6. \A i \in 1..(j - 1) : c.joins[i].added \in u.avail
      BY <3>2, <3>4, <3>5
    <3>7. Sofar(c, j - 1) \subseteq u.avail
      BY <2>2, <3>6 DEF Sofar
    <3>8. PICK r \in DOMAIN p.joins : CarriesOut(p, r, c, j) /\ c.joins[j].added \in Ends(r)
                                           /\ From[r] # To[r]
      BY <1>6, <3>5
    <3>9. PICK a : a = c.joins[j].added
      OBVIOUS
    <3>10. Ends(r) \subseteq u.avail \cup {a}
      <4>1. Ends(r) \subseteq Sofar(c, j)
        BY <1>2, <3>5, <3>8 DEF SqlOK, CarriesOut
      <4>2. Sofar(c, j) = Sofar(c, j - 1) \cup {a}
        BY <1>1, <1>2, <3>5, <3>9, SqlOKIs
      <4> QED
        BY <3>7, <4>1, <4>2
    <3>11. r \in u.pending
      BY <2>2, <3>5, <3>8
    <3>12. PICK b : Ends(r) = {a, b} /\ b # a /\ b \in u.avail
      <4>1. (From[r] = a /\ To[r] # a /\ To[r] \in u.avail) \/ (To[r] = a /\ From[r] # a /\ From[r] \in u.avail)
        BY <3>8, <3>9, <3>10 DEF Ends
      <4> QED
        BY <4>1 DEF Ends
    <3>13. a \notin u.avail
      BY <3>5, <3>9
    <3>14. (From[r] = a /\ To[r] = b) \/ (From[r] = b /\ To[r] = a)
      BY <3>8, <3>12 DEF Ends
    <3>15. IsLeft(p.joins[r]) => a = Nullable(p, r)
      BY <3>8, <3>9 DEF CarriesOut
    <3>16. p.joins[r] \in {"inner", "left", "left_reverse"}
      BY <1>3
    <3>17. CanJoin(r, p.joins[r], u.avail)
      BY <3>12, <3>13, <3>14, <3>15, <3>16 DEF CanJoin, IsLeft, Nullable
    <3> QED
      BY <3>11, <3>17
  <2>4. PICK r, added : Joins(u, t, p.joins, r, added)
    BY <1>3, <2>1, <2>2, <2>3, RoundJoins
  <2>5. /\ r \in u.pending /\ added \notin u.avail /\ added \in Ends(r)
        /\ Ends(r) \subseteq u.avail \cup {added}
        /\ t.avail = u.avail \cup {added} /\ t.pending = u.pending \ {r}
    BY <2>4 DEF Joins, Ends
  <2>6. added \in p.entities
    BY <2>2, <2>5 DEF RelEnds
  <2>7. IsFiniteSet(t.avail) /\ Cardinality(t.avail) = k + 1
    <3>1. IsFiniteSet(u.avail \cup {added}) /\ Cardinality(u.avail \cup {added}) = Cardinality(u.avail) + 1
      BY <2>2, <2>5, FS_AddElement
    <3> QED
      BY <2>2, <2>5, <3>1
  <2>8. IsFiniteSet(t.pending) /\ Cardinality(t.pending) = n - k
    <3>1. Cardinality(t.pending) = n - (k - 1) - 1
      BY <2>2, <2>5, FS_RemoveElement
    <3>2. IsFiniteSet(t.pending)
      BY <2>2, <2>5, FS_RemoveElement
    <3> QED
      BY <3>1, <3>2
  <2>9. \A q \in DOMAIN p.joins : q \in t.pending \/ Ends(q) \subseteq t.avail
    BY <2>2, <2>5
  <2> QED
    BY <2>1, <2>2, <2>5, <2>6, <2>7, <2>8, <2>9
<1>10. \A k \in 0..n : k \in G
  <2> HIDE DEF Good
  <2>1. 0 \in G /\ \A k \in 1..n : k - 1 \in G => k \in G
    BY <1>8, <1>9
  <2> HIDE DEF G
  <2> QED
    BY <2>1, RoundByRound
<1>11. PICK t : t = s[n] /\ Good(n)
  <2> HIDE DEF Good
  <2> QED
    BY <1>10
<1>12. /\ t.avail \subseteq p.entities /\ Cardinality(t.avail) = n + 1
       /\ IsFiniteSet(t.pending) /\ Cardinality(t.pending) = 0
  BY <1>11
<1>13. t.avail = p.entities
  BY <1>2, <1>3, <1>12, FS_Subset
<1>14. t.pending = {}
  BY <1>12, FS_EmptySet
<1> QED
  BY <1>7, <1>11, <1>13, <1>14

\* A plan without an order of joins has no SQL that joins what it asks for.
LEMMA NoOrderNoSql ==
    ASSUME PlanSetting, NEW p, PlanOK(p), p.entities # {}, IsTree(p), RelEnds(p) \subseteq p.entities,
           selected_join_order(p) = Null, NEW c \in WrittenSql(p)
    PROVE  ~ JoinsAsAsked(p, c)
<1> SUFFICES ASSUME JoinsAsAsked(p, c) PROVE FALSE
  OBVIOUS
<1> DEFINE works(e) == /\ TraverseFrom(e, p.joins).pending = {}
                       /\ TraverseFrom(e, p.joins).avail = p.entities
           roots == {e \in p.entities : works(e)}
<1>1. PICK root : root = CHOOSE e \in roots : \A q \in roots : e <= q
  OBVIOUS
<1>2. selected_join_order(p) = IF roots = {} THEN Null
                               ELSE [root |-> root, order |-> TraverseFrom(root, p.joins).order]
  BY <1>1 DEF selected_join_order
<1>3. p.entities \subseteq Entities /\ DOMAIN p.joins \subseteq Rels
      /\ \A r \in DOMAIN p.joins : p.joins[r] \in {"inner", "left", "left_reverse"}
  BY DEF PlanOK
<1>4. roots \subseteq p.entities /\ roots \subseteq Nat
  BY <1>3 DEF PlanSetting
<1>5. roots # {}
  <2>1. /\ SqlOK(c) /\ Len(c.joins) + 1 = Cardinality(p.entities)
        /\ c.root \in p.entities /\ \A i \in 1..Len(c.joins) : c.joins[i].added \in p.entities
    BY WrittenSqlOK
  <2>2. works(c.root)
    BY <2>1, SearchSucceeds
  <2> QED
    BY <2>1, <2>2
<1> HIDE DEF works, roots
<1>6. root \in roots
  <2>1. \E e \in roots : \A q \in roots : e <= q
    BY <1>4, <1>5, LeastNatural
  <2> QED
    BY <1>1, <2>1
<1>7. PICK order : order = TraverseFrom(root, p.joins).order
  OBVIOUS
<1>8. root \in Entities /\ order \in Seq(JoinStep)
  <2>1. root \in Entities
    BY <1>3, <1>4, <1>6
  <2>2. Traversed(root, p.joins, TraverseFrom(root, p.joins))
    BY <1>3, <2>1, TraversalHolds
  <2> QED
    BY <1>7, <2>1, <2>2 DEF Traversed
<1>9. PICK o : o = [root |-> root, order |-> order] /\ o = Null
  BY <1>2, <1>5, <1>7
<1>10. o \in [root : Entities, order : Seq(JoinStep)]
  BY <1>8, <1>9
<1> QED
  BY <1>9, <1>10 DEF PlanSetting

\* What a refusal says of a plan
LEMMA RefusalSays ==
    ASSUME NEW p
    PROVE  /\ Refusal(p) = "left_join_orientation_unsupported" =>
                /\ p.subject \in p.entities /\ RelEnds(p) \subseteq p.entities
                /\ IsTree(p) /\ selected_join_order(p) = Null
           /\ Refusal(p) = "predicate_contradiction" => PlanInconsistent(p)
           /\ Refusal(p) = "" => ~ PlanInconsistent(p)
BY DEF Refusal

\* validate_semantic_plan refuses what cannot be had: a plan that is refused for the
\* orientation of its LEFT joins has no SQL that joins what it asks for, and the
\* filters that it refuses are the ones that tell a column what to be and leave it no
\* value.  Of filters that only exclude values it refuses none, whatever values the
\* column has.
THEOREM RefusalsAreExact ==
    ASSUME PlanSetting
    PROVE  SqlSpec => []RefusalsExact
<1>1. SqlInv => RefusalsExact
  <2> SUFFICES ASSUME SqlInv PROVE RefusalsExact
    OBVIOUS
  <2>1. PlanOK(plan) /\ (stage # "proposed" => reason = Refusal(plan))
    BY DEF SqlInv, PlanSetting
  <2>2. stage = "proposed" => reason = ""
    BY DEF SqlInv
  <2>3. ASSUME reason = "left_join_orientation_unsupported", NEW c \in WrittenSql(plan)
        PROVE  ~ JoinsAsAsked(plan, c)
    <3>1. Refusal(plan) = "left_join_orientation_unsupported"
      BY <2>1, <2>2, <2>3
    <3> QED
      BY <2>1, <3>1, RefusalSays, NoOrderNoSql
  <2>4. Null \notin Int
    BY DEF PlanSetting
  <2>5. ASSUME stage \in {"validated", "refused"}, reason \in {"", "predicate_contradiction"}
        PROVE  (reason = "predicate_contradiction")
               <=> (\/ NothingLeft(plan.preds \cup plan.filters)
                    \/ \E g \in plan.groups : \E i \in DOMAIN g :
                          NothingLeft(plan.preds \cup plan.filters \cup g[i]))
    <3>1. (reason = "predicate_contradiction") <=> PlanInconsistent(plan)
      BY <2>1, <2>5, RefusalSays
    <3> QED
      BY <2>1, <2>4, <3>1, PlanInconsistentIs
  <2> QED
    BY <2>3, <2>5 DEF RefusalsExact
<1> QED
  BY <1>1, SqlInvHolds, PTL
=============================================================================
