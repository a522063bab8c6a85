--------------------------- MODULE MCQueryPipeline ---------------------------
(***************************************************************************)
(* The query pipeline with four sets of constants, side by side; "part"    *)
(* tells which of them a behaviour belongs to: "chain", with the constants *)
(* of the configuration, and three instances.  The safety properties are   *)
(* those of QueryPipeline, of all four.                                    *)
(* Table 1 is a department table, table 2 is open to everybody with the    *)
(* permission and restricted for export.                                   *)
(***************************************************************************)
EXTENDS QueryPipeline, TLC

CONSTANTS ann, bob

VARIABLE part

mcvars == <<part, vars>>

Department == [type |-> "department", key |-> 1, default |-> TRUE, department |-> 1]
Context(permissions, scopes) == [permissions |-> permissions, scopes |-> scopes]
Everything == {"can_run_free_query", "can_use_query_templates", "can_query_scoped_data",
               "can_export_results"}
Analyst == Context(Everything, {Department})
Auditor == Context(Everything \cup {"can_export_restricted_results"}, {Department})
Viewer  == Context({"can_use_query_templates"}, {Department})
Moved   == Context(Everything, {})

Resource(scope_type, queryable, exportable) ==
    [queryable |-> queryable, exposed |-> TRUE, scope_type |-> scope_type,
     exportable |-> exportable]
Open      == 1 :> Resource("department", TRUE, TRUE) @@ 2 :> Resource("", TRUE, FALSE)
Withdrawn == 1 :> Resource("department", FALSE, TRUE) @@ 2 :> Resource("", TRUE, FALSE)

SQL(tables, limit, star) == [tables |-> tables, limit |-> limit, star |-> star]
TemplatesOffered == <<[scope_type |-> "department", sql |-> SQL({1}, NoLimit, TRUE)],
                      [scope_type |-> "", sql |-> None]>>

-----------------------------------------------------------------------------
(* One handler at a time: chains of a query, its refreshes and its exports *)

ChainSQL == {SQL({1}, n, FALSE) : n \in {NoLimit, BadLimit, 100, 300, 900}}
AnnAnalyst == {ann :> Analyst}
OpenOnly == {Open}

(* Access and registry change at any time during a handler                 *)

Changes == INSTANCE QueryPipeline WITH
    Users <- {ann, bob},
    RenderedSQL <- {SQL({1}, NoLimit, FALSE), SQL({1, 2}, 300, FALSE)},
    Ops <- {"free", "template", "refresh", "export", "export_card"},
    InitialAccess <- {ann :> Auditor @@ bob :> Auditor},
    AccessChoices <- {Analyst, Viewer, Moved},
    RegistryChoices <- {Open, Withdrawn},
    Totals <- {100}, MaxRuns <- 2, MaxRequests <- 2

(* Two requests, each of which needs both connections of the pool at times *)

Pool == INSTANCE QueryPipeline WITH
    Sessions <- {1, 2}, RenderedSQL <- {SQL({1}, NoLimit, FALSE)},
    Ops <- {"free", "template", "refresh"},
    Totals <- {100}

(* Every small access context against every small registry; nobody asks    *)

Scopes == {[type |-> "global", key |-> 0, default |-> d, department |-> None] :
              d \in BOOLEAN}
          \cup {[type |-> "department", key |-> k, default |-> d, department |-> n] :
                  k \in {1, 2}, d \in BOOLEAN, n \in {1, None}}
          \cup {[type |-> "team", key |-> 3, default |-> d, department |-> 2] :
                  d \in BOOLEAN}

\* No scope twice, at most one default, at most two scopes
ScopeSets == {S \in {{}} \cup {{a, b} : a, b \in Scopes} :
    /\ \A a, b \in S : a # b => <<a.type, a.key>> # <<b.type, b.key>>
    /\ \A a, b \in S : a.default /\ b.default => a = b}

Contexts == {Context(p, s) : p \in {{}, {"can_query_scoped_data"}}, s \in ScopeSets}

Registries == {1 :> Resource(t, q, TRUE) @@ 2 :> Resource("department", TRUE, TRUE) :
                  t \in {"", "department", "team"}, q \in BOOLEAN}

Decision == INSTANCE QueryPipeline WITH
    InitialAccess <- {ann :> c : c \in Contexts}, InitialRegistry <- Registries,
    Ops <- {}

-----------------------------------------------------------------------------
ASSUME SettingsHold == Setting /\ Changes!Setting /\ Pool!Setting /\ Decision!Setting

MCInit == \/ part = "chain" /\ Init
          \/ part = "changes" /\ Changes!Init
          \/ part = "pool" /\ Pool!Init
          \/ part = "decision" /\ Decision!Init

MCNext == /\ UNCHANGED part
          /\ \/ part = "chain" /\ Next
             \/ part = "changes" /\ Changes!Next
             \/ part = "pool" /\ Pool!Next

\* Handlers run, the provider client and the statements have timeouts, and so
\* does the wait for a pooled connection.
PoolStep(s) == part = "pool" /\ Pool!Step(s) /\ UNCHANGED part

MCSpec == MCInit /\ [][MCNext]_mcvars /\ \A s \in {1, 2} : WF_mcvars(PoolStep(s))

-----------------------------------------------------------------------------
(* Every request is answered, although each holds a connection while it waits  *)
(* for another (db/session.py: the pool's timeout).                            *)
EveryQueryEnds ==
    \A s \in {1, 2} : (part = "pool" /\ ses[s].pc = "connect")
                         ~> (part = "pool" /\ ses[s].pc = "done")
=============================================================================
