---------------------------- MODULE MCEvaluation ----------------------------
(***************************************************************************)
(* The evaluation harness from one judgment to the release verdict, side   *)
(* by side: one case (ResultComparison), a run that suffers faults and one *)
(* that is read meanwhile (EvaluationRun), verdicts over what runs may     *)
(* record and over candidates that change (EvaluationReadiness); "part"    *)
(* tells which of them a behaviour belongs to, and what the others have    *)
(* for variables rests.  The safety properties are those of the three      *)
(* modules, with the constants of the configuration.                       *)
(***************************************************************************)
EXTENDS EvaluationRun, ResultComparison, EvaluationReadiness, TLC

CONSTANTS r1, k1, k2, s0, s1, s2, p0, p1, p2

VARIABLE part

mcvars == <<part, vars, casevars, releasevars>>

-----------------------------------------------------------------------------
(* One case: three rows at most, two of equal rank, so that limits,        *)
(* look-ahead and budgets all cut somewhere                                *)

R1 == <<1, 1>>
R2 == <<1, 2>>
R3 == <<2, 1>>

PopulationQuestions ==
    {[kind |-> "population", limit |-> 0, ordered |-> o] : o \in BOOLEAN}
BoundedQuestions ==
    {[kind |-> "top_n", limit |-> n, ordered |-> TRUE] : n \in {1, 2}}
        \cup {[kind |-> "limit", limit |-> 2, ordered |-> FALSE]}
AllQuestions == PopulationQuestions \cup BoundedQuestions

\* right: the baseline's answer before and after a concurrent write;
\* other: the answer of a query that filters differently.
SmallWorlds ==
    {[right |-> <<p, q>>, other |-> <<r, p>>] :
        <<p, q, r>> \in {<<(<<R1, R2, R3>>), <<R1, R2>>, <<R1, R3>>>>,
                         <<(<<R3, R3, R1>>), <<R3>>, <<R3, R1, R2>>>>,
                         <<<<>>, <<R1>>, <<R1, R2>>>>}}

Query(answer, n, o, s) ==
    [answer |-> answer, limit |-> n, ordered |-> o, supported |-> s]
SomePlans ==
    {Query("right", n, TRUE, TRUE) : n \in 0..3}
    \cup {Query("right", n, FALSE, TRUE) : n \in {0, 2}}
    \cup {Query("other", n, TRUE, TRUE) : n \in {0, 2}}
    \cup {Query("right", n, FALSE, FALSE) : n \in {0, 3}}

-----------------------------------------------------------------------------
(* Runs: a question that should be answered, one that should be refused,   *)
(* one answered from a template                                            *)

Answer == [id |-> "answer", expects |-> "success", template |-> FALSE,
           security |-> TRUE, actor |-> "manager"]
Template == [id |-> "template", expects |-> "success", template |-> TRUE,
             security |-> FALSE, actor |-> "analyst"]
Refuse == [id |-> "refuse", expects |-> "clarification", template |-> FALSE,
           security |-> TRUE, actor |-> "analyst"]

ThreeCases == <<Answer, Refuse, Template>>
RefuseOnly == <<"refuse">>

AllServices == {"succeeded", "provider_failure", "provider_fatal",
                "unsafe_request", "clarification", "unsafe_sql",
                "validation_failed", "conformance_failed", "render_failed",
                "execution_failed"}
FewServices == {"succeeded", "clarification", "provider_fatal"}

AllFilters == {"all", "security", "answer", "unknown"}

TwoSee == k1 :> {"manager", "analyst"} @@ k2 :> {"manager"}

\* Everything the engine may answer, two faults, one reader, who sees all; at
\* most two cases are selected
FaultsNext == Next /\ rd'[k2] = rd[k2] /\ db'[r1].selected # Ids

\* Fewer of both, two readers, every selection of the full suite
Reading == INSTANCE EvaluationRun WITH
    Services <- FewServices,
    Filters <- {"all"}, MaxFaults <- 1

-----------------------------------------------------------------------------
(* Verdicts: five cases, of which four are in the canary suite; the        *)
(* thresholds are scaled so that one answer may be wrong                   *)

Small == {[id |-> "a", type |-> "success", security |-> FALSE],
          [id |-> "d", type |-> "success", security |-> FALSE],
          [id |-> "b", type |-> "success", security |-> FALSE],
          [id |-> "u", type |-> "unsafe", security |-> TRUE],
          [id |-> "c", type |-> "clarification", security |-> FALSE]}
SmallCanary == {"a", "b", "u", "c"}
AllKinds == {"good", "wrong", "open", "failed", "render", "conform", "unreadable"}
OneCatalog == [s \in {s1, s2} |-> "c1"]

\* What runs may record: one configuration, seeded once
ResultsNext == ReleaseNext /\ changes' <= 1 /\ clock' = 0

\* Candidates that change: the answer or the refusal of a case may be wrong
CandidatesNext ==
    /\ ReleaseNext
    /\ \A i \in DOMAIN log' : \A id \in DOMAIN log'[i].results :
          \/ log'[i].results[id] = "good"
          \/ log'[i].results[id] = "wrong" /\ id \in {"a", "u"}

-----------------------------------------------------------------------------
ASSUME SettingsHold == Setting /\ Reading!Setting /\ EvidenceSetting /\ ReleaseSetting

\* A case, or a log, that nothing happens to
CaseRests ==
    /\ CaseInit
    /\ plan = Query("right", 0, FALSE, TRUE)
    /\ case = [kind |-> "population", limit |-> 0, ordered |-> FALSE]
    /\ world.right[1] = <<>>
LogRests ==
    /\ log = <<>> /\ live = NoRun /\ manifest = NoManifest /\ clock = 0 /\ changes = 0
    /\ candidate = [source |-> s0, runtime |-> p0, database |-> Drifted]

MCInit ==
    /\ Init
    /\ \/ part = "case" /\ CaseInit /\ LogRests
       \/ part \in {"faults", "reading"} /\ CaseRests /\ LogRests
       \/ part \in {"results", "candidates"} /\ ReleaseInit /\ CaseRests

MCNext ==
    /\ UNCHANGED part
    /\ \/ part = "case" /\ CaseNext /\ UNCHANGED <<vars, releasevars>>
       \/ part = "faults" /\ FaultsNext /\ UNCHANGED <<casevars, releasevars>>
       \/ part = "reading" /\ Reading!Next /\ UNCHANGED <<casevars, releasevars>>
       \/ part = "results" /\ ResultsNext /\ UNCHANGED <<vars, casevars>>
       \/ part = "candidates" /\ CandidatesNext /\ UNCHANGED <<vars, casevars>>

MCSpec == MCInit /\ [][MCNext]_mcvars

\* The revisions have one catalog and the runtimes differ in nothing but their
\* identity.
CandidateSymmetry == Permutations({s1, s2}) \cup Permutations({p1, p2})
=============================================================================
