------------------------- MODULE EvaluationReadiness -------------------------
(***************************************************************************)
(* The release verdict: from the finished evaluation runs in the database *)
(* and the configuration of the process that is asked, stability of the   *)
(* canary runs and readiness of a full run are computed anew by every     *)
(* request (backend/app/evaluation/{environment,stability,readiness,      *)
(* readiness_policy,readiness_service}.py).  Operators seed the database, *)
(* write a manifest, start runs, deploy and reconfigure in any order.     *)
(* What a run recorded for a case is one of the Kinds below.              *)
(***************************************************************************)
EXTENDS Integers, Sequences, FiniteSets, FiniteSetsExt

CONSTANTS
    DataSet,    \* the data set: [id, type, security]; type is "success",
                \* "unsafe" or "clarification"
    CanaryIds,  \* identifiers of the canary suite
    Kinds,      \* what a run may record for a case that expects a result
    Sources,    \* source revisions
    CatalogOf,  \* [Sources -> semantic catalog of the revision]
    Runtimes,   \* provider settings and installed versions
    Required,   \* STABILITY_REQUIRED_RUN_COUNT
    Window,     \* runs latest_stability_assessment looks at
    ExecutionPct, AccuracyPct, ClarificationPct,  \* V1_*_THRESHOLD
    MaxAge,     \* MAX_REFERENCE_AGE
    MaxRuns, MaxClock, MaxChanges  \* bounds of a behaviour

VARIABLES
    log,        \* finished runs in the order of completed_at
    live,       \* the run that is going on, or NoRun
    manifest,   \* the manifest written last, or NoManifest
    candidate,  \* [source, runtime, database]: what is deployed
    clock, changes

releasevars == <<log, live, manifest, candidate, clock, changes>>

\* What is asked of the constants: identifiers name cases, the canary suite has
\* a case for every metric, and no threshold is above 100 percent.
ReleaseSetting ==
    /\ IsFiniteSet(DataSet)
    /\ \A c, d \in DataSet : c.id = d.id => c = d
    /\ \A c \in DataSet : /\ c.type \in {"success", "unsafe", "clarification"}
                          /\ c.security \in BOOLEAN
    /\ CanaryIds \subseteq {c.id : c \in DataSet}
    /\ \A t \in {"success", "unsafe", "clarification"} :
          \E c \in DataSet : c.id \in CanaryIds /\ c.type = t
    /\ \E c \in DataSet : c.id \in CanaryIds /\ c.security
    /\ "good" \in Kinds
    /\ Kinds \subseteq {"good", "wrong", "open", "failed", "render", "conform", "unreadable"}
    /\ {ExecutionPct, AccuracyPct, ClarificationPct} \subseteq 0..100
    /\ Required \in Nat \ {0}

Absent == "none"
NoRun == [suite |-> Absent]
NoManifest == [source |-> Absent]
Drifted == -1   \* a database that is no longer as it was seeded
Mock == [source |-> Absent]   \* a run with the mock provider has no environment

SuiteIds(suite) ==
    CASE suite = "canary" -> CanaryIds
      [] suite = "full" -> {c.id : c \in DataSet}
      [] suite = "filtered" -> {c.id : c \in {d \in DataSet : d.security}}
Entry(id) == CHOOSE c \in DataSet : c.id = id

-----------------------------------------------------------------------------
(* What a stored result says *)

\* A case that expects no result is either handled as expected ("good") or
\* answered ("wrong"); "unreadable" is a row the parsers reject.
Observation(c, kind) ==
    LET answers == c.type = "success" IN
    [id |-> c.id,
     outcome |-> IF ~answers /\ kind # "wrong" THEN c.type
                 ELSE IF kind \in {"good", "wrong", "open"} THEN "success"
                 ELSE "execution_failed",
     attempted |-> IF answers THEN kind \notin {"render", "conform"}
                   ELSE kind = "wrong",
     succeeded |-> IF answers THEN kind \in {"good", "wrong", "open"}
                   ELSE kind = "wrong",
     correct |-> answers /\ kind = "good",
     unestablished |-> answers /\ kind = "open",
     passed |-> kind = "good",
     renderer |-> kind = "render",
     conformance |-> kind = "conform",
     stage |-> IF answers /\ kind \in {"failed", "render", "conform"}
               THEN kind ELSE Absent]

Observations(run) ==
    {Observation(Entry(id), run.results[id]) : id \in DOMAIN run.results}

-----------------------------------------------------------------------------
(* Environment identities *)

\* reference_time_is_eligible; the future skew is below one tick.
reference_time_is_eligible(ref, started) == started - ref \in 0..MaxAge

matches_current_provider_runtime(env) == env.runtime = candidate.runtime
current_catalog == CatalogOf[candidate.source]

\* build_evaluation_environment_manifest after a seed at reference time ref.
build_manifest(ref) ==
    [source |-> candidate.source, runtime |-> candidate.runtime,
     database |-> ref, ref |-> ref]

\* validate_evaluation_environment_manifest: everything the manifest froze is
\* still so when the run is started.
validate_manifest ==
    /\ manifest # NoManifest
    /\ manifest.runtime = candidate.runtime
    /\ manifest.source = candidate.source
    /\ manifest.database = candidate.database
    /\ clock - manifest.ref \in 0..MaxAge

-----------------------------------------------------------------------------
(* Rates *)

AtLeast(good, S, pct) == 100 * Cardinality(good) >= pct * Cardinality(S)
Type(S, t) == {o \in S : Entry(o.id).type = t}
Secured(S) == {o \in S : Entry(o.id).security}
Executed(o) == o.outcome = "success" /\ o.attempted /\ o.succeeded
Refused(o) == o.outcome = Entry(o.id).type /\ ~o.attempted

\* The metric gates of _threshold_failure and evaluate_v1_readiness, in order.
Metrics(S) ==
    LET answerable == Type(S, "success")
        unsafe     == Type(S, "unsafe")
        unclear    == Type(S, "clarification")
    IN  <<[of |-> answerable,
           met |-> AtLeast({o \in answerable : Executed(o)}, answerable, ExecutionPct)],
          [of |-> answerable,
           met |-> AtLeast({o \in answerable : o.correct}, answerable, AccuracyPct)],
          [of |-> unsafe, met |-> \A o \in unsafe : Refused(o)],
          [of |-> unclear,
           met |-> AtLeast({o \in unclear : Refused(o)}, unclear, ClarificationPct)],
          [of |-> Secured(S), met |-> \A o \in Secured(S) : o.passed]>>

-----------------------------------------------------------------------------
(* Stability *)

Readable(run) == \A id \in DOMAIN run.results : run.results[id] # "unreadable"

\* Mutation: runs of other provider settings count too.
_parse_envelope_of_any_runtime(run) ==
    /\ run.status = "succeeded"
    /\ run.env # Mock
    /\ run.suite = "canary"
    /\ run.catalog = current_catalog
    /\ reference_time_is_eligible(run.env.ref, run.started)

\* _parse_envelope: a succeeded, unfiltered canary run with the provider,
\* whose environment is that of the running configuration.
_parse_envelope(run) ==
    /\ run.status = "succeeded"
    /\ run.env # Mock
    /\ run.suite = "canary"
    /\ run.catalog = current_catalog
    /\ matches_current_provider_runtime(run.env)
    /\ reference_time_is_eligible(run.env.ref, run.started)

\* _parse_run: a result for every case, each readable.
_parse_run(run) == DOMAIN run.results = SuiteIds("canary") /\ Readable(run)

\* _threshold_failure: the first metric without cases or below its threshold.
_threshold_failure(S) ==
    \E i \in 1..5 : Metrics(S)[i].of = {} \/ ~Metrics(S)[i].met

\* The checks on one canary run, in the order of the code.
RunVerdict(run) ==
    LET S == Observations(run) IN
    IF \E o \in S : o.unestablished THEN "incomplete"
    ELSE IF \/ \E o \in S : o.renderer \/ o.conformance
            \/ \E o \in Secured(S) : ~o.passed
            \/ _threshold_failure(S)
    THEN "failed" ELSE "passed"

\* Outcome, pass and score, contract and failure stage agree case by case.
Oscillates(R) ==
    \E p, q \in R : \E o \in Observations(p), u \in Observations(q) :
        /\ o.id = u.id
        /\ <<o.outcome, o.passed, o.correct, o.stage>>
              # <<u.outcome, u.passed, u.correct, u.stage>>

\* Indices of the runs latest_stability_assessment selects from the finished
\* runs L: the newest succeeded runs with the provider, whatever their suite.
StabilityWindow(L) ==
    LET eligible == {i \in DOMAIN L : L[i].status = "succeeded" /\ L[i].env # Mock}
    IN  {i \in eligible : Cardinality({j \in eligible : j > i}) < Window}

Envelopes(L) == {i \in StabilityWindow(L) : _parse_envelope(L[i]) /\ _parse_run(L[i])}
Group(L, E, i) == {j \in E : L[j].env = L[i].env}
Newest(S) == {i \in S : Cardinality({j \in S : j > i}) < Required}

\* _best_partial_group: the largest group, the newest of equals.
_best_partial_group(L, E) ==
    LET largest == {i \in E : \A j \in E : Cardinality(Group(L, E, i))
                                           >= Cardinality(Group(L, E, j))}
    IN  IF E = {} THEN {} ELSE Newest(Group(L, E, Max(largest)))

_assessment(L, status, runs) ==
    [status |-> status, runs |-> runs,
     env |-> IF runs = {} THEN Mock ELSE L[Max(runs)].env]

\* evaluate_stability_canary: the newest runs of the complete group that was
\* extended last, run by run, then against each other.
evaluate_stability_canary(L) ==
    LET E == Envelopes(L)
        whole == {i \in E : Cardinality(Group(L, E, i)) >= Required}
        chosen == Newest(Group(L, E, Max(whole)))
        bad == {i \in chosen : RunVerdict(L[i]) # "passed"}
    IN  IF whole = {} THEN _assessment(L, "incomplete", _best_partial_group(L, E))
        ELSE IF bad # {} THEN _assessment(L, RunVerdict(L[Max(bad)]), chosen)
        ELSE IF Oscillates({L[i] : i \in chosen})
        THEN _assessment(L, "failed", chosen)
        ELSE _assessment(L, "passed", chosen)

-----------------------------------------------------------------------------
(* Readiness *)

_matches_stability_candidate(run, stability) ==
    /\ stability.status = "passed"
    /\ run.env = stability.env

\* _validate_evidence: a whole full run of the candidate.
_validate_evidence(run, stability) ==
    /\ run.status = "succeeded"
    /\ run.env # Mock
    /\ run.suite = "full"
    /\ run.catalog = current_catalog
    /\ matches_current_provider_runtime(run.env)
    /\ reference_time_is_eligible(run.env.ref, run.started)
    /\ _matches_stability_candidate(run, stability)
    /\ DOMAIN run.results = SuiteIds("full")
    /\ Readable(run)

Verdict(v, qualifies, run) == [verdict |-> v, qualifies |-> qualifies, run |-> run]

_stability_blocked(stability) ==
    Verdict(IF stability.status = "failed" THEN "not_ready" ELSE "incomplete", FALSE, 0)

\* evaluate_v1_readiness of run i of L; the deterministic gate is a constant
\* of the service.
evaluate_v1_readiness(L, i, stability) ==
    LET S == Observations(L[i])
        gates == Metrics(S)
        sound == \A o \in S : ~o.renderer /\ ~o.conformance
    IN  IF stability.status # "passed" THEN _stability_blocked(stability)
        ELSE IF \/ ~_validate_evidence(L[i], stability)
                \/ \E o \in S : o.unestablished
        THEN Verdict("incomplete", FALSE, i)
        ELSE Verdict(IF \E k \in 1..5 : gates[k].of = {} THEN "incomplete"
                     ELSE IF sound /\ \A k \in 1..5 : gates[k].met
                     THEN "ready" ELSE "not_ready", TRUE, i)

\* latest_readiness_assessment: the newest run that qualifies.
latest_readiness_assessment(L) ==
    LET stability == evaluate_stability_canary(L)
        tried == {i \in DOMAIN L :
                    /\ L[i].status = "succeeded" /\ L[i].env # Mock
                    /\ L[i].catalog = current_catalog
                    /\ evaluate_v1_readiness(L, i, stability).qualifies}
    IN  IF tried # {} THEN evaluate_v1_readiness(L, Max(tried), stability)
        ELSE IF stability.status # "passed" THEN _stability_blocked(stability)
        ELSE Verdict("incomplete", FALSE, 0)

-----------------------------------------------------------------------------
(* Operators of the system *)

ReleaseInit ==
    /\ log = <<>> /\ live = NoRun /\ manifest = NoManifest
    /\ candidate \in [source : Sources, runtime : Runtimes, database : {Drifted}]
    /\ clock = 0 /\ changes = 0

Change == changes < MaxChanges /\ changes' = changes + 1

\* The database is reset to the seed of a reference time not in the future
\* and a manifest is written for what is deployed.
Seed(ref) ==
    /\ ref \in 0..clock /\ Change
    /\ candidate' = [candidate EXCEPT !.database = ref]
    /\ manifest' = build_manifest(ref)
    /\ UNCHANGED <<log, live, clock>>

\* Somebody changes a fingerprinted table.
Drift ==
    /\ candidate.database # Drifted /\ Change
    /\ candidate' = [candidate EXCEPT !.database = Drifted]
    /\ UNCHANGED <<log, live, manifest, clock>>

Deploy(s) ==
    /\ s # candidate.source /\ Change
    /\ candidate' = [candidate EXCEPT !.source = s]
    /\ UNCHANGED <<log, live, manifest, clock>>

Configure(r) ==
    /\ r # candidate.runtime /\ Change
    /\ candidate' = [candidate EXCEPT !.runtime = r]
    /\ UNCHANGED <<log, live, manifest, clock>>

Tick ==
    /\ clock < MaxClock /\ clock' = clock + 1
    /\ UNCHANGED <<log, live, manifest, candidate, changes>>

\* run_cli with the provider: the manifest is validated, then the run starts.
StartRun(suite) ==
    /\ live = NoRun /\ Len(log) < MaxRuns
    /\ validate_manifest
    /\ live' = [suite |-> suite, env |-> manifest, catalog |-> current_catalog,
                started |-> clock]
    /\ UNCHANGED <<log, manifest, candidate, clock, changes>>

\* With the mock provider there is no manifest.
StartMock ==
    /\ live = NoRun /\ Len(log) < MaxRuns
    /\ live' = [suite |-> "full", env |-> Mock, catalog |-> current_catalog,
                started |-> clock]
    /\ UNCHANGED <<log, manifest, candidate, clock, changes>>

\* The row of the run that is going on, when it ends.
Ended(status, results) ==
    [suite |-> live.suite, env |-> live.env, catalog |-> live.catalog,
     started |-> live.started, status |-> status, results |-> results]

Possible(c) == IF c.type = "success" THEN Kinds ELSE Kinds \cap {"good", "wrong", "unreadable"}

\* The run ends; at most one case of it is not as it should be.
EndRun(id, kind) ==
    /\ live # NoRun
    /\ id \in SuiteIds(live.suite) /\ kind \in Possible(Entry(id))
    /\ log' = Append(log, Ended("succeeded",
            [j \in SuiteIds(live.suite) |-> IF j = id THEN kind ELSE "good"]))
    /\ live' = NoRun
    /\ UNCHANGED <<manifest, candidate, clock, changes>>

\* A fatal case ends the run: the later cases have no results.
FailRun ==
    /\ live # NoRun
    /\ log' = Append(log, Ended("failed", <<>>))
    /\ live' = NoRun
    /\ UNCHANGED <<manifest, candidate, clock, changes>>

\* The process stops: the run stays RUNNING and is never evidence.
LoseRun ==
    /\ live # NoRun /\ live' = NoRun /\ Change
    /\ UNCHANGED <<log, manifest, candidate, clock>>

ReleaseNext ==
    \/ \E ref \in 0..MaxClock : Seed(ref)
    \/ \E s \in Sources : Deploy(s)
    \/ \E r \in Runtimes : Configure(r)
    \/ Drift \/ Tick \/ FailRun \/ LoseRun \/ StartMock
    \/ \E suite \in {"canary", "full", "filtered"} : StartRun(suite)
    \/ \E c \in DataSet, kind \in Kinds : EndRun(c.id, kind)

ReleaseSpec == ReleaseInit /\ [][ReleaseNext]_releasevars

-----------------------------------------------------------------------------
(* Properties *)

Answered == latest_readiness_assessment(log)
Ready == Answered.verdict = "ready"
Faulty(run) == {id \in DOMAIN run.results : run.results[id] # "good"}
RightShare(run, t, pct) ==
    LET asked == {id \in DOMAIN run.results : Entry(id).type = t}
    IN  100 * Cardinality(asked \ Faulty(run)) >= pct * Cardinality(asked)
OfCandidate(run) ==
    run.env # Mock /\ run.env.runtime = candidate.runtime /\ run.catalog = current_catalog

\* READY is earned: a full run of the running configuration in which every
\* unsafe question was refused, every security case passed, enough of the other
\* cases are right and no result is open, unreadable or a planner defect, and as
\* many canary runs of the very same environment, alike case by case and started
\* while its reference time was fresh.  And NOT_READY is a judgment, not a lack of
\* evidence: some run of the running configuration recorded something that is
\* wrong.  The running configuration is the runtime and the catalog: that is what the
\* readers compare.  They do not compare source revisions, so a verdict outlives a
\* change of the source, which docs/evaluation/v1-quality-gates.md:88 says
\* invalidates the evidence.
VerdictIsEarned ==
    /\ Ready => \E f \in DOMAIN log :
          /\ log[f].suite = "full" /\ log[f].status = "succeeded" /\ OfCandidate(log[f])
          /\ \A id \in Faulty(log[f]) :
                /\ Entry(id).type # "unsafe" /\ ~Entry(id).security
                /\ log[f].results[id] \in {"wrong", "failed"}
          /\ RightShare(log[f], "success", AccuracyPct)
          /\ RightShare(log[f], "clarification", ClarificationPct)
          /\ \E C \in SUBSET {i \in DOMAIN log : log[i].suite = "canary"} :
                /\ Cardinality(C) = Required
                /\ \A i \in C : /\ log[i].status = "succeeded"
                                /\ log[i].env = log[f].env
                                /\ log[i].started - log[f].env.ref \in 0..MaxAge
                                /\ log[i].results = log[Max(C)].results
                /\ \A id \in Faulty(log[Max(C)]) :
                      log[Max(C)].results[id] \in {"wrong", "failed"}
    /\ Answered.verdict = "not_ready" =>
          \E i \in DOMAIN log :
              /\ OfCandidate(log[i]) /\ log[i].status = "succeeded"
              /\ \E id \in Faulty(log[i]) : log[i].results[id] \notin {"open", "unreadable"}
=============================================================================
