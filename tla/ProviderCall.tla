----------------------------- MODULE ProviderCall -----------------------------
(***************************************************************************)
(* One semantic-planning call after another to the language model:         *)
(* query_engine/openai_provider.py (attempts, retries by the client,       *)
(* classification, measurement), llm_provider.py (what is kept of a        *)
(* measurement and how measurements add up), plan_generator.py and the     *)
(* reading of its result in service.py.                                    *)
(*                                                                         *)
(* Token counts are one number; a usage block is "full" when all four      *)
(* counters are there. What the provider bills is known to the model only. *)
(***************************************************************************)
EXTENDS Integers, Sequences

CONSTANTS Tokens,      \* counts a response may report
          MaxRetries,  \* settings.max_retries, at most 2
          MaxCalls, None

MAX_PROVIDER_USAGE_COUNT == 1000000000
MAX_PROVIDER_HTTP_ATTEMPTS == 64

VARIABLES call,   \* the call under way: the client's attempts and their usages
          log     \* finished calls: what was kept and what really happened

callvars == <<call, log>>

\* What is kept of a call.
Measurement == [attempts : Nat \cup {None}, tokens : Nat \cup {None}, complete : BOOLEAN]

ASSUME ProviderAssumption ==
    /\ Tokens \subseteq Nat /\ MaxRetries \in 0..2 /\ MaxCalls \in Nat
    /\ None \notin Nat /\ None \notin Measurement

NoUsage == [full |-> FALSE, tokens |-> None]
Idle == [pc |-> "idle", attempts |-> 0, usages |-> <<>>, billed |-> 0, end |-> None]

-----------------------------------------------------------------------------
(* Measurement                                                             *)

SumUp(ns) ==
    LET upto[k \in 0..Len(ns)] == IF k = 0 THEN 0 ELSE upto[k - 1] + ns[k]
    IN  upto[Len(ns)]

\* What the usage blocks that can be read report together
Reported(usages) ==
    SumUp([i \in DOMAIN usages |-> IF usages[i].tokens = None THEN 0 ELSE usages[i].tokens])

Unread(usages) == \A i \in DOMAIN usages : usages[i].tokens = None

\* Mutant: a call is complete when every response that came had a full usage.
_safe_response_metadata_lenient(attempts, usages) ==
    [attempts |-> IF attempts = 0 THEN None ELSE attempts,
     tokens   |-> IF Unread(usages) \/ Reported(usages) > MAX_PROVIDER_USAGE_COUNT THEN None
                  ELSE Reported(usages),
     complete |-> /\ usages # <<>> /\ \A i \in DOMAIN usages : usages[i].full
                  /\ Reported(usages) <= MAX_PROVIDER_USAGE_COUNT]

\* _safe_response_metadata for a client of our own
_safe_response_metadata(attempts, usages) ==
    [attempts |-> IF attempts = 0 THEN None ELSE attempts,
     tokens   |-> IF Unread(usages) \/ Reported(usages) > MAX_PROVIDER_USAGE_COUNT THEN None
                  ELSE Reported(usages),
     complete |-> /\ attempts = Len(usages)
                  /\ usages # <<>> /\ \A i \in DOMAIN usages : usages[i].full
                  /\ Reported(usages) <= MAX_PROVIDER_USAGE_COUNT]

\* sanitize_provider_measurement; None is no measurement at all
sanitize_provider_measurement(m) ==
    IF \/ m.attempts # None /\ m.attempts > MAX_PROVIDER_HTTP_ATTEMPTS
       \/ m.complete /\ m.tokens = None
    THEN None ELSE m

\* aggregate_provider_measurements, of the calls that have a measurement
aggregate_provider_measurements(ms) ==
    LET given == {i \in DOMAIN ms : ms[i] # None}
        total(column) ==
            IF \E i \in given : column[i] = None THEN None
            ELSE SumUp([i \in DOMAIN ms |-> IF i \in given THEN column[i] ELSE 0])
        bounded(n) == IF n # None /\ n <= MAX_PROVIDER_USAGE_COUNT THEN n ELSE None
    IN  [attempts |-> bounded(total([i \in given |-> ms[i].attempts])),
         tokens   |-> IF \A i \in given : ms[i].complete
                      THEN bounded(total([i \in given |-> ms[i].tokens])) ELSE None]

-----------------------------------------------------------------------------
(* The outcome of a call as the service reads it                           *)

\* How the client's work ended: an answer of the model or an exception
Answers == {"plan", "clarification", "unsafe_request"}
Retried == {"timeout", "connection", "rate_limit", "server_error"}
Faults  == Retried \cup {"authentication", "bad_request", "unparsable"}
Defects == {"refusal", "incomplete", "not_parsed"}

\* _safe_provider_failure and the checks of the response
failure_code(end) ==
    CASE end = "authentication" -> "provider_authentication_failed"
      [] end = "timeout" -> "provider_timeout"
      [] end = "refusal" -> "provider_refusal"
      [] end \in {"unparsable", "incomplete", "not_parsed"} -> "provider_response_invalid"
      [] end \in {"connection", "rate_limit", "server_error", "bad_request"} ->
            "provider_unavailable"
      [] OTHER -> None

fatal(end) == end = "authentication"

\* PlanGenerator: every failure is a clarification with a failure code; a plan
\* has still to be validated and rendered.
plan_result(end) ==
    [outcome |-> IF end \in {"plan", "unsafe_request"} THEN end ELSE "clarification",
     failure |-> failure_code(end)]

\* QueryEngineService.run up to the generated SQL
service_status(result, plan_ok) ==
    CASE result.outcome = "unsafe_request" -> "blocked"
      [] result.outcome # "unsafe_request" /\ result.failure # None -> "failed"
      [] result.outcome = "clarification" /\ result.failure = None -> "clarification_required"
      [] OTHER -> IF plan_ok THEN "generated" ELSE "failed"

-----------------------------------------------------------------------------
(* Steps                                                                   *)

\* Without tables to show no call is made.
Skip ==
    /\ call.pc = "idle" /\ Len(log) < MaxCalls
    /\ log' = Append(log, [measurement |-> None, attempts |-> 0, billed |-> 0,
                           end |-> "no_authorized_schema", fatal |-> FALSE,
                           status |-> service_status(plan_result("no_authorized_schema"), TRUE)])
    /\ UNCHANGED call

Begin ==
    /\ call.pc = "idle" /\ Len(log) < MaxCalls
    /\ call' = [Idle EXCEPT !.pc = "send"]
    /\ UNCHANGED log

Send ==
    /\ call.pc = "send"
    /\ call' = [call EXCEPT !.pc = "sent", !.attempts = @ + 1]
    /\ UNCHANGED log

\* After a fault that the client retries it sends again while it may.
After(end) == IF end \in Retried /\ call.attempts <= MaxRetries THEN "send" ELSE "ended"

\* No response: the request may have been worked on, and billed, or not.
Lost ==
    /\ call.pc = "sent"
    /\ \E end \in {"timeout", "connection"}, n \in Tokens \cup {0} :
         call' = [call EXCEPT !.pc = After(end), !.end = end, !.billed = @ + n]
    /\ UNCHANGED log

\* A response, with a usage block that is full, partial or unreadable
Respond ==
    /\ call.pc = "sent"
    /\ \E end \in (Faults \ {"timeout", "connection"}) \cup Answers \cup Defects,
          n \in Tokens, readable \in {"full", "partial", "none"} :
         call' = [call EXCEPT !.pc = After(end), !.end = end, !.billed = @ + n,
                     !.usages = Append(@, IF readable = "none" THEN NoUsage
                                          ELSE [full |-> readable = "full", tokens |-> n])]
    /\ UNCHANGED log

\* The result, or the failure with its measurement, reaches the stored run.
Finish ==
    /\ call.pc = "ended"
    /\ \E plan_ok \in BOOLEAN :
         log' = Append(log,
            [measurement |->
                 sanitize_provider_measurement(_safe_response_metadata(call.attempts, call.usages)),
             attempts |-> call.attempts, billed |-> call.billed, end |-> call.end,
             fatal |-> fatal(call.end), status |-> service_status(plan_result(call.end), plan_ok)])
    /\ call' = Idle

CallInit == call = Idle /\ log = <<>>
CallNext == Skip \/ Begin \/ Send \/ Lost \/ Respond \/ Finish
CallSpec == CallInit /\ [][CallNext]_callvars

-----------------------------------------------------------------------------
(* Properties                                                              *)

Total == aggregate_provider_measurements([i \in DOMAIN log |-> log[i].measurement])

(* A call that reached the network leaves a measurement with the number of its *)
(* attempts, however it ended (openai_provider.py: generate_plan); and a token *)
(* total that is reported, for one call or for all calls of a run, is what     *)
(* the provider billed for every attempt of every call, those without a        *)
(* readable answer included; otherwise no total is reported                    *)
(* (openai_provider.py: _safe_response_metadata, llm_provider.py:              *)
(* aggregate_provider_measurements).                                           *)
UsageHonest ==
    /\ \A i \in DOMAIN log :
         LET m == log[i].measurement
         IN  /\ log[i].attempts > 0 => m # None /\ m.attempts = log[i].attempts
             /\ m # None /\ m.complete => m.tokens = log[i].billed
    /\ Total.attempts # None => Total.attempts = SumUp([i \in DOMAIN log |-> log[i].attempts])
    /\ Total.tokens # None => Total.tokens = SumUp([i \in DOMAIN log |-> log[i].billed])
=============================================================================
