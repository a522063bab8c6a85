---------------------------- MODULE QueryDelivery ----------------------------
(***************************************************************************)
(* How many rows a query delivers and what is said about them: the LIMIT   *)
(* the validator adds or lowers (query_engine/sql_validator.py), the       *)
(* executor's row loop and its verdict on completeness                     *)
(* (query_engine/sql_executor.py) and the provenance of the bound that is  *)
(* restored when stored SQL is executed again (query_engine/delivery.py).  *)
(*                                                                         *)
(* A LIMIT is a number, NoLimit (absent) or BadLimit (two of them, or not a   *)
(* literal). A bound is what validation records about it.                  *)
(***************************************************************************)
EXTENDS Integers, FiniteSetsExt

CONSTANTS NoLimit, BadLimit

DEFAULT_QUERY_LIMIT == 100
MAX_QUERY_LIMIT == 500
DEFAULT_ROW_LIMIT == 500
CARD_REFRESH_ROW_LIMIT == 100
EXPORT_ROW_LIMIT == 1000

Unbounded == [valid |-> FALSE, input |-> NoLimit, effective |-> NoLimit, source |-> "unknown"]

Bound(input, effective, source) ==
    [valid |-> TRUE, input |-> input, effective |-> effective, source |-> source]

\* The sanitized SQL carries the effective limit as its literal.
_apply_limit(limit) ==
    IF limit = BadLimit THEN Unbounded
    ELSE IF limit = NoLimit THEN Bound(NoLimit, DEFAULT_QUERY_LIMIT, "safety_added")
    ELSE IF limit <= MAX_QUERY_LIMIT THEN Bound(limit, limit, "input")
    ELSE Bound(limit, MAX_QUERY_LIMIT, "safety_clamped")

\* The bound of a validation of stored SQL, given what was recorded when the
\* SQL was stored
restore_saved_bound(bound, prior) ==
    LET unknown == [bound EXCEPT !.input = NoLimit, !.source = "unknown"]
        same == /\ bound.valid /\ prior.valid
                /\ prior.effective = bound.effective /\ bound.source = "input"
    IN  IF \/ same /\ prior.source = "input" /\ prior.input = prior.effective
           \/ /\ same /\ prior.source = "safety_added"
              /\ prior.input = NoLimit /\ prior.effective = DEFAULT_QUERY_LIMIT
           \/ /\ same /\ prior.source = "safety_clamped" /\ prior.input # NoLimit
              /\ prior.input > prior.effective /\ prior.effective = MAX_QUERY_LIMIT
        THEN [bound EXCEPT !.input = prior.input, !.source = prior.source]
        ELSE unknown

\* The row loop: "stop" is the number of rows after which a payload or time
\* budget ended it, NoLimit without a budget or if the loop was not cut.
Fetched(total, bound, row_limit, stop) ==
    LET offered == Min({total, bound.effective})
        rows    == Min({offered, row_limit} \cup (IF stop = NoLimit THEN {} ELSE {stop}))
    IN  [rows      |-> rows,
         truncated |-> stop = NoLimit /\ offered > row_limit,
         cut       |-> stop # NoLimit]

\* Mutant: only the loop's own truncation counts.
completeness_of_loop(bound, fetched) ==
    IF fetched.cut THEN "unknown"
    ELSE IF fetched.truncated THEN "safety_limited"
    ELSE IF bound.source = "unknown" THEN "unknown" ELSE "complete"

\* The end of execute_validated_sql
completeness(bound, fetched) ==
    IF fetched.cut THEN "unknown"
    ELSE IF fetched.truncated
            \/ (/\ bound.source \in {"safety_added", "safety_clamped"}
                /\ fetched.rows >= bound.effective) THEN "safety_limited"
    ELSE IF bound.source = "unknown" THEN "unknown" ELSE "complete"
=============================================================================
