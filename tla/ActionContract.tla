---------------------------- MODULE ActionContract ----------------------------
(***************************************************************************)
(* What the action engine promises: a request moves from preview to one    *)
(* outcome, in atomic steps, and only the step that completes it changes   *)
(* target rows.  No workers, locks, deadlines or approvals: an observer    *)
(* sees the status of each request and the rows it has changed.            *)
(***************************************************************************)
CONSTANTS Requests, Records

VARIABLES
    status,     \* status of each request, "none" before its preview
    changed     \* target rows each request has changed

cvars == <<status, changed>>

Undecided == {"draft_preview", "pending_approval"}

CInit == /\ status = [r \in Requests |-> "none"]
         /\ changed = [r \in Requests |-> {}]

Move(r, from, to) == /\ status[r] = from
                     /\ status' = [status EXCEPT ![r] = to]

Preview(r) == Move(r, "none", "draft_preview") /\ UNCHANGED changed

Submit(r) == Move(r, "draft_preview", "pending_approval") /\ UNCHANGED changed

\* Withdrawn by its owner, turned down, or approved without success
Close(r) == /\ \E outcome \in {"cancelled", "rejected", "failed"} :
                  Move(r, "pending_approval", outcome)
            /\ UNCHANGED changed

\* The one step that changes target rows
Complete(r) == /\ Move(r, "pending_approval", "completed")
               /\ \E rows \in SUBSET Records :
                     changed' = [changed EXCEPT ![r] = rows]

\* One expiry sweep may settle several requests at once.
Lapse(S) == /\ \A r \in S : status[r] \in Undecided
            /\ status' = [r \in Requests |->
                             IF r \in S THEN "expired" ELSE status[r]]
            /\ UNCHANGED changed

CNext == \/ \E r \in Requests : Preview(r) \/ Submit(r) \/ Close(r) \/ Complete(r)
         \/ \E S \in SUBSET Requests : Lapse(S)

CSpec == CInit /\ [][CNext]_cvars
=============================================================================
