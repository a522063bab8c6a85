--------------------------- MODULE MCActionLiveness ---------------------------
(***************************************************************************)
(* Fair lock queues and a deadlock detector, over three sets of constants: *)
(* "moves", those of the configuration, with one request on a row that     *)
(* moves to another department and is sensitive there, an approver of both *)
(* and escalation; and two instances.                                      *)
(***************************************************************************)
EXTENDS MCActionLifecycle

VARIABLE part

mcvars == <<part, vars>>

Both == {r1, r2}

-----------------------------------------------------------------------------
(* Views: two approvals of overlapping targets, while row 1 leaves the     *)
(* approvers' department and comes back.  The second revalidation of the   *)
(* one locks it when it is in view again, and the other, which holds it,   *)
(* waits for what the first has locked.                                    *)
Views == INSTANCE ActionLifecycle WITH
    Requests <- Both, Owner <- [r \in Both |-> admin], ScopeOf <- [r \in Both |-> it],
    Records <- {1, 2}, Candidates <- [r \in Both |-> IF r = r1 THEN {1, 2} ELSE {1}],
    DepOf <- <<1, 1>>, RowChoices <- LeavingRow, DepChoices <- {"plain"},
    InitialAccess <- AllHeads, SCOPED_APPROVAL_RECORD_LIMIT <- 2, MaxTime <- 0

\* A bound: row 2 stays where it is.
SecondStays == row[2].dept = it

(* Sweeps: two requests and their expiry; two sweeps may lock the pairs in *)
(* opposite orders.                                                        *)
Sweeps == INSTANCE ActionLifecycle WITH
    Requests <- Both, Owner <- [r \in Both |-> admin], ScopeOf <- [r \in Both |-> it],
    Candidates <- [r \in Both |-> {1}], RowChoices <- OneRow, DepChoices <- {"plain"},
    InitialAccess <- AllHeads, SCOPED_APPROVAL_RECORD_LIMIT <- 2

-----------------------------------------------------------------------------
MCInit == \/ part = "views" /\ Views!Init /\ SecondStays
          \/ part = "sweeps" /\ Sweeps!Init
          \/ part = "moves" /\ Init

MCNext == /\ UNCHANGED part
          /\ \/ part = "views" /\ Views!Next /\ SecondStays'
             \/ part = "sweeps" /\ Sweeps!Next
             \/ part = "moves" /\ Next

\* The fairness of ActionLifecycle, in each part
Runs(w) == /\ UNCHANGED part
           /\ \/ part = "views" /\ (Views!Serve(w) \/ Views!Advance(w))
              \/ part = "sweeps" /\ (Sweeps!Serve(w) \/ Sweeps!Advance(w))
              \/ part = "moves" /\ (Serve(w) \/ Advance(w))

Detected(w) == /\ UNCHANGED part
               /\ \/ part = "views" /\ Views!DeadlockVictim(w)
                  \/ part = "sweeps" /\ Sweeps!DeadlockVictim(w)
                  \/ part = "moves" /\ DeadlockVictim(w)

MCSpec == MCInit /\ [][MCNext]_mcvars
          /\ \A w \in Workers : SF_mcvars(Runs(w)) /\ WF_mcvars(Detected(w))
=============================================================================
