---------------------------- MODULE MCLiveDispatch ----------------------------
(***************************************************************************)
(* A few starts of the script, on a machine that may lose power.           *)
(***************************************************************************)
EXTENDS LiveDispatch

ASSUME SettingHolds == Setting

\* A started process runs on; the client's timeout bounds the wait for an answer.
FairSpec == Spec /\ \A p \in Processes : WF_vars(Step(p))
=============================================================================
