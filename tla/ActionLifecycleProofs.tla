------------------------ MODULE ActionLifecycleProofs ------------------------
(***************************************************************************)
(* Machine-checked proofs about ActionLifecycle, for every number of       *)
(* workers, users, requests, target rows and dependency rows: first the    *)
(* invariant of the tables and the sessions and the contract it implements,*)
(* then what an approval may rely on when it executes: the rows it locked, *)
(* the order in which it locked them, and the trail it leaves.             *)
(***************************************************************************)
EXTENDS ActionLifecycle, SequenceTheorems, WellFoundedInduction, TLAPS

-----------------------------------------------------------------------------
(* The lines of the tables                                                 *)

\* The session of a worker without a request is well typed.
LEMMA IdleType == Idle \in SessionState
BY DEF Idle, SessionState, NoApproval, AccessContext, PC, Kind

\* So is the action row before a preview is created,
LEMMA NoActionType == NoAction \in ActionRow
BY DEF NoAction, ActionRow, ActionRequestStatus

\* and the approval row before a submission.
LEMMA NoApprovalType == NoApproval \in ApprovalRow
BY DEF NoApproval, ApprovalRow, ApprovalStatus, AccessContext

\* The initial state is well typed.
LEMMA TypeInit == Init => TypeOK
<1> SUFFICES ASSUME Init PROVE TypeOK
  OBVIOUS
<1> USE DEF Init
<1>1. action \in [Requests -> ActionRow] /\ approval \in [Requests -> ApprovalRow]
  BY NoActionType, NoApprovalType
<1>2. row \in [Records -> RowContent] /\ dep \in [Deps -> DepContent]
  BY RowAssumption DEF DepContent
<1>3. access \in [Users -> AccessContext] /\ clock \in Nat
  BY LifecycleAssumption
<1>4. /\ held \in [Workers -> SUBSET Resources]
      /\ session \in [Workers -> SessionState]
  BY IdleType
<1>5. /\ audit \in [Requests -> Seq(Event)]
      /\ notified \in [Requests -> [Users -> Nat]]
      /\ executed \in [Requests -> SUBSET Records]
  OBVIOUS
<1> QED
  BY <1>1, <1>2, <1>3, <1>4, <1>5 DEF TypeOK

-----------------------------------------------------------------------------
(* What the helpers write is well typed.                                   *)

\* What a commit, a rollback or the loss of the connection leaves behind
LEMMA EndTransactionType ==
    ASSUME TypeOK, NEW w \in Workers, EndTransaction(w)
    PROVE  /\ held' \in [Workers -> SUBSET Resources]
           /\ session' \in [Workers -> SessionState]
BY IdleType DEF TypeOK, EndTransaction, Continue

\* A decision writes a status and a decider of the right kinds.
LEMMA SettleType ==
    ASSUME TypeOK, NEW r \in Requests, NEW status \in ActionRequestStatus,
           NEW decision \in ApprovalStatus, NEW by \in Users \cup {NoUser},
           NEW ctx \in AccessContext, NEW now \in Nat,
           Settle(r, status, decision, by, ctx, now)
    PROVE  /\ action' \in [Requests -> ActionRow]
           /\ approval' \in [Requests -> ApprovalRow]
BY ZenonT(60) DEF TypeOK, Settle, ActionRow, ApprovalRow

\* An audit row is appended to a trail of audit rows.
LEMMA LogType ==
    ASSUME TypeOK, NEW r \in Requests, NEW events \in Seq(Event),
           Log(r, events)
    PROVE  audit' \in [Requests -> Seq(Event)]
<1>1. audit[r] \o events \in Seq(Event)
  BY ConcatProperties DEF TypeOK
<1> QED
  BY <1>1 DEF TypeOK, Log

\* A notification adds one to the count of its recipients.
LEMMA NotifyType ==
    ASSUME TypeOK, NEW r \in Requests, NEW users, Notify(r, users)
    PROVE  notified' \in [Requests -> [Users -> Nat]]
BY DEF TypeOK, Notify

\* A request takes a lock on a row that exists.
LEMMA AcquireType ==
    ASSUME TypeOK, NEW w \in Workers, NEW q \in Resources, Acquire(w, q)
    PROVE  held' \in [Workers -> SUBSET Resources]
BY DEF TypeOK, Acquire

\* The kinds of a session's components
LEMMA SessionFields ==
    ASSUME TypeOK, NEW w \in Workers
    PROVE  /\ session[w].pc \in PC
           /\ session[w].user \in Users \cup {NoUser}
           /\ session[w].ctx \in AccessContext
           /\ session[w].now \in Nat
           /\ session[w].todo \subseteq Requests \cup Nat
           /\ session[w].first \subseteq Records
           /\ session[w].final \subseteq Records
BY DEF TypeOK, SessionState

\* The fields of a session after each kind of step
LEMMA SessionUpdates ==
    ASSUME NEW s \in SessionState, NEW pc \in PC, NEW now \in Nat,
           NEW todo \in SUBSET (Requests \cup Nat),
           NEW first \in SUBSET Records, NEW final \in SUBSET Records
    PROVE  /\ LET t == [s EXCEPT !.todo = todo]
              IN  /\ t \in SessionState /\ t.pc = s.pc /\ t.req = s.req
                  /\ t.user = s.user /\ t.now = s.now /\ t.ctx = s.ctx
                  /\ t.todo = todo /\ t.final = s.final
           /\ LET t == [s EXCEPT !.pc = pc, !.now = now, !.todo = todo]
              IN  /\ t \in SessionState /\ t.pc = pc /\ t.req = s.req
                  /\ t.user = s.user /\ t.now = now /\ t.ctx = s.ctx
                  /\ t.final = s.final
           /\ LET t == [s EXCEPT !.pc = pc, !.first = first, !.todo = todo]
              IN  /\ t \in SessionState /\ t.pc = pc /\ t.req = s.req
                  /\ t.user = s.user /\ t.now = s.now /\ t.ctx = s.ctx
                  /\ t.final = s.final
           /\ LET t == [s EXCEPT !.pc = pc, !.todo = todo]
              IN  /\ t \in SessionState /\ t.pc = pc /\ t.req = s.req
                  /\ t.user = s.user /\ t.now = s.now /\ t.ctx = s.ctx
                  /\ t.final = s.final
           /\ LET t == [s EXCEPT !.pc = pc, !.final = final]
              IN  /\ t \in SessionState /\ t.pc = pc /\ t.req = s.req
                  /\ t.user = s.user /\ t.now = s.now /\ t.ctx = s.ctx
                  /\ t.final = final
           /\ LET t == [s EXCEPT !.pc = pc, !.todo = todo, !.first = first,
                                 !.final = final]
              IN  /\ t \in SessionState /\ t.pc = pc /\ t.req = s.req
                  /\ t.user = s.user /\ t.now = s.now /\ t.ctx = s.ctx
                  /\ t.final = final
BY DEF SessionState

\* An approval row that an expiry sweep settles
LEMMA ApprovalUpdates ==
    ASSUME NEW a \in ApprovalRow, NEW status \in ApprovalStatus, NEW at \in Nat
    PROVE  LET b == [a EXCEPT !.status = status, !.at = at]
           IN  b \in ApprovalRow /\ b.status = status /\ b.at = at
BY DEF ApprovalRow

\* A target row that is reclaimed or disabled
LEMMA RowUpdate ==
    ASSUME NEW c \in RowContent
    PROVE  [c EXCEPT !.status = "done"] \in RowContent
BY DEF RowContent, RowStatus

\* The fields of an action row after a decision, a submission and an escalation
LEMMA StatusUpdate ==
    ASSUME NEW a \in ActionRow, NEW status \in ActionRequestStatus
    PROVE  LET b == [a EXCEPT !.status = status]
           IN  /\ b \in ActionRow /\ b.status = status
               /\ b.deadline = a.deadline /\ b.targets = a.targets
               /\ b.override = a.override /\ b.revOverride = a.revOverride
BY DEF ActionRow

\* The fields of an action row after a submission
LEMMA SubmitUpdate ==
    ASSUME NEW a \in ActionRow, NEW status \in ActionRequestStatus,
           NEW deadline \in Nat
    PROVE  LET b == [a EXCEPT !.status = status, !.deadline = deadline]
           IN  /\ b \in ActionRow /\ b.status = status
               /\ b.deadline = deadline /\ b.targets = a.targets
               /\ b.revOverride = a.revOverride
BY DEF ActionRow

\* The fields of an action row after an escalation
LEMMA EscalateUpdate ==
    ASSUME NEW a \in ActionRow, NEW crosses \in BOOLEAN
    PROVE  LET b == [a EXCEPT !.revOverride = TRUE, !.revCrosses = crosses]
           IN  /\ b \in ActionRow /\ b.status = a.status
               /\ b.deadline = a.deadline /\ b.targets = a.targets
               /\ b.revOverride = TRUE
BY DEF ActionRow

\* A worker that goes on, in a session of the right kind, keeps its type.
LEMMA ContinueType ==
    ASSUME TypeOK, NEW w \in Workers, NEW s \in SessionState, Continue(w, s)
    PROVE  session' \in [Workers -> SessionState]
BY DEF TypeOK, Continue

\* A handler's session is about an existing request and an existing user.
LEMMA ServingRequest ==
    ASSUME LockProtocol, NEW w \in Workers,
           session[w].pc \in {"queued", "failed"} \cup Approving
    PROVE  session[w].req \in Requests /\ session[w].user \in Users
BY DEF LockProtocol, WorkerProtocol

\* Type correctness of the writes of a handler that ends its transaction
LEMMA CommitType ==
    ASSUME TypeOK, NEW w \in Workers, EndTransaction(w), UNCHANGED Unserved,
           action' \in [Requests -> ActionRow],
           approval' \in [Requests -> ApprovalRow],
           audit' \in [Requests -> Seq(Event)],
           notified' \in [Requests -> [Users -> Nat]]
    PROVE  TypeOK'
BY EndTransactionType DEF TypeOK, Unserved

\* A handler that ends without a write keeps the types.
LEMMA NoWriteType ==
    ASSUME TypeOK, NEW w \in Workers, NoWrite(w)
    PROVE  TypeOK'
BY CommitType DEF NoWrite, TypeOK

\* Type correctness of a decision that ends its transaction
LEMMA DecisionType ==
    ASSUME TypeOK, NEW w \in Workers, NEW r \in Requests,
           NEW status \in ActionRequestStatus, NEW decision \in ApprovalStatus,
           NEW by \in Users \cup {NoUser}, NEW ctx \in AccessContext,
           NEW now \in Nat, NEW event \in Event,
           Settle(r, status, decision, by, ctx, now), Log(r, <<event>>),
           EndTransaction(w), UNCHANGED notified, UNCHANGED Unserved
    PROVE  TypeOK'
<1>1. <<event>> \in Seq(Event)
  OBVIOUS
<1> QED
  BY <1>1, SettleType, LogType, CommitType DEF TypeOK

\* Type correctness of a step inside a transaction
LEMMA AdvanceType ==
    ASSUME TypeOK, NEW w \in Workers, NEW s \in SessionState, Continue(w, s),
           held' \in [Workers -> SUBSET Resources],
           UNCHANGED <<action, approval, audit, notified>>, UNCHANGED Unserved
    PROVE  TypeOK'
BY ContinueType DEF TypeOK, Unserved

-----------------------------------------------------------------------------
(* TypeOK is preserved, one operation at a time.                           *)

\* create_preview writes a well typed row.
LEMMA TypeCreatePreview ==
    ASSUME TypeOK, NEW r \in Requests, CreatePreview(r)
    PROVE  TypeOK'
<1> DEFINE targets == {x \in Candidates[r] : Executable(access[Owner[r]], x)}
           new == [status |-> "draft_preview", deadline |-> clock + PREVIEW_LIFETIME,
                   targets |-> targets,
                   override |-> \E x \in targets : NeedsOverride(r, x),
                   crosses |-> \E x \in targets : CrossScope(r, x),
                   revOverride |-> FALSE, revCrosses |-> FALSE]
<1>1. targets \in SUBSET Records
  BY LifecycleAssumption
<1>2. clock + PREVIEW_LIFETIME \in Nat
  BY LifecycleAssumption DEF TypeOK
<1>3. new \in ActionRow
  <2> HIDE DEF targets
  <2> QED BY <1>1, <1>2 DEF ActionRow, ActionRequestStatus
<1>4. action' = [action EXCEPT ![r] = new]
  BY DEF CreatePreview
<1>5. action' \in [Requests -> ActionRow]
  <2> HIDE DEF new
  <2> QED BY <1>3, <1>4 DEF TypeOK
<1>6. <<"action_preview_created">> \in Seq(Event)
  BY DEF Event
<1>7. audit' \in [Requests -> Seq(Event)]
  BY <1>6, LogType DEF CreatePreview
<1> QED
  BY <1>5, <1>7 DEF CreatePreview, TypeOK

\* Every way a request starts gives its worker a well typed session.
LEMMA TypeBegin ==
    ASSUME TypeOK, NEW w \in Workers, Begin(w)
    PROVE  TypeOK'
<1>1. \E job \in SessionState : Start(w, job)
  <2>1. ASSUME NEW k \in Kind, NEW u \in Users, NEW r \in Requests
        PROVE  Job(k, u, r) \in SessionState
    BY IdleType DEF Job, SessionState, TypeOK, PC
  <2>2. CASE \E r \in Requests, k \in {"submit", "cancel"} : StartOwn(w, k, r)
    BY <2>1, <2>2, LifecycleAssumption DEF StartOwn, Kind
  <2>3. CASE \E r \in Requests, k \in {"reject", "approve"}, u \in Users :
                StartDecision(w, k, u, r)
    BY <2>1, <2>3 DEF StartDecision, Kind
  <2>4. CASE \E r \in Requests, u \in Users : StartDetail(w, u, r)
    BY <2>1, <2>4 DEF StartDetail, Kind
  <2>5. CASE \E u \in Users : StartList(w, u)
    <3>1. PICK u \in Users : StartList(w, u)
      BY <2>5
    <3> DEFINE rows == {r \in Requests :
                    /\ Pending(r) /\ deadline_passed(r, clock)
                    /\ Allowed(ApprovalDecision(r, u = Owner[r], access[u]))}
               job == [Idle EXCEPT !.pc = "expiring", !.kind = "list",
                                   !.user = u, !.ctx = access[u],
                                   !.now = clock, !.todo = rows]
    <3>2. rows \in SUBSET (Requests \cup Nat)
      OBVIOUS
    <3>3. Start(w, job)
      BY <3>1 DEF StartList
    <3>4. job \in SessionState
      <4> HIDE DEF rows
      <4> QED BY <3>2, IdleType DEF SessionState, TypeOK, PC, Kind
    <3> QED BY <3>3, <3>4
  <2> QED BY <2>2, <2>3, <2>4, <2>5 DEF Begin
<1> QED
  BY <1>1, AdvanceType DEF Start, Unserved, TypeOK

\* So does every handler that commits as soon as it has the pair lock.
LEMMA TypeServe ==
    ASSUME TypeOK, LockProtocol, NEW w \in Workers, Serve(w)
    PROVE  TypeOK'
<1> DEFINE s == session[w]
           r == s.req
<1>1. session[w].pc = "queued"
  BY DEF Serve, SubmitAccept, SubmitAgain, OwnerExpire, CancelCommit,
         CancelRefused, DecisionRefused, DeciderExpire, DetailNoWrite,
         RejectCommit, ApproveClaim, Decidable, Serving
<1>2. /\ r \in Requests /\ s.user \in Users \cup {NoUser} /\ s.ctx \in AccessContext
      /\ s.now \in Nat /\ clock \in Nat /\ NoUser \in Users \cup {NoUser}
      /\ NoApproval.with \in AccessContext
  BY <1>1, ServingRequest, SessionFields, NoApprovalType DEF TypeOK, ApprovalRow
<1>3. /\ {"expired", "cancelled", "rejected"} \subseteq ActionRequestStatus
      /\ {"expired", "cancelled", "rejected"} \subseteq ApprovalStatus
      /\ {"action_expired", "action_cancelled", "action_rejected"} \subseteq Event
  BY DEF ActionRequestStatus, ApprovalStatus, Event
<1>4. CASE SubmitAccept(w)
  <2> DEFINE count == Cardinality(action[r].targets)
  <2>1. clock + PENDING_APPROVAL_LIFETIME \in Nat
    BY LifecycleAssumption DEF TypeOK
  <2>2. action' \in [Requests -> ActionRow]
    <3>1. action[r] \in ActionRow /\ "pending_approval" \in ActionRequestStatus
      BY <1>2 DEF TypeOK, ActionRequestStatus
    <3>2. [action[r] EXCEPT !.status = "pending_approval",
                            !.deadline = clock + PENDING_APPROVAL_LIFETIME] \in ActionRow
      BY <2>1, <3>1, SubmitUpdate
    <3> QED BY <1>2, <1>4, <3>2 DEF SubmitAccept, TypeOK
  <2>3. approval' \in [Requests -> ApprovalRow]
    BY ZenonT(60), <1>2, <1>4 DEF SubmitAccept, TypeOK, ApprovalRow, ApprovalStatus
  <2>4. notified' \in [Requests -> [Users -> Nat]]
    BY <1>2, <1>4, NotifyType DEF SubmitAccept
  <2>5. <<"action_requested">> \in Seq(Event)
    BY DEF Event
  <2>6. audit' \in [Requests -> Seq(Event)]
    BY <1>2, <1>4, <2>5, LogType DEF SubmitAccept
  <2> QED
    BY <1>4, <2>2, <2>3, <2>4, <2>6, CommitType DEF SubmitAccept
<1>5. CASE SubmitAgain(w) \/ CancelRefused(w) \/ DecisionRefused(w) \/ DetailNoWrite(w)
  BY <1>5, NoWriteType DEF SubmitAgain, CancelRefused, DecisionRefused, DetailNoWrite
<1>6. CASE OwnerExpire(w)
  BY <1>2, <1>3, <1>6, DecisionType DEF OwnerExpire, Expire
<1>7. CASE CancelCommit(w)
  BY <1>2, <1>3, <1>7, DecisionType DEF CancelCommit
<1>8. CASE DeciderExpire(w)
  <2> DEFINE now == IF s.kind = "detail" THEN s.now ELSE clock
  <2>1. now \in Nat
    BY <1>2
  <2>2. Expire(r, now) /\ EndTransaction(w) /\ UNCHANGED notified /\ UNCHANGED Unserved
    BY <1>8 DEF DeciderExpire
  <2> HIDE DEF now
  <2> QED
    BY <1>2, <1>3, <2>1, <2>2, DecisionType DEF Expire
<1>9. CASE RejectCommit(w)
  BY <1>2, <1>3, <1>9, DecisionType DEF RejectCommit
<1>10. CASE ApproveClaim(w)
  <2> DEFINE todo == VisibleTargets(r, s.ctx)
             next == [s EXCEPT !.pc = "locking1", !.now = clock, !.todo = todo]
  <2>1. todo \in SUBSET (Requests \cup Nat)
    BY <1>2, LifecycleAssumption DEF VisibleTargets, TypeOK, ActionRow
  <2>2. next \in SessionState
    <3>1. s \in SessionState /\ "locking1" \in PC
      BY DEF TypeOK, PC
    <3> HIDE DEF todo
    <3> QED BY <1>2, <2>1, <3>1, SessionUpdates
  <2>3. <<"action", r>> \in Resources
    BY <1>2 DEF Resources
  <2>4. Continue(w, next) /\ Acquire(w, <<"action", r>>)
    BY <1>10 DEF ApproveClaim
  <2> HIDE DEF next
  <2> QED
    BY <1>10, <2>2, <2>3, <2>4, AcquireType, AdvanceType DEF ApproveClaim
<1> QED
  BY <1>4, <1>5, <1>6, <1>7, <1>8, <1>9, <1>10 DEF Serve

\* What revalidation admits are target rows of the request.
LEMMA ExecutableTargetsType ==
    ASSUME TypeOK, NEW w \in Workers, session[w].req \in Requests
    PROVE  /\ ExecutableTargets(w) \subseteq action[session[w].req].targets
           /\ ExecutableTargets(w) \in SUBSET Records
BY DEF ExecutableTargets, TypeOK, ActionRow

\* A rolled back approval keeps the types.
LEMMA TypeRollBack ==
    ASSUME TypeOK, NEW w \in Workers, RollBackToFailure(w)
    PROVE  TypeOK'
<1> DEFINE next == [session[w] EXCEPT !.pc = "failed", !.todo = {},
                                      !.first = {}, !.final = {}]
<1>1. session[w] \in SessionState /\ "failed" \in PC
  BY DEF TypeOK, PC
<1>2. next \in SessionState
  <2>1. {} \in SUBSET (Requests \cup Nat) /\ {} \in SUBSET Records
    OBVIOUS
  <2> QED BY <1>1, <2>1, SessionUpdates
<1>3. Continue(w, next) /\ held' \in [Workers -> SUBSET Resources]
  BY DEF RollBackToFailure, TypeOK
<1> HIDE DEF next
<1> QED
  BY <1>2, <1>3, AdvanceType DEF RollBackToFailure

\* The commit of an expiry sweep keeps the types.
LEMMA TypeExpiringCommit ==
    ASSUME TypeOK, NEW w \in Workers, ExpiringCommit(w)
    PROVE  TypeOK'
<1> DEFINE swept(r) == <<"action", r>> \in held[w]
<1>1. session[w].now \in Nat
  BY SessionFields
<1>2. action' \in [Requests -> ActionRow]
  <2>1. "expired" \in ActionRequestStatus
    BY DEF ActionRequestStatus
  <2>2. ASSUME NEW r \in Requests
        PROVE  [action[r] EXCEPT !.status = "expired"] \in ActionRow
    <3>1. action[r] \in ActionRow
      BY DEF TypeOK
    <3> QED BY <2>1, <3>1, StatusUpdate
  <2> QED BY <2>2 DEF ExpiringCommit, TypeOK
<1>3. approval' \in [Requests -> ApprovalRow]
  <2>1. ASSUME NEW r \in Requests
        PROVE  [approval[r] EXCEPT !.status = "expired", !.at = session[w].now]
                  \in ApprovalRow
    <3>1. "expired" \in ApprovalStatus
      BY DEF ApprovalStatus
    <3> QED BY <1>1, <3>1, ApprovalUpdates DEF TypeOK
  <2> QED BY <2>1 DEF ExpiringCommit, TypeOK
<1>4. audit' \in [Requests -> Seq(Event)]
  <2>1. ASSUME NEW r \in Requests
        PROVE  Append(audit[r], "action_expired") \in Seq(Event)
    BY DEF TypeOK, Event
  <2> QED BY <2>1 DEF ExpiringCommit, TypeOK
<1> QED
  BY <1>2, <1>3, <1>4, CommitType DEF ExpiringCommit, TypeOK

\* Steps that only take a lock or move on inside the transaction
LEMMA TypeLocking ==
    ASSUME TypeOK, LockProtocol, NEW w \in Workers,
           \/ ExpiringUpdate(w) \/ LockTarget(w) \/ FirstRevalidation(w)
           \/ LockDependency(w) \/ SecondRevalidation(w) \/ DecideExecute(w)
    PROVE  TypeOK'
<1> DEFINE s == session[w]
<1>1. /\ s \in SessionState /\ s.now \in Nat
      /\ s.todo \in SUBSET (Requests \cup Nat) /\ s.first \in SUBSET Records
      /\ s.final \in SUBSET Records
      /\ {"locking_deps", "locking2", "executing"} \subseteq PC
  BY SessionFields DEF TypeOK, PC
<1>2. ASSUME NEW e
      PROVE  [s EXCEPT !.todo = @ \ {e}] \in SessionState
  <2> DEFINE rest == s.todo \ {e}
  <2>1. rest \in SUBSET (Requests \cup Nat)
    BY <1>1
  <2>2. [s EXCEPT !.todo = rest] \in SessionState
    <3> HIDE DEF rest
    <3> QED BY <1>1, <2>1, SessionUpdates
  <2> QED BY <2>2
<1>3. CASE ExpiringUpdate(w)
  <2>1. PICK r \in s.todo :
          /\ Continue(w, [s EXCEPT !.todo = @ \ {r}])
          /\ IF action[r].status = "pending_approval"
             THEN Acquire(w, <<"action", r>>)
             ELSE UNCHANGED held
    BY <1>3 DEF ExpiringUpdate
  <2>2. <<"action", r>> \in Resources
    BY <1>3, <2>1 DEF ExpiringUpdate, LockProtocol, WorkerProtocol, Resources
  <2>3. held' \in [Workers -> SUBSET Resources]
    BY <2>1, <2>2, AcquireType DEF TypeOK
  <2> QED
    BY <1>2, <1>3, <2>1, <2>3, AdvanceType DEF ExpiringUpdate
<1>4. CASE LockTarget(w)
  <2>1. PICK x \in s.todo : /\ Acquire(w, <<"row", x>>)
                            /\ Continue(w, [s EXCEPT !.todo = @ \ {x}])
    BY <1>4 DEF LockTarget
  <2>2. x \in Records
    BY <1>4, <2>1, ServingRequest DEF LockTarget, LockProtocol, WorkerProtocol, Approving, TypeOK, ActionRow
  <2>3. held' \in [Workers -> SUBSET Resources]
    BY <2>1, <2>2, AcquireType DEF Resources
  <2> QED
    BY <1>2, <1>4, <2>1, <2>3, AdvanceType DEF LockTarget
<1>5. CASE LockDependency(w)
  <2>1. PICK d \in s.todo : /\ Acquire(w, <<"dep", d>>)
                            /\ Continue(w, [s EXCEPT !.todo = @ \ {d}])
    BY <1>5 DEF LockDependency
  <2>2. d \in Deps
    BY <1>5, <2>1 DEF LockDependency, LockProtocol, WorkerProtocol
  <2>3. held' \in [Workers -> SUBSET Resources]
    BY <2>1, <2>2, AcquireType DEF Resources
  <2> QED
    BY <1>2, <1>5, <2>1, <2>3, AdvanceType DEF LockDependency
<1>6. CASE FirstRevalidation(w)
  <2>1. s.req \in Requests
    BY <1>6, ServingRequest DEF FirstRevalidation, Approving
  <2> DEFINE first == ExecutableTargets(w)
             todo == {DepOf[x] : x \in first}
             next == [s EXCEPT !.pc = "locking_deps", !.first = first, !.todo = todo]
  <2>2. first \in SUBSET Records
    BY <2>1, ExecutableTargetsType
  <2>3. todo \in SUBSET (Requests \cup Nat)
    BY ZenonT(60), <2>2, LifecycleAssumption
  <2>4. next \in SessionState
    <3> HIDE DEF first, todo
    <3> QED BY <1>1, <2>2, <2>3, SessionUpdates
  <2>5. Continue(w, next) /\ UNCHANGED held
    BY <1>6 DEF FirstRevalidation
  <2> HIDE DEF next
  <2> QED
    BY <1>6, <2>4, <2>5, AdvanceType DEF FirstRevalidation, TypeOK
<1>7. CASE SecondRevalidation(w)
  <2>1. s.req \in Requests
    BY <1>7, ServingRequest DEF SecondRevalidation, Approving
  <2> DEFINE todo == VisibleTargets(s.req, s.ctx) \ Locked(w)
             next == [s EXCEPT !.pc = "locking2", !.todo = todo]
  <2>2. todo \in SUBSET (Requests \cup Nat)
    BY <2>1, LifecycleAssumption DEF VisibleTargets, TypeOK, ActionRow
  <2>3. next \in SessionState
    <3> HIDE DEF todo
    <3> QED BY <1>1, <2>2, SessionUpdates
  <2>4. Continue(w, next) /\ UNCHANGED held
    BY <1>7 DEF SecondRevalidation
  <2> HIDE DEF next
  <2> QED
    BY <1>7, <2>3, <2>4, AdvanceType DEF SecondRevalidation, TypeOK
<1>8. CASE DecideExecute(w)
  <2>1. s.req \in Requests
    BY <1>8, ServingRequest DEF DecideExecute, Revalidated, Approving
  <2> DEFINE final == ExecutableTargets(w)
             next == [s EXCEPT !.pc = "executing", !.final = final]
  <2>2. final \in SUBSET Records
    BY <2>1, ExecutableTargetsType
  <2>3. next \in SessionState
    <3> HIDE DEF final
    <3> QED BY <1>1, <2>2, SessionUpdates
  <2>4. Continue(w, next) /\ UNCHANGED held
    BY <1>8 DEF DecideExecute
  <2> HIDE DEF next
  <2> QED
    BY <1>8, <2>3, <2>4, AdvanceType DEF DecideExecute, TypeOK
<1> QED
  BY <1>3, <1>4, <1>5, <1>6, <1>7, <1>8

\* The commit of an execution keeps the types.
LEMMA TypeExecute ==
    ASSUME TypeOK, LockProtocol, NEW w \in Workers, Execute(w)
    PROVE  TypeOK'
<1> DEFINE s == session[w]
<1>1. /\ s.req \in Requests /\ s.user \in Users \cup {NoUser}
      /\ s.ctx \in AccessContext /\ s.now \in Nat /\ s.final \in SUBSET Records
  BY ServingRequest, SessionFields DEF Execute, Approving
<1>2. /\ action' \in [Requests -> ActionRow]
      /\ approval' \in [Requests -> ApprovalRow]
  BY <1>1, SettleType DEF Execute, ActionRequestStatus, ApprovalStatus
<1>3. row' \in [Records -> RowContent]
  <2>1. ASSUME NEW x \in Records
        PROVE  [row[x] EXCEPT !.status = "done"] \in RowContent
    BY RowUpdate DEF TypeOK
  <2> QED BY <2>1 DEF Execute, TypeOK
<1>4. executed' \in [Requests -> SUBSET Records]
  BY <1>1 DEF Execute, TypeOK
<1>5. <<"action_approved", "action_executed">> \in Seq(Event)
  BY DEF Event
<1>6. audit' \in [Requests -> Seq(Event)]
  BY <1>1, <1>5, LogType DEF Execute
<1>7. /\ held' \in [Workers -> SUBSET Resources]
      /\ session' \in [Workers -> SessionState]
  BY EndTransactionType DEF Execute
<1> QED
  BY <1>2, <1>3, <1>4, <1>6, <1>7 DEF Execute, TypeOK

\* The commit of an escalation keeps the types.
LEMMA TypeEscalate ==
    ASSUME TypeOK, LockProtocol, NEW w \in Workers, DecideEscalate(w)
    PROVE  TypeOK'
<1> DEFINE r == session[w].req
           crosses == \E x \in ExecutableTargets(w) : CrossScope(r, x)
           new == [action[r] EXCEPT !.revOverride = TRUE, !.revCrosses = crosses]
<1>1. r \in Requests
  BY ServingRequest DEF DecideEscalate, Revalidated, Approving
<1>2. new \in ActionRow
  <2>1. action[r] \in ActionRow
    BY <1>1 DEF TypeOK
  <2>2. crosses \in BOOLEAN
    BY Zenon
  <2> HIDE DEF crosses
  <2> QED BY <2>1, <2>2, EscalateUpdate
<1>3. action' = [action EXCEPT ![r] = new]
  BY DEF DecideEscalate
<1>4. action' \in [Requests -> ActionRow]
  <2> HIDE DEF new
  <2> QED BY <1>2, <1>3 DEF TypeOK
<1>5. notified' \in [Requests -> [Users -> Nat]]
  BY <1>1, NotifyType DEF DecideEscalate
<1>6. <<"action_approval_escalated">> \in Seq(Event)
  BY DEF Event
<1>7. audit' \in [Requests -> Seq(Event)]
  BY <1>1, <1>6, LogType DEF DecideEscalate
<1> QED
  BY <1>4, <1>5, <1>7, CommitType DEF DecideEscalate, TypeOK

\* The failure record keeps the types.
LEMMA TypePersistFailure ==
    ASSUME TypeOK, LockProtocol, NEW w \in Workers, PersistFailure(w)
    PROVE  TypeOK'
<1> DEFINE s == session[w]
<1>1. /\ s.req \in Requests /\ s.user \in Users \cup {NoUser}
      /\ s.ctx \in AccessContext /\ s.now \in Nat
  BY ServingRequest, SessionFields DEF PersistFailure
<1>2. /\ "failed" \in ActionRequestStatus /\ "approved" \in ApprovalStatus
      /\ "action_failed" \in Event
  BY DEF ActionRequestStatus, ApprovalStatus, Event
<1>3. CASE Pending(s.req)
  BY <1>1, <1>2, <1>3, DecisionType DEF PersistFailure
<1>4. CASE ~ Pending(s.req)
  BY <1>4, CommitType DEF PersistFailure, TypeOK
<1> QED
  BY <1>3, <1>4

\* Errors, deadlock victims and crashes keep the types.
LEMMA TypeDisturb ==
    ASSUME TypeOK, NEW w \in Workers, Disturb(w)
    PROVE  TypeOK'
BY NoWriteType, TypeRollBack
   DEF Disturb, ExecutionError, DeadlockVictim, Crash

\* Time, access changes and other domain writers keep the types.
LEMMA TypeEnvironment ==
    ASSUME TypeOK, Environment
    PROVE  TypeOK'
<1>1. CASE Tick
  BY <1>1 DEF Tick, TypeOK
<1>2. ASSUME NEW u \in Users, ChangeAccess(u) PROVE TypeOK'
  <2>1. PICK ctx \in AccessChoices[u] : access' = [access EXCEPT ![u] = ctx]
    BY <1>2 DEF ChangeAccess
  <2>2. ctx \in AccessContext
    BY <2>1, LifecycleAssumption
  <2>3. access' \in [Users -> AccessContext]
    BY <2>1, <2>2 DEF TypeOK
  <2> QED BY <1>2, <2>3 DEF ChangeAccess, TypeOK
<1>3. ASSUME NEW x \in Records, WriteRow(x) PROVE TypeOK'
  BY <1>3, RowAssumption DEF WriteRow, TypeOK
<1>4. ASSUME NEW d \in Deps, WriteDep(d) PROVE TypeOK'
  BY <1>4, RowAssumption DEF WriteDep, TypeOK
<1> QED
  BY <1>1, <1>2, <1>3, <1>4 DEF Environment

\* Every step keeps the types.  LockProtocol is needed for the request a
\* session names: its rows exist.
LEMMA TypeNext ==
    ASSUME TypeOK, LockProtocol, [Next]_vars
    PROVE  TypeOK'
<1>1. CASE UNCHANGED vars
  BY <1>1 DEF vars, TypeOK
<1>2. ASSUME NEW r \in Requests, CreatePreview(r) PROVE TypeOK'
  BY <1>2, TypeCreatePreview
<1>3. ASSUME NEW w \in Workers, Begin(w) \/ Serve(w) \/ Disturb(w) PROVE TypeOK'
  BY <1>3, TypeBegin, TypeServe, TypeDisturb
<1>4. ASSUME NEW w \in Workers, Advance(w) PROVE TypeOK'
  <2>1. CASE DecideForbidden(w) \/ DecideUnstable(w)
    BY <2>1, NoWriteType, TypeRollBack DEF DecideForbidden, DecideUnstable
  <2> QED
    BY <1>4, <2>1, TypeExpiringCommit, TypeLocking, TypeExecute, TypeEscalate,
       TypePersistFailure DEF Advance
<1> QED
  BY <1>1, <1>2, <1>3, <1>4, TypeEnvironment DEF Next

-----------------------------------------------------------------------------
(* What one step can do to the rows of one request                         *)

StepOf(v) == Begin(v) \/ Serve(v) \/ Advance(v) \/ Disturb(v)

\* v may write the pair: it holds the lock, or nobody else does.
Touch(v, r) == <<"action", r>> \in held[v] \/ FreeFor(v, <<"action", r>>)

Kept(r) == /\ action'[r] = action[r] /\ approval'[r] = approval[r]
           /\ executed'[r] = executed[r]

Created(r) == /\ action[r].status = "none" /\ action'[r].status = "draft_preview"
              /\ action'[r].revOverride = FALSE
              /\ approval'[r] = approval[r] /\ executed'[r] = executed[r]

Accepted(r) == /\ action[r].status = "draft_preview"
               /\ action'[r].status = "pending_approval"
               /\ action'[r].targets = action[r].targets
               /\ action'[r].revOverride = action[r].revOverride
               /\ approval'[r].status = "pending"
               /\ executed'[r] = executed[r]

Escalated(r) == /\ Pending(r) /\ action'[r].status = action[r].status
                /\ action'[r].deadline = action[r].deadline
                /\ action'[r].targets = action[r].targets
                /\ action'[r].revOverride = TRUE
                /\ approval'[r] = approval[r] /\ executed'[r] = executed[r]

SameRequest(r) == /\ action'[r].deadline = action[r].deadline
                  /\ action'[r].targets = action[r].targets
                  /\ action'[r].override = action[r].override
                  /\ action'[r].revOverride = action[r].revOverride

Withdrawn(r) == /\ action[r].status = "draft_preview"
                /\ action'[r].status = "expired" /\ SameRequest(r)
                /\ approval'[r] = approval[r] /\ executed'[r] = executed[r]

Decided(r) ==
    /\ Pending(r) /\ SameRequest(r)
    /\ <<action'[r].status, approval'[r].status>> \in
          {<<"completed", "approved">>, <<"failed", "approved">>,
           <<"rejected", "rejected">>, <<"cancelled", "cancelled">>,
           <<"expired", "expired">>}
    /\ IF approval'[r].status = "expired"
       THEN approval'[r].at >= action[r].deadline
       ELSE approval'[r].at < action[r].deadline
    /\ executed'[r] \subseteq executed[r] \cup action[r].targets
    /\ executed'[r] # executed[r] => action'[r].status = "completed"
    /\ action'[r].status = "completed" =>
          \E v \in Workers : /\ session[v].pc = "executing" /\ session[v].req = r
                             /\ approval'[r].with = session[v].ctx

Changed(r) == Accepted(r) \/ Escalated(r) \/ Withdrawn(r) \/ Decided(r)

\* The fields of both rows after a decision, and the other requests' rows
LEMMA SettleEffect ==
    ASSUME TypeOK, NEW r \in Requests, NEW q \in Requests, NEW by, NEW ctx, NEW now,
           NEW status \in ActionRequestStatus, NEW decision \in ApprovalStatus,
           Settle(r, status, decision, by, ctx, now)
    PROVE  /\ q # r => action'[q] = action[q] /\ approval'[q] = approval[q]
           /\ action'[r].status = status /\ SameRequest(r)
           /\ approval[r].status = "pending" =>
                 /\ approval'[r].status = decision /\ approval'[r].at = now
                 /\ approval'[r].with = ctx
           /\ approval[r].status # "pending" => approval'[r] = approval[r]
<1>1. action[r] \in ActionRow
  BY DEF TypeOK
<1>2. action' = [action EXCEPT ![r] = [action[r] EXCEPT !.status = status]]
  BY DEF Settle
<1>3. /\ action'[r] = [action[r] EXCEPT !.status = status]
      /\ q # r => action'[q] = action[q]
  BY <1>2 DEF TypeOK
<1>4. action'[r].status = status /\ SameRequest(r)
  BY <1>1, <1>3, StatusUpdate DEF SameRequest
<1>5. /\ approval[r].status = "pending" =>
            approval'[r] = [status |-> decision, by |-> by, at |-> now, with |-> ctx]
      /\ approval[r].status # "pending" => approval'[r] = approval[r]
      /\ q # r => approval'[q] = approval[q]
  BY DEF TypeOK, Settle
<1> QED
  BY <1>3, <1>4, <1>5

\* A decision on a pending request, in time or at its expiry
LEMMA DecisionEffect ==
    ASSUME TypeOK, NEW v \in Workers, NEW r \in Requests, NEW q \in Requests,
           NEW by, NEW ctx, NEW now, NEW status, NEW decision,
           Settle(r, status, decision, by, ctx, now), Pending(r), Touch(v, r),
           <<status, decision>> \in {<<"failed", "approved">>,
               <<"rejected", "rejected">>, <<"cancelled", "cancelled">>,
               <<"expired", "expired">>},
           IF decision = "expired" THEN now >= action[r].deadline
                                   ELSE now < action[r].deadline,
           UNCHANGED executed
    PROVE  Kept(q) \/ (Touch(v, q) /\ Changed(q))
<1>1. status \in ActionRequestStatus /\ decision \in ApprovalStatus
  BY DEF ActionRequestStatus, ApprovalStatus
<1>2. Decided(r)
  BY <1>1, SettleEffect DEF Decided, Pending
<1>3. q # r => Kept(q)
  BY <1>1, SettleEffect DEF Kept
<1> QED
  BY <1>2, <1>3 DEF Changed

\* What a handler that commits under the pair lock does to a request
LEMMA ServeEffect ==
    ASSUME TypeOK, LockProtocol, PairConsistent, NEW v \in Workers, Serve(v),
           NEW q \in Requests
    PROVE  Kept(q) \/ (Touch(v, q) /\ Changed(q))
<1> DEFINE s == session[v]
           r == s.req
<1>1. /\ session[v].pc = "queued" /\ FreeFor(v, <<"action", r>>)
      /\ UNCHANGED executed
  BY DEF Serve, SubmitAccept, SubmitAgain, OwnerExpire, CancelCommit,
         CancelRefused, DecisionRefused, DeciderExpire, DetailNoWrite,
         RejectCommit, ApproveClaim, Decidable, Serving, NoWrite, Unserved
<1>2. r \in Requests /\ s.now \in Nat /\ clock \in Nat /\ action[r].deadline \in Nat
  BY <1>1, ServingRequest, SessionFields DEF TypeOK, ActionRow
<1>3. Touch(v, r)
  BY <1>1 DEF Touch
<1>4. CASE SubmitAccept(v)
  <2>1. clock + PENDING_APPROVAL_LIFETIME \in Nat
    BY LifecycleAssumption DEF TypeOK
  <2>2. action[r] \in ActionRow /\ "pending_approval" \in ActionRequestStatus
    BY <1>2 DEF TypeOK, ActionRequestStatus
  <2>3. /\ action'[r] = [action[r] EXCEPT !.status = "pending_approval",
                            !.deadline = clock + PENDING_APPROVAL_LIFETIME]
        /\ action[r].status = "draft_preview"
        /\ q # r => action'[q] = action[q]
    BY <1>2, <1>4 DEF SubmitAccept, TypeOK
  <2>4. /\ approval'[r] = [approval[r] EXCEPT !.status = "pending"]
        /\ q # r => approval'[q] = approval[q]
    BY <1>2, <1>4 DEF SubmitAccept, TypeOK
  <2>5. approval'[r].status = "pending"
    <3>1. approval[r] \in ApprovalRow
      BY <1>2 DEF TypeOK
    <3> QED BY <2>4, <3>1 DEF ApprovalRow
  <2>6. Accepted(r)
    <3> DEFINE deadline == clock + PENDING_APPROVAL_LIFETIME
               new == [action[r] EXCEPT !.status = "pending_approval",
                                        !.deadline = deadline]
    <3>1. /\ new.status = "pending_approval" /\ new.targets = action[r].targets
          /\ new.revOverride = action[r].revOverride
      <4> HIDE DEF deadline
      <4>1. deadline \in Nat
        BY <2>1 DEF deadline
      <4> DEFINE a == action[r]
      <4>2. a \in ActionRow
        BY <2>2
      <4> HIDE DEF a
      <4> QED BY <4>1, <4>2 DEF ActionRow
    <3>2. action'[r] = new
      BY <2>3
    <3> HIDE DEF new
    <3> QED BY <1>1, <2>3, <2>5, <3>1, <3>2 DEF Accepted
  <2> QED
    BY <1>1, <1>3, <2>3, <2>4, <2>6 DEF Kept, Changed
<1>5. CASE \/ SubmitAgain(v) \/ CancelRefused(v) \/ DecisionRefused(v)
           \/ DetailNoWrite(v) \/ ApproveClaim(v)
  BY <1>1, <1>5 DEF SubmitAgain, CancelRefused, DecisionRefused, DetailNoWrite,
                    ApproveClaim, NoWrite, Kept
<1>6. CASE OwnerExpire(v)
  <2>1. /\ Settle(r, "expired", "expired", NoUser, NoApproval.with, clock)
        /\ action[r].status \in {"draft_preview", "pending_approval"}
        /\ clock >= action[r].deadline
    BY <1>2, <1>6 DEF OwnerExpire, Expire, deadline_passed
  <2>2. CASE action[r].status = "pending_approval"
    <3>1. Pending(r)
      BY <1>2, <2>2 DEF PairConsistent, Pending
    <3> QED
      BY <1>1, <1>2, <1>3, <2>1, <3>1, DecisionEffect
  <2>3. CASE action[r].status = "draft_preview"
    <3>1. approval[r].status = "none"
      BY <1>2, <2>3 DEF PairConsistent
    <3>2. "expired" \in ActionRequestStatus /\ "expired" \in ApprovalStatus
      BY DEF ActionRequestStatus, ApprovalStatus
    <3>3. Withdrawn(r)
      BY <1>1, <1>2, <2>1, <2>3, <3>1, <3>2, SettleEffect DEF Withdrawn
    <3>4. q # r => Kept(q)
      BY <1>1, <1>2, <2>1, <3>2, SettleEffect DEF Kept
    <3> QED BY <1>3, <3>3, <3>4 DEF Changed
  <2> QED BY <2>1, <2>2, <2>3
<1>7. CASE CancelCommit(v)
  <2>1. /\ Settle(r, "cancelled", "cancelled", NoUser, NoApproval.with, clock)
        /\ Pending(r) /\ clock < action[r].deadline
    BY <1>2, <1>7 DEF CancelCommit, deadline_passed
  <2> QED BY <1>1, <1>2, <1>3, <2>1, DecisionEffect
<1>8. CASE DeciderExpire(v)
  <2> DEFINE now == IF s.kind = "detail" THEN s.now ELSE clock
  <2>1. /\ Settle(r, "expired", "expired", NoUser, NoApproval.with, now)
        /\ Pending(r) /\ now >= action[r].deadline
    BY <1>2, <1>8 DEF DeciderExpire, Expire, deadline_passed
  <2> HIDE DEF now
  <2> QED BY <1>1, <1>2, <1>3, <2>1, DecisionEffect
<1>9. CASE RejectCommit(v)
  <2>1. /\ Settle(r, "rejected", "rejected", s.user, s.ctx, clock)
        /\ Pending(r) /\ clock < action[r].deadline
    BY <1>2, <1>9 DEF RejectCommit, deadline_passed
  <2> QED BY <1>1, <1>2, <1>3, <2>1, DecisionEffect
<1> QED
  BY <1>4, <1>5, <1>6, <1>7, <1>8, <1>9 DEF Serve

\* What the commit of an expiry sweep does to a request
LEMMA SweepEffect ==
    ASSUME TypeOK, LockProtocol, NEW v \in Workers, ExpiringCommit(v),
           NEW q \in Requests
    PROVE  Kept(q) \/ (Touch(v, q) /\ Changed(q))
<1>1. CASE <<"action", q>> \notin held[v]
  BY <1>1 DEF ExpiringCommit, Unserved, Kept
<1>2. CASE <<"action", q>> \in held[v]
  <2>1. /\ Pending(q) /\ action[q].deadline <= session[v].now
        /\ session[v].now \in Nat /\ action[q].deadline \in Nat
    BY <1>2, SessionFields DEF ExpiringCommit, LockProtocol, WorkerProtocol, TypeOK, ActionRow
  <2>2. /\ action'[q] = [action[q] EXCEPT !.status = "expired"]
        /\ approval'[q] = [approval[q] EXCEPT !.status = "expired",
                                              !.at = session[v].now]
        /\ executed'[q] = executed[q]
    BY <1>2 DEF ExpiringCommit, Unserved
  <2>3. action'[q].status = "expired" /\ SameRequest(q)
    <3>1. action[q] \in ActionRow /\ "expired" \in ActionRequestStatus
      BY DEF TypeOK, ActionRequestStatus
    <3> QED BY <2>2, <3>1, StatusUpdate DEF SameRequest
  <2>4. approval'[q].status = "expired" /\ approval'[q].at = session[v].now
    <3>1. approval[q] \in ApprovalRow
      BY DEF TypeOK
    <3> QED BY <2>2, <3>1 DEF ApprovalRow
  <2>5. Decided(q)
    BY <2>1, <2>2, <2>3, <2>4 DEF Decided
  <2> QED
    BY <1>2, <2>5 DEF Touch, Changed
<1> QED
  BY <1>1, <1>2

\* What an escalation does to a request
LEMMA EscalateEffect ==
    ASSUME TypeOK, LockProtocol, NEW v \in Workers, DecideEscalate(v),
           NEW q \in Requests
    PROVE  Kept(q) \/ (Touch(v, q) /\ Changed(q))
<1> DEFINE r == session[v].req
           crosses == \E x \in ExecutableTargets(v) : CrossScope(r, x)
           new == [action[r] EXCEPT !.revOverride = TRUE, !.revCrosses = crosses]
<1>1. r \in Requests /\ Pending(r) /\ <<"action", r>> \in held[v]
  BY DEF LockProtocol, WorkerProtocol, DecideEscalate, Revalidated, Approving
<1>2. action' = [action EXCEPT ![r] = new] /\ approval' = approval /\ executed' = executed
  BY DEF DecideEscalate, Unserved
<1>3. /\ new.status = action[r].status /\ new.deadline = action[r].deadline
      /\ new.targets = action[r].targets /\ new.revOverride = TRUE
  <2>1. action[r] \in ActionRow
    BY <1>1 DEF TypeOK
  <2>2. crosses \in BOOLEAN
    BY Zenon
  <2> HIDE DEF crosses
  <2> QED BY <2>1, <2>2 DEF ActionRow
<1>4. action'[r] = new /\ (q # r => action'[q] = action[q])
  <2> HIDE DEF new
  <2> QED BY <1>1, <1>2 DEF TypeOK
<1>5. Escalated(r)
  <2> HIDE DEF new
  <2> QED BY <1>1, <1>2, <1>3, <1>4 DEF Escalated
<1> QED
  BY <1>1, <1>2, <1>4, <1>5 DEF Kept, Touch, Changed

\* What an execution does to a request
LEMMA ExecuteEffect ==
    ASSUME TypeOK, LockProtocol, NEW v \in Workers, Execute(v), NEW q \in Requests
    PROVE  Kept(q) \/ (Touch(v, q) /\ Changed(q))
<1> DEFINE s == session[v]
           r == s.req
<1>1. /\ r \in Requests /\ Pending(r) /\ <<"action", r>> \in held[v]
      /\ s.now < action[r].deadline /\ s.final \subseteq action[r].targets
      /\ s.now \in Nat /\ action[r].deadline \in Nat
  BY SessionFields DEF LockProtocol, WorkerProtocol, Execute, Approving, TypeOK, ActionRow
<1>2. Settle(r, "completed", "approved", s.user, s.ctx, s.now)
  BY DEF Execute
<1>3. "completed" \in ActionRequestStatus /\ "approved" \in ApprovalStatus
  BY DEF ActionRequestStatus, ApprovalStatus
<1>4. /\ executed'[r] = executed[r] \cup s.final
      /\ q # r => executed'[q] = executed[q]
  BY <1>1 DEF Execute, TypeOK
<1>5. Decided(r)
  <2>1. /\ action'[r].status = "completed" /\ approval'[r].status = "approved"
        /\ approval'[r].at = s.now /\ approval'[r].with = s.ctx /\ SameRequest(r)
    BY <1>1, <1>2, <1>3, SettleEffect DEF Pending
  <2>2. s.pc = "executing"
    BY DEF Execute
  <2> QED
    BY <1>1, <1>4, <2>1, <2>2 DEF Decided
<1>6. q # r => Kept(q)
  BY <1>1, <1>2, <1>3, <1>4, SettleEffect DEF Kept
<1> QED
  BY <1>1, <1>5, <1>6 DEF Touch, Changed

\* What a failure record does to a request
LEMMA FailureEffect ==
    ASSUME TypeOK, LockProtocol, NEW v \in Workers, PersistFailure(v),
           NEW q \in Requests
    PROVE  Kept(q) \/ (Touch(v, q) /\ Changed(q))
<1> DEFINE s == session[v]
           r == s.req
<1>1. /\ r \in Requests /\ s.now < action[r].deadline /\ Touch(v, r)
      /\ UNCHANGED executed
  BY DEF LockProtocol, WorkerProtocol, PersistFailure, Touch, Unserved
<1>2. CASE Pending(r)
  <2>1. Settle(r, "failed", "approved", s.user, s.ctx, s.now)
    BY <1>2 DEF PersistFailure
  <2> QED BY <1>1, <1>2, <2>1, DecisionEffect
<1>3. CASE ~ Pending(r)
  BY <1>1, <1>3 DEF PersistFailure, Kept
<1> QED
  BY <1>2, <1>3

\* A step of a worker changes a pair only under its lock, and in one of the
\* ways listed above; it never changes the rows of a pair another one holds.
LEMMA WorkerEffect ==
    ASSUME TypeOK, LockProtocol, PairConsistent, NEW v \in Workers, StepOf(v),
           NEW q \in Requests
    PROVE  Kept(q) \/ (Touch(v, q) /\ Changed(q))
<1>1. CASE Begin(v)
  BY <1>1 DEF Begin, StartOwn, StartDecision, StartDetail, StartList, Start, Kept
<1>2. CASE Disturb(v)
  BY <1>2 DEF Disturb, ExecutionError, DeadlockVictim, Crash, NoWrite,
              RollBackToFailure, Unserved, Kept
<1>3. CASE \/ ExpiringUpdate(v) \/ LockTarget(v) \/ FirstRevalidation(v)
           \/ LockDependency(v) \/ SecondRevalidation(v) \/ DecideExecute(v)
  BY <1>3 DEF ExpiringUpdate, LockTarget, FirstRevalidation, LockDependency,
              SecondRevalidation, DecideExecute, Unserved, Kept
<1>4. CASE DecideForbidden(v) \/ DecideUnstable(v)
  BY <1>4 DEF DecideForbidden, DecideUnstable, NoWrite, RollBackToFailure,
              Unserved, Kept
<1> QED
  BY <1>1, <1>2, <1>3, <1>4, ServeEffect, SweepEffect, EscalateEffect,
     ExecuteEffect, FailureEffect DEF StepOf, Advance

\* Whatever happens, each request is left alone or moves in one of the ways
\* listed above.
LEMMA StepEffect ==
    ASSUME TypeOK, LockProtocol, PairConsistent, [Next]_vars, NEW q \in Requests
    PROVE  Kept(q) \/ Created(q) \/ Changed(q)
<1>1. CASE UNCHANGED vars
  BY <1>1 DEF vars, Kept
<1>2. ASSUME NEW r \in Requests, CreatePreview(r)
      PROVE  Kept(q) \/ Created(q)
  <2>1. q # r => Kept(q)
    BY <1>2 DEF CreatePreview, Kept, TypeOK
  <2>2. Created(r)
    BY <1>2 DEF CreatePreview, Created, TypeOK
  <2> QED BY <2>1, <2>2
<1>3. ASSUME NEW v \in Workers, StepOf(v)
      PROVE  Kept(q) \/ Changed(q)
  BY <1>3, WorkerEffect
<1>4. CASE Environment
  BY <1>4 DEF Environment, Tick, ChangeAccess, WriteRow, WriteDep, Kept
<1> QED
  BY <1>1, <1>2, <1>3, <1>4 DEF Next, StepOf

\* A request once submitted keeps its deadline and its targets.
LEMMA SubmittedKeeps ==
    ASSUME TypeOK, LockProtocol, PairConsistent, [Next]_vars, NEW q \in Requests,
           action[q].status \notin {"none", "draft_preview"}
    PROVE  /\ action'[q].status \notin {"none", "draft_preview"}
           /\ action'[q].deadline = action[q].deadline
           /\ action'[q].targets = action[q].targets
BY StepEffect DEF Kept, Created, Changed, Accepted, Escalated, Withdrawn,
                  Decided, SameRequest, Pending

\* Each of those ways leads from one of the allowed pairs of statuses to
\* another.
LEMMA PairNext ==
    ASSUME TypeOK, LockProtocol, PairConsistent, [Next]_vars
    PROVE  PairConsistent'
<1> SUFFICES ASSUME NEW r \in Requests
             PROVE  <<action'[r].status, approval'[r].status>> \in
            {<<"none", "none">>, <<"draft_preview", "none">>,
             <<"pending_approval", "pending">>, <<"completed", "approved">>,
             <<"failed", "approved">>, <<"rejected", "rejected">>,
             <<"cancelled", "cancelled">>, <<"expired", "expired">>,
             <<"expired", "none">>}
  BY DEF PairConsistent
<1>1. <<action[r].status, approval[r].status>> \in
            {<<"none", "none">>, <<"draft_preview", "none">>,
             <<"pending_approval", "pending">>, <<"completed", "approved">>,
             <<"failed", "approved">>, <<"rejected", "rejected">>,
             <<"cancelled", "cancelled">>, <<"expired", "expired">>,
             <<"expired", "none">>}
  BY DEF PairConsistent
<1>2. CASE Kept(r) \/ Created(r)
  BY <1>1, <1>2 DEF Kept, Created
<1>3. CASE Accepted(r)
  BY <1>3 DEF Accepted
<1>4. CASE Escalated(r)
  BY <1>1, <1>4 DEF Escalated
<1>5. CASE Withdrawn(r)
  BY <1>1, <1>5 DEF Withdrawn
<1>6. CASE Decided(r)
  BY <1>6 DEF Decided
<1> QED
  BY <1>2, <1>3, <1>4, <1>5, <1>6, StepEffect DEF Changed

-----------------------------------------------------------------------------
(* The lock protocol is preserved.                                         *)

\* A worker leaves the others' sessions and locks alone, and takes only locks
\* nobody else holds.
LEMMA WorkerFrame ==
    ASSUME TypeOK, LockProtocol, NEW v \in Workers, StepOf(v)
    PROVE  /\ \A w \in Workers \ {v} : session'[w] = session[w] /\ held'[w] = held[w]
           /\ \A e \in held'[v] : e \in held[v] \/ FreeFor(v, e)
<1>1. CASE Begin(v)
  BY <1>1 DEF Begin, StartOwn, StartDecision, StartDetail, StartList, Start,
              Continue, TypeOK
<1>2. CASE EndTransaction(v)
  BY <1>2 DEF EndTransaction, Continue, TypeOK
<1>3. CASE RollBackToFailure(v)
  BY <1>3 DEF RollBackToFailure, Continue, TypeOK
<1>4. CASE (\E e : Acquire(v, e)) /\ (\E s : Continue(v, s))
  BY <1>4 DEF Acquire, Continue, TypeOK
<1>5. CASE UNCHANGED held /\ (\E s : Continue(v, s))
  BY <1>5 DEF Continue, TypeOK
<1>6. CASE Serve(v)
  BY <1>6, <1>2, <1>4 DEF Serve, SubmitAccept, SubmitAgain, OwnerExpire,
     CancelCommit, CancelRefused, DecisionRefused, DeciderExpire,
     DetailNoWrite, RejectCommit, ApproveClaim, NoWrite
<1>7. CASE Advance(v)
  BY <1>7, <1>2, <1>3, <1>4, <1>5 DEF Advance, ExpiringUpdate, ExpiringCommit,
     LockTarget, FirstRevalidation, LockDependency, SecondRevalidation,
     DecideExecute, DecideEscalate, DecideForbidden, DecideUnstable, Execute,
     PersistFailure, NoWrite
<1>8. CASE Disturb(v)
  BY <1>8, <1>2, <1>3 DEF Disturb, ExecutionError, DeadlockVictim, Crash, NoWrite
<1> QED
  BY <1>1, <1>6, <1>7, <1>8 DEF StepOf

\* The others' part of the protocol survives a step of v.
LEMMA OthersProtocol ==
    ASSUME TypeOK, LockProtocol, PairConsistent, [Next]_vars,
           NEW v \in Workers, StepOf(v), NEW w \in Workers, w # v
    PROVE  WorkerProtocol(w)'
<1>1. session'[w] = session[w] /\ held'[w] = held[w]
  BY WorkerFrame
<1>2. WorkerProtocol(w)
  BY DEF LockProtocol
<1>3. ASSUME NEW q \in Requests, <<"action", q>> \in held[w]
      PROVE  Kept(q)
  BY <1>3, WorkerEffect DEF LockProtocol, Touch, FreeFor
<1>4. ASSUME NEW q \in Requests, action[q].status \notin {"none", "draft_preview"}
      PROVE  /\ action'[q].status \notin {"none", "draft_preview"}
             /\ action'[q].deadline = action[q].deadline
             /\ action'[q].targets = action[q].targets
  BY <1>4, SubmittedKeeps
<1> QED
  BY <1>1, <1>2, <1>3, <1>4 DEF WorkerProtocol, Approving, Pending, Kept

\* A worker that ends its transaction holds nothing.
LEMMA IdleProtocol ==
    ASSUME TypeOK, NEW v \in Workers, EndTransaction(v)
    PROVE  WorkerProtocol(v)'
<1>1. session'[v] = Idle /\ held'[v] = {}
  BY DEF EndTransaction, Continue, TypeOK
<1>2. Idle.pc = "idle"
  BY DEF Idle
<1> QED
  BY <1>1, <1>2 DEF WorkerProtocol, Approving

\* A worker that starts holds nothing; a sweep starts from overdue requests.
LEMMA BeginProtocol ==
    ASSUME TypeOK, LockProtocol, NEW v \in Workers, Begin(v)
    PROVE  WorkerProtocol(v)'
<1>1. /\ held[v] = {} /\ UNCHANGED <<action, approval, held>>
  <2>1. session[v] = Idle /\ UNCHANGED <<action, approval, held>>
    BY DEF Begin, StartOwn, StartDecision, StartDetail, StartList, Start
  <2>2. session[v].pc = "idle"
    BY <2>1 DEF Idle
  <2> QED BY <2>1, <2>2 DEF LockProtocol, WorkerProtocol
<1>2. ASSUME NEW k, NEW u \in Users, NEW r \in Requests, Start(v, Job(k, u, r))
      PROVE  WorkerProtocol(v)'
  <2>1. session'[v] = Job(k, u, r)
    BY <1>2 DEF Start, Continue, TypeOK
  <2>2. Job(k, u, r).pc = "queued" /\ Job(k, u, r).req = r /\ Job(k, u, r).user = u
    BY DEF Job, Idle
  <2> QED
    BY <1>1, <2>1, <2>2 DEF WorkerProtocol, Approving
<1>3. ASSUME NEW u \in Users, StartList(v, u)
      PROVE  WorkerProtocol(v)'
  <2> DEFINE rows == {r \in Requests :
                    /\ Pending(r) /\ deadline_passed(r, clock)
                    /\ Allowed(ApprovalDecision(r, u = Owner[r], access[u]))}
             job == [Idle EXCEPT !.pc = "expiring", !.kind = "list",
                                 !.user = u, !.ctx = access[u],
                                 !.now = clock, !.todo = rows]
  <2>1. Start(v, job)
    BY <1>3 DEF StartList
  <2>2. session'[v] = job
    <3> HIDE DEF job
    <3> QED BY <2>1 DEF Start, Continue, TypeOK
  <2>3. job.pc = "expiring" /\ job.now = clock /\ job.todo = rows
    <3> HIDE DEF rows
    <3> QED BY DEF Idle
  <2>4. \A q \in rows : /\ action[q].status \notin {"none", "draft_preview"}
                        /\ action[q].deadline <= clock
    BY DEF Pending, deadline_passed
  <2>5. rows \subseteq Requests
    OBVIOUS
  <2> HIDE DEF rows, job
  <2> QED
    BY <1>1, <2>2, <2>3, <2>4, <2>5 DEF WorkerProtocol, Approving
<1> QED
  BY <1>2, <1>3, LifecycleAssumption
     DEF Begin, StartOwn, StartDecision, StartDetail

\* A claim takes the lock of a pending request in time.
LEMMA ClaimProtocol ==
    ASSUME TypeOK, LockProtocol, NEW v \in Workers, ApproveClaim(v)
    PROVE  WorkerProtocol(v)'
<1> DEFINE s == session[v]
           r == s.req
           todo == VisibleTargets(r, s.ctx)
           next == [s EXCEPT !.pc = "locking1", !.now = clock, !.todo = todo]
<1>1. /\ r \in Requests /\ s.user \in Users
  BY ServingRequest DEF ApproveClaim, Decidable, Serving
<1>2. /\ Pending(r) /\ clock < action[r].deadline
      /\ UNCHANGED <<action, approval>>
      /\ held' = [held EXCEPT ![v] = @ \cup {<<"action", r>>}]
  BY <1>1 DEF ApproveClaim, deadline_passed, Acquire, TypeOK, ActionRow
<1>3. session' = [session EXCEPT ![v] = next]
  BY DEF ApproveClaim, Continue
<1>4. next.pc = "locking1" /\ next.req = r /\ next.user = s.user /\ next.now = clock
      /\ next.todo = todo
  <2>1. s \in SessionState
    BY DEF TypeOK
  <2> HIDE DEF todo
  <2> QED BY <2>1 DEF SessionState
<1>5. todo \subseteq action[r].targets
  BY DEF VisibleTargets
<1>6. session'[v] = next /\ <<"action", r>> \in held'[v]
  <2> HIDE DEF next
  <2> QED BY <1>2, <1>3 DEF TypeOK
<1> HIDE DEF next, todo
<1> QED
  BY <1>1, <1>2, <1>4, <1>5, <1>6 DEF WorkerProtocol, Approving, Pending

\* A rolled back approval keeps the time of its claim and no lock.
LEMMA RollBackProtocol ==
    ASSUME TypeOK, LockProtocol, NEW v \in Workers, RollBackToFailure(v),
           session[v].pc \in Approving
    PROVE  WorkerProtocol(v)'
<1> DEFINE s == session[v]
           next == [s EXCEPT !.pc = "failed", !.todo = {}, !.first = {}, !.final = {}]
<1>1. session' = [session EXCEPT ![v] = next]
  BY DEF RollBackToFailure, Continue
<1>2. next.pc = "failed" /\ next.req = s.req /\ next.user = s.user /\ next.now = s.now
  <2>1. s \in SessionState
    BY DEF TypeOK
  <2> QED BY <2>1 DEF SessionState
<1>3. session'[v] = next /\ held'[v] = {} /\ UNCHANGED <<action, approval>>
  <2> HIDE DEF next
  <2> QED BY <1>1 DEF TypeOK, RollBackToFailure
<1>4. WorkerProtocol(v)
  BY DEF LockProtocol
<1> HIDE DEF next
<1> QED
  BY <1>2, <1>3, <1>4 DEF WorkerProtocol, Approving

\* A sweep locks a pair only while it is still pending.
LEMMA SweepProtocol ==
    ASSUME TypeOK, LockProtocol, PairConsistent, NEW v \in Workers, ExpiringUpdate(v)
    PROVE  WorkerProtocol(v)'
<1> DEFINE s == session[v]
<1>1. WorkerProtocol(v) /\ s.pc = "expiring" /\ UNCHANGED <<action, approval>>
  BY DEF LockProtocol, ExpiringUpdate
<1>2. PICK r \in s.todo :
          /\ Continue(v, [s EXCEPT !.todo = @ \ {r}])
          /\ IF action[r].status = "pending_approval"
             THEN Acquire(v, <<"action", r>>)
             ELSE UNCHANGED held
  BY DEF ExpiringUpdate
<1>3. r \in Requests
  BY <1>1, <1>2 DEF WorkerProtocol
<1> DEFINE next == [s EXCEPT !.todo = @ \ {r}]
<1>4. next.pc = "expiring" /\ next.now = s.now /\ next.todo = s.todo \ {r}
  <2>1. s \in SessionState
    BY DEF TypeOK
  <2> QED BY <1>1, <2>1 DEF SessionState
<1>5. session'[v] = next
  <2> HIDE DEF next
  <2>1. session' = [session EXCEPT ![v] = next]
    BY <1>2 DEF Continue, next
  <2> QED BY <2>1 DEF TypeOK
<1>6. \A q \in Requests : <<"action", q>> \in held'[v] =>
          \/ <<"action", q>> \in held[v]
          \/ q = r /\ action[r].status = "pending_approval"
  BY <1>2 DEF Acquire, TypeOK
<1>7. action[r].status = "pending_approval" => Pending(r)
  BY <1>3 DEF PairConsistent, Pending
<1> HIDE DEF next
<1> QED
  BY <1>1, <1>2, <1>3, <1>4, <1>5, <1>6, <1>7 DEF WorkerProtocol, Approving, Pending

\* The steps of an approval keep its request, its user and its time.
LEMMA ApprovalProtocol ==
    ASSUME TypeOK, LockProtocol, NEW v \in Workers,
           session[v].pc \in Approving, NEW next,
           session' = [session EXCEPT ![v] = next],
           next.pc \in Approving, next.req = session[v].req,
           next.user = session[v].user, next.now = session[v].now,
           next.pc \in {"locking1", "locking2"} =>
               next.todo \subseteq action[session[v].req].targets,
           next.pc = "locking_deps" => next.todo \subseteq Deps,
           next.pc = "executing" => next.final \subseteq action[session[v].req].targets,
           UNCHANGED <<action, approval>>, held[v] \subseteq held'[v]
    PROVE  WorkerProtocol(v)'
<1>1. session'[v] = next
  BY DEF TypeOK
<1>2. WorkerProtocol(v)
  BY DEF LockProtocol
<1> QED
  BY <1>1, <1>2 DEF WorkerProtocol, Approving, Pending

\* The steps between a claim and its execution keep the claim.
LEMMA LockingProtocol ==
    ASSUME TypeOK, LockProtocol, NEW v \in Workers,
           \/ LockTarget(v) \/ FirstRevalidation(v) \/ LockDependency(v)
           \/ SecondRevalidation(v) \/ DecideExecute(v)
    PROVE  WorkerProtocol(v)'
<1> DEFINE s == session[v]
           r == s.req
<1>1. s \in SessionState /\ WorkerProtocol(v)
  BY DEF TypeOK, LockProtocol
<1>2. s.pc \in Approving /\ UNCHANGED <<action, approval>>
  BY DEF LockTarget, FirstRevalidation, LockDependency, SecondRevalidation,
         DecideExecute, Revalidated, Approving
<1>3. r \in Requests
  BY <1>2, ServingRequest
<1>4. CASE LockTarget(v)
  <2>1. PICK x \in s.todo : /\ Acquire(v, <<"row", x>>)
                            /\ Continue(v, [s EXCEPT !.todo = @ \ {x}])
    BY <1>4 DEF LockTarget
  <2> DEFINE next == [s EXCEPT !.todo = @ \ {x}]
  <2>2. /\ next.pc = s.pc /\ next.req = r /\ next.user = s.user
        /\ next.now = s.now /\ next.todo = s.todo \ {x}
    BY <1>1 DEF SessionState
  <2>3. /\ session' = [session EXCEPT ![v] = next] /\ held[v] \subseteq held'[v]
        /\ s.pc \in {"locking1", "locking2"}
        /\ s.todo \subseteq action[r].targets
    BY <1>1, <1>4, <2>1 DEF LockTarget, Continue, Acquire, TypeOK, WorkerProtocol
  <2> HIDE DEF next
  <2> QED
    BY <1>2, <2>2, <2>3, ApprovalProtocol
<1>5. CASE LockDependency(v)
  <2>1. PICK d \in s.todo : /\ Acquire(v, <<"dep", d>>)
                            /\ Continue(v, [s EXCEPT !.todo = @ \ {d}])
    BY <1>5 DEF LockDependency
  <2> DEFINE next == [s EXCEPT !.todo = @ \ {d}]
  <2>2. /\ next.pc = s.pc /\ next.req = r /\ next.user = s.user
        /\ next.now = s.now /\ next.todo = s.todo \ {d}
    BY <1>1 DEF SessionState
  <2>3. /\ session' = [session EXCEPT ![v] = next] /\ held[v] \subseteq held'[v]
        /\ s.pc = "locking_deps" /\ s.todo \subseteq Deps
    BY <1>1, <1>5, <2>1 DEF LockDependency, Continue, Acquire, TypeOK, WorkerProtocol
  <2> HIDE DEF next
  <2> QED
    BY <1>2, <2>2, <2>3, ApprovalProtocol
<1>6. CASE FirstRevalidation(v)
  <2> DEFINE first == ExecutableTargets(v)
             todo == {DepOf[x] : x \in first}
             next == [s EXCEPT !.pc = "locking_deps", !.first = first, !.todo = todo]
  <2>1. todo \subseteq Deps
    <3>1. first \subseteq Records
      BY <1>3, ExecutableTargetsType
    <3> HIDE DEF first
    <3> QED BY <3>1, LifecycleAssumption
  <2>2. /\ next.pc = "locking_deps" /\ next.req = r /\ next.user = s.user
        /\ next.now = s.now /\ next.todo = todo
    <3> HIDE DEF first, todo
    <3> QED BY <1>1 DEF SessionState
  <2>3. session' = [session EXCEPT ![v] = next] /\ held[v] \subseteq held'[v]
    BY <1>6 DEF FirstRevalidation, Continue
  <2> HIDE DEF next, todo
  <2> QED
    BY <1>2, <2>1, <2>2, <2>3, ApprovalProtocol DEF Approving
<1>7. CASE SecondRevalidation(v)
  <2> DEFINE todo == VisibleTargets(r, s.ctx) \ Locked(v)
             next == [s EXCEPT !.pc = "locking2", !.todo = todo]
  <2>1. todo \subseteq action[r].targets
    BY DEF VisibleTargets
  <2>2. /\ next.pc = "locking2" /\ next.req = r /\ next.user = s.user
        /\ next.now = s.now /\ next.todo = todo
    <3> HIDE DEF todo
    <3> QED BY <1>1 DEF SessionState
  <2>3. session' = [session EXCEPT ![v] = next] /\ held[v] \subseteq held'[v]
    BY <1>7 DEF SecondRevalidation, Continue
  <2> HIDE DEF next, todo
  <2> QED
    BY <1>2, <2>1, <2>2, <2>3, ApprovalProtocol DEF Approving
<1>8. CASE DecideExecute(v)
  <2> DEFINE final == ExecutableTargets(v)
             next == [s EXCEPT !.pc = "executing", !.final = final]
  <2>1. final \subseteq action[r].targets
    BY <1>3, ExecutableTargetsType
  <2>2. /\ next.pc = "executing" /\ next.req = r /\ next.user = s.user
        /\ next.now = s.now /\ next.final = final
    <3> HIDE DEF final
    <3> QED BY <1>1 DEF SessionState
  <2>3. session' = [session EXCEPT ![v] = next] /\ held[v] \subseteq held'[v]
    BY <1>8 DEF DecideExecute, Continue
  <2> HIDE DEF next, final
  <2> QED
    BY <1>2, <2>1, <2>2, <2>3, ApprovalProtocol DEF Approving
<1> QED
  BY <1>4, <1>5, <1>6, <1>7, <1>8

\* A worker's own step keeps its part of the protocol.
LEMMA OwnProtocol ==
    ASSUME TypeOK, LockProtocol, PairConsistent, NEW v \in Workers, StepOf(v)
    PROVE  WorkerProtocol(v)'
<1>1. CASE EndTransaction(v)
  BY <1>1, IdleProtocol
<1>2. CASE RollBackToFailure(v) /\ session[v].pc \in Approving
  BY <1>2, RollBackProtocol
<1>3. CASE Begin(v)
  BY <1>3, BeginProtocol
<1>4. CASE Serve(v)
  BY <1>4, <1>1, ClaimProtocol DEF Serve, SubmitAccept, SubmitAgain,
     OwnerExpire, CancelCommit, CancelRefused, DecisionRefused, DeciderExpire,
     DetailNoWrite, RejectCommit, NoWrite
<1>5. CASE Advance(v)
  BY <1>5, <1>1, <1>2, SweepProtocol, LockingProtocol DEF Advance,
     ExpiringCommit, DecideEscalate, DecideForbidden, DecideUnstable, Execute,
     PersistFailure, NoWrite, Revalidated, Approving
<1>6. CASE Disturb(v)
  BY <1>6, <1>1, <1>2 DEF Disturb, ExecutionError, DeadlockVictim, Crash, NoWrite
<1> QED
  BY <1>3, <1>4, <1>5, <1>6 DEF StepOf

\* Row locks stay exclusive and every worker keeps to its part.
LEMMA LockNext ==
    ASSUME TypeOK, LockProtocol, PairConsistent, [Next]_vars
    PROVE  LockProtocol'
<1>1. CASE /\ UNCHANGED <<held, session>>
           /\ \A q \in Requests : Kept(q) \/ Created(q)
  <2>1. ASSUME NEW w \in Workers
        PROVE  WorkerProtocol(w)'
    <3>1. WorkerProtocol(w)
      BY DEF LockProtocol
    <3>2. \A q \in Requests : action[q].status # "none" => Kept(q)
      BY <1>1 DEF Created
    <3> QED
      BY <1>1, <3>1, <3>2 DEF WorkerProtocol, Approving, Pending, Kept
  <2> QED
    BY <1>1, <2>1 DEF LockProtocol
<1>2. CASE UNCHANGED vars
  BY <1>1, <1>2 DEF vars, Kept
<1>3. ASSUME NEW r \in Requests, CreatePreview(r)
      PROVE  LockProtocol'
  <2>1. ASSUME NEW q \in Requests
        PROVE  Kept(q) \/ Created(q)
    <3>1. q # r => Kept(q)
      BY <1>3 DEF CreatePreview, Kept, TypeOK
    <3>2. Created(r)
      BY <1>3 DEF CreatePreview, Created, TypeOK
    <3> QED BY <3>1, <3>2
  <2>2. UNCHANGED <<held, session>>
    BY <1>3 DEF CreatePreview
  <2> QED BY <1>1, <2>1, <2>2
<1>4. CASE Environment
  BY <1>1, <1>4 DEF Environment, Tick, ChangeAccess, WriteRow, WriteDep, Kept
<1>5. ASSUME NEW v \in Workers, StepOf(v)
      PROVE  LockProtocol'
  <2>1. \A w, u \in Workers : w # u => held'[w] \cap held'[u] = {}
    BY <1>5, WorkerFrame DEF LockProtocol, FreeFor
  <2>2. ASSUME NEW w \in Workers, w # v
        PROVE  WorkerProtocol(w)'
    BY <1>5, <2>2, OthersProtocol
  <2>3. WorkerProtocol(v)'
    BY <1>5, OwnProtocol
  <2> QED
    BY <2>1, <2>2, <2>3 DEF LockProtocol
<1> QED
  BY <1>2, <1>3, <1>4, <1>5 DEF Next, StepOf

-----------------------------------------------------------------------------
(* The inductive invariant, and what follows from it                       *)

\* Types alone are not inductive: what a worker writes is well typed only for
\* the request its place in the handler guarantees (LockProtocol), and a pair
\* held by one worker is safe from the others only because every writer goes
\* through its lock and meets consistent rows there (PairConsistent).
Inv == TypeOK /\ LockProtocol /\ PairConsistent

\* The invariant holds at the start.
LEMMA InvInit == Init => Inv
<1> SUFFICES ASSUME Init PROVE Inv
  OBVIOUS
<1>1. TypeOK
  BY TypeInit
<1>2. PairConsistent
  BY DEF Init, PairConsistent, NoAction, NoApproval
<1>3. LockProtocol
  <2>1. \A w \in Workers : session[w] = Idle /\ held[w] = {}
    BY DEF Init
  <2>2. Idle.pc = "idle"
    BY DEF Idle
  <2> QED BY <2>1, <2>2 DEF LockProtocol, WorkerProtocol, Approving
<1> QED
  BY <1>1, <1>2, <1>3 DEF Inv

\* The invariant is inductive.
LEMMA InvNext == Inv /\ [Next]_vars => Inv'
BY TypeNext, LockNext, PairNext DEF Inv

\* The invariant holds in every reachable state.
THEOREM InvHolds == Spec => []Inv
BY InvInit, InvNext, PTL DEF Spec

\* Every variable always has its type, so every commit of every handler
\* leaves rows their column constraints allow.
THEOREM TypeCorrect == Spec => []TypeOK
<1>1. Inv => TypeOK
  BY DEF Inv
<1> QED BY <1>1, InvHolds, PTL

\* The lock protocol holds in every reachable state, for any number of
\* workers: in particular an approval under way always holds the pair lock of
\* a request that is still pending and was claimed in time.
THEOREM LockProtocolHolds == Spec => []LockProtocol
<1>1. Inv => LockProtocol
  BY DEF Inv
<1> QED BY <1>1, InvHolds, PTL

\* An action row and its approval row always tell the same story.
THEOREM PairsConsistent == Spec => []PairConsistent
<1>1. Inv => PairConsistent
  BY DEF Inv
<1> QED BY <1>1, InvHolds, PTL

\* One step keeps ExecutedOnlyIfCompleted.
LEMMA ExecutedNext ==
    ASSUME Inv, ExecutedOnlyIfCompleted, [Next]_vars
    PROVE  ExecutedOnlyIfCompleted'
<1> SUFFICES ASSUME NEW r \in Requests
             PROVE  /\ executed'[r] \subseteq action'[r].targets
                    /\ executed'[r] # {} => action'[r].status = "completed"
  BY DEF ExecutedOnlyIfCompleted
<1>1. /\ executed[r] \subseteq action[r].targets
      /\ executed[r] # {} => action[r].status = "completed"
  BY DEF ExecutedOnlyIfCompleted
<1>2. Kept(r) \/ Created(r) \/ Changed(r)
  BY StepEffect DEF Inv
<1> QED
  BY <1>1, <1>2 DEF Kept, Created, Changed, Accepted, Escalated, Withdrawn,
                    Decided, SameRequest, Pending

\* A target row is changed only on behalf of a completed request whose
\* preview named it, whatever fails, crashes or is overtaken on the way.
THEOREM MutationOnlyByCompletion == Spec => []ExecutedOnlyIfCompleted
<1>1. Init => ExecutedOnlyIfCompleted
  BY DEF Init, ExecutedOnlyIfCompleted
<1>2. Inv /\ ExecutedOnlyIfCompleted /\ [Next]_vars => ExecutedOnlyIfCompleted'
  BY ExecutedNext
<1> QED
  BY <1>1, <1>2, InvHolds, PTL DEF Spec

\* One step keeps DatedWithinDeadline.
LEMMA DatedNext ==
    ASSUME Inv, DatedWithinDeadline, [Next]_vars
    PROVE  DatedWithinDeadline'
<1> DEFINE InTime(a, d) ==
        CASE a.status \in {"approved", "rejected", "cancelled"} -> a.at < d
          [] a.status = "expired" -> a.at >= d
          [] OTHER -> TRUE
<1> SUFFICES ASSUME NEW r \in Requests
             PROVE  InTime(approval'[r], action'[r].deadline)
  BY DEF DatedWithinDeadline
<1>1. InTime(approval[r], action[r].deadline)
  BY DEF DatedWithinDeadline
<1>2. CASE Kept(r) \/ Escalated(r)
  BY <1>1, <1>2 DEF Kept, Escalated
<1>3. CASE Created(r) \/ Withdrawn(r)
  BY <1>3 DEF Created, Withdrawn, Inv, PairConsistent
<1>4. CASE Accepted(r)
  BY <1>4 DEF Accepted
<1>5. CASE Decided(r)
  BY <1>5 DEF Decided, SameRequest
<1> QED
  BY <1>2, <1>3, <1>4, <1>5, StepEffect DEF Inv, Changed

\* Decisions are dated before the deadline and expiries not before it, for
\* every lifetime of previews and pending requests.
THEOREM DatedInTime == Spec => []DatedWithinDeadline
<1>1. Init => DatedWithinDeadline
  BY DEF Init, DatedWithinDeadline, NoApproval
<1>2. Inv /\ DatedWithinDeadline /\ [Next]_vars => DatedWithinDeadline'
  BY DatedNext
<1> QED
  BY <1>1, <1>2, InvHolds, PTL DEF Spec

\* Only a submitted request can have been escalated.
EscalatedAfterSubmission ==
    \A r \in Requests : action[r].revOverride = TRUE =>
        action[r].status \notin {"none", "draft_preview"}

\* One step keeps EscalatedAfterSubmission.
LEMMA EscalatedNext ==
    ASSUME Inv, EscalatedAfterSubmission, [Next]_vars
    PROVE  EscalatedAfterSubmission'
<1> SUFFICES ASSUME NEW r \in Requests, action'[r].revOverride = TRUE
             PROVE  action'[r].status \notin {"none", "draft_preview"}
  BY DEF EscalatedAfterSubmission
<1>1. Kept(r) \/ Created(r) \/ Changed(r)
  BY StepEffect DEF Inv
<1> QED
  BY <1>1 DEF EscalatedAfterSubmission, Kept, Created, Changed, Accepted,
              Escalated, Withdrawn, Decided, SameRequest, Pending

\* One step leaves a settled request alone and an escalation in place.
LEMMA FinalStep ==
    ASSUME Inv, EscalatedAfterSubmission, [Next]_vars, NEW r \in Requests
    PROVE  /\ action[r].status \in TerminalStatus => Kept(r)
           /\ action[r].revOverride = TRUE => action'[r].revOverride = TRUE
<1>1. Kept(r) \/ Created(r) \/ Changed(r)
  BY StepEffect DEF Inv
<1> QED
  BY <1>1 DEF EscalatedAfterSubmission, Kept, Created, Changed, Accepted,
              Escalated, Withdrawn, Decided, SameRequest, Pending, TerminalStatus

\* One winner: no step of any worker changes the rows of a request that has
\* an outcome, and no step takes an escalation back.
THEOREM OneWinner == Spec => DecisionsAreFinal
<1> DEFINE Final == \A r \in Requests :
          /\ action[r].status \in TerminalStatus =>
                /\ action'[r] = action[r] /\ approval'[r] = approval[r]
                /\ executed'[r] = executed[r]
          /\ action[r].revOverride => action'[r].revOverride
<1>1. Init => EscalatedAfterSubmission
  BY DEF Init, EscalatedAfterSubmission, NoAction
<1>2. Inv /\ EscalatedAfterSubmission /\ [Next]_vars => EscalatedAfterSubmission'
  BY EscalatedNext
<1>3. Inv /\ EscalatedAfterSubmission /\ [Next]_vars => [Final]_vars
  <2> SUFFICES ASSUME Inv, EscalatedAfterSubmission, [Next]_vars, NEW r \in Requests
               PROVE  /\ action[r].status \in TerminalStatus => Kept(r)
                      /\ action[r].revOverride => action'[r].revOverride
    BY DEF Kept
  <2>1. action[r].revOverride \in BOOLEAN
    BY DEF Inv, TypeOK, ActionRow
  <2>2. action[r].revOverride => action[r].revOverride = TRUE
    BY <2>1
  <2>3. action'[r].revOverride = TRUE => action'[r].revOverride
    OBVIOUS
  <2> QED BY <2>2, <2>3, FinalStep
<1> QED
  BY <1>1, <1>2, <1>3, InvHolds, PTL DEF Spec, DecisionsAreFinal

-----------------------------------------------------------------------------
(* An escalated request needs the override permission                      *)

Flagged(a) == a.override = TRUE \/ a.revOverride = TRUE

\* Whoever is approving a request that carries an override flag, from its
\* preview or from an escalation, has the override permission.
ClaimedWithOverride ==
    \A w \in Workers :
        session[w].pc \in Approving /\ Flagged(action[session[w].req])
        => OVERRIDE \in session[w].ctx.permissions

\* The decision evaluated under the lock is allowed for a flagged request
\* only with the override permission.
LEMMA AllowedNeedsOverride ==
    ASSUME NEW r, NEW self, NEW ctx, Flagged(action[r]),
           Allowed(ApprovalDecision(r, self, ctx))
    PROVE  OVERRIDE \in ctx.permissions
BY DEF Allowed, ApprovalDecision, evaluate_action_approval, Flagged

\* A worker becomes an approver only by a claim; after it, its request and its
\* access context stay and the request's row is its own until it commits.
LEMMA OwnContext ==
    ASSUME Inv, NEW v \in Workers, StepOf(v), session'[v].pc \in Approving
    PROVE  \/ ApproveClaim(v) /\ session'[v].req = session[v].req
                              /\ session'[v].ctx = session[v].ctx
           \/ /\ session[v].pc \in Approving /\ action' = action
              /\ session'[v].req = session[v].req
              /\ session'[v].ctx = session[v].ctx
<1> DEFINE s == session[v]
<1>1. s \in SessionState /\ TypeOK
  BY DEF Inv, TypeOK
<1>2. CASE EndTransaction(v)
  BY <1>1, <1>2 DEF EndTransaction, Continue, Idle, TypeOK, Approving
<1>3. CASE RollBackToFailure(v)
  <2>1. session'[v] = [s EXCEPT !.pc = "failed", !.todo = {}, !.first = {}, !.final = {}]
    BY <1>1, <1>3 DEF RollBackToFailure, Continue, TypeOK
  <2>2. session'[v].pc = "failed"
    BY <1>1, <2>1 DEF SessionState
  <2> QED BY <2>2 DEF Approving
<1>4. CASE Begin(v)
  <2>1. ASSUME NEW k, NEW u, NEW r, Start(v, Job(k, u, r))
        PROVE  session'[v].pc = "queued"
    BY <1>1, <2>1 DEF Start, Continue, Job, Idle, TypeOK
  <2>2. ASSUME NEW u, NEW rows,
               Start(v, [Idle EXCEPT !.pc = "expiring", !.kind = "list",
                                     !.user = u, !.ctx = access[u],
                                     !.now = clock, !.todo = rows])
        PROVE  session'[v].pc = "expiring"
    BY <1>1, <2>2 DEF Start, Continue, Idle, TypeOK
  <2> QED
    BY <1>4, <2>1, <2>2 DEF Begin, StartOwn, StartDecision, StartDetail,
                            StartList, Approving
<1>5. CASE ApproveClaim(v)
  <2> DEFINE todo == VisibleTargets(s.req, s.ctx)
             next == [s EXCEPT !.pc = "locking1", !.now = clock, !.todo = todo]
  <2>1. session'[v] = next
    BY <1>1, <1>5 DEF ApproveClaim, Continue, TypeOK
  <2>2. next.req = s.req /\ next.ctx = s.ctx
    <3> HIDE DEF todo
    <3> QED BY <1>1 DEF SessionState
  <2> QED BY <1>5, <2>1, <2>2
<1>6. CASE ExpiringUpdate(v)
  <2>1. PICK r \in s.todo : Continue(v, [s EXCEPT !.todo = @ \ {r}])
    BY <1>6 DEF ExpiringUpdate
  <2>2. session'[v] = [s EXCEPT !.todo = @ \ {r}]
    BY <1>1, <2>1 DEF Continue, TypeOK
  <2>3. session'[v].pc = s.pc
    BY <1>1, <2>2 DEF SessionState
  <2> QED BY <1>6, <2>3 DEF ExpiringUpdate, Approving
<1>7. CASE LockTarget(v) \/ LockDependency(v)
  <2>1. PICK x \in s.todo : Continue(v, [s EXCEPT !.todo = @ \ {x}])
    BY <1>7 DEF LockTarget, LockDependency
  <2>2. session'[v] = [s EXCEPT !.todo = @ \ {x}]
    BY <1>1, <2>1 DEF Continue, TypeOK
  <2>3. session'[v].req = s.req /\ session'[v].ctx = s.ctx
    BY <1>1, <2>2 DEF SessionState
  <2> QED BY <1>7, <2>3 DEF LockTarget, LockDependency, Approving
<1>8. CASE FirstRevalidation(v)
  <2> DEFINE first == ExecutableTargets(v)
             todo == {DepOf[x] : x \in first}
             next == [s EXCEPT !.pc = "locking_deps", !.first = first, !.todo = todo]
  <2>1. session'[v] = next
    BY <1>1, <1>8 DEF FirstRevalidation, Continue, TypeOK
  <2>2. next.req = s.req /\ next.ctx = s.ctx
    <3> HIDE DEF first, todo
    <3> QED BY <1>1 DEF SessionState
  <2> QED BY <1>8, <2>1, <2>2 DEF FirstRevalidation, Approving
<1>9. CASE SecondRevalidation(v)
  <2> DEFINE todo == VisibleTargets(s.req, s.ctx) \ Locked(v)
             next == [s EXCEPT !.pc = "locking2", !.todo = todo]
  <2>1. session'[v] = next
    BY <1>1, <1>9 DEF SecondRevalidation, Continue, TypeOK
  <2>2. next.req = s.req /\ next.ctx = s.ctx
    <3> HIDE DEF todo
    <3> QED BY <1>1 DEF SessionState
  <2> QED BY <1>9, <2>1, <2>2 DEF SecondRevalidation, Approving
<1>10. CASE DecideExecute(v)
  <2> DEFINE final == ExecutableTargets(v)
             next == [s EXCEPT !.pc = "executing", !.final = final]
  <2>1. session'[v] = next
    BY <1>1, <1>10 DEF DecideExecute, Continue, TypeOK
  <2>2. next.req = s.req /\ next.ctx = s.ctx
    <3> HIDE DEF final
    <3> QED BY <1>1 DEF SessionState
  <2> QED BY <1>10, <2>1, <2>2 DEF DecideExecute, Revalidated, Approving
<1>11. CASE Serve(v)
  BY <1>2, <1>5, <1>11 DEF Serve, SubmitAccept, SubmitAgain, OwnerExpire,
     CancelCommit, CancelRefused, DecisionRefused, DeciderExpire,
     DetailNoWrite, RejectCommit, NoWrite
<1>12. CASE Advance(v)
  BY <1>2, <1>3, <1>6, <1>7, <1>8, <1>9, <1>10, <1>12 DEF Advance,
     ExpiringCommit, DecideEscalate, DecideForbidden, DecideUnstable, Execute,
     PersistFailure, NoWrite
<1>13. CASE Disturb(v)
  BY <1>2, <1>3, <1>13 DEF Disturb, ExecutionError, DeadlockVictim, Crash, NoWrite
<1> QED
  BY <1>4, <1>11, <1>12, <1>13 DEF StepOf

\* ClaimedWithOverride is kept by a step of any worker.
LEMMA ClaimNext ==
    ASSUME Inv, ClaimedWithOverride, [Next]_vars
    PROVE  ClaimedWithOverride'
<1> SUFFICES ASSUME NEW w \in Workers, session'[w].pc \in Approving,
                    Flagged(action'[session'[w].req])
             PROVE  OVERRIDE \in session'[w].ctx.permissions
  BY DEF ClaimedWithOverride, Flagged
<1> DEFINE r == session[w].req
<1>1. session[w].pc \in Approving =>
          r \in Requests /\ Pending(r) /\ <<"action", r>> \in held[w]
  BY DEF Inv, LockProtocol, WorkerProtocol
<1>2. CASE session'[w] = session[w] /\ (session[w].pc \in Approving => Kept(r))
  BY <1>2 DEF ClaimedWithOverride, Kept
<1>3. CASE UNCHANGED vars \/ Environment
  BY <1>2, <1>3 DEF vars, Environment, Tick, ChangeAccess, WriteRow, WriteDep, Kept
<1>4. ASSUME NEW q \in Requests, CreatePreview(q)
      PROVE  OVERRIDE \in session'[w].ctx.permissions
  <2>1. session'[w] = session[w] /\ action[q].status = "none"
    BY <1>4 DEF CreatePreview
  <2>2. session[w].pc \in Approving => r # q
    BY <1>1, <2>1 DEF Pending
  <2>3. session[w].pc \in Approving => Kept(r)
    BY <1>1, <1>4, <2>2 DEF CreatePreview, Kept, Inv, TypeOK
  <2> QED BY <1>2, <2>1, <2>3
<1>5. ASSUME NEW v \in Workers, StepOf(v), v # w
      PROVE  OVERRIDE \in session'[w].ctx.permissions
  <2>1. session'[w] = session[w]
    BY <1>5, WorkerFrame DEF Inv
  <2>2. session[w].pc \in Approving => Kept(r)
    BY <1>1, <1>5, WorkerEffect DEF Inv, LockProtocol, Touch, FreeFor
  <2> QED BY <1>2, <2>1, <2>2
<1>6. CASE StepOf(w)
  <2>1. CASE ApproveClaim(w) /\ session'[w].req = r
                             /\ session'[w].ctx = session[w].ctx
    <3>1. /\ action' = action
          /\ Allowed(ApprovalDecision(r, session[w].user = Owner[r], session[w].ctx))
      BY <2>1 DEF ApproveClaim, Decidable
    <3> QED BY <2>1, <3>1, AllowedNeedsOverride
  <2>2. CASE /\ session[w].pc \in Approving /\ action' = action
             /\ session'[w].req = r /\ session'[w].ctx = session[w].ctx
    BY <2>2 DEF ClaimedWithOverride
  <2> QED
    BY <1>6, <2>1, <2>2, OwnContext
<1> QED
  BY <1>3, <1>4, <1>5, <1>6 DEF Next, StepOf

\* The step that completes a flagged request is taken by such an approver.
LEMMA OverrideNext ==
    ASSUME Inv, ClaimedWithOverride, OverrideNeedsPermission, [Next]_vars
    PROVE  OverrideNeedsPermission'
<1> SUFFICES ASSUME NEW r \in Requests, action'[r].status = "completed",
                    action'[r].override \/ action'[r].revOverride
             PROVE  OVERRIDE \in approval'[r].with.permissions
  BY DEF OverrideNeedsPermission
<1>1. CASE Kept(r)
  BY <1>1 DEF Kept, OverrideNeedsPermission
<1>2. CASE Decided(r)
  <2>1. PICK v \in Workers :
            /\ session[v].pc = "executing" /\ session[v].req = r
            /\ approval'[r].with = session[v].ctx
    BY <1>2 DEF Decided
  <2>2. Flagged(action[r])
    <3>1. action[r].override \in BOOLEAN /\ action[r].revOverride \in BOOLEAN
      BY DEF Inv, TypeOK, ActionRow
    <3>2. /\ action'[r].override = action[r].override
          /\ action'[r].revOverride = action[r].revOverride
      BY <1>2 DEF Decided, SameRequest
    <3> QED BY <3>1, <3>2 DEF Flagged
  <2> QED
    BY <2>1, <2>2 DEF ClaimedWithOverride, Approving
<1>3. ~ Created(r) /\ ~ Accepted(r) /\ ~ Escalated(r) /\ ~ Withdrawn(r)
  BY DEF Created, Accepted, Escalated, Withdrawn, Pending
<1> QED
  BY <1>1, <1>2, <1>3, StepEffect DEF Inv, Changed

\* A request whose preview needed an override, or that was escalated, is
\* completed only by a decider whose access context held the override
\* permission, whoever escalated it.
THEOREM OverrideHeld == Spec => []OverrideNeedsPermission
<1>1. Init => ClaimedWithOverride /\ OverrideNeedsPermission
  BY DEF Init, ClaimedWithOverride, OverrideNeedsPermission, Idle, Approving, NoAction
<1>2. Inv /\ ClaimedWithOverride /\ [Next]_vars => ClaimedWithOverride'
  BY ClaimNext
<1>3. Inv /\ ClaimedWithOverride /\ OverrideNeedsPermission /\ [Next]_vars
      => OverrideNeedsPermission'
  BY OverrideNext
<1> QED
  BY <1>1, <1>2, <1>3, InvHolds, PTL DEF Spec

-----------------------------------------------------------------------------
(* Nobody is notified twice.                                               *)

\* Nobody has been told of a request that is not submitted.
SilentBeforeSubmission ==
    \A r \in Requests : action[r].status \in {"none", "draft_preview"} =>
        \A u \in Users : notified[r][u] = 0

\* Notifications of a request change only when it is accepted, when each user
\* gets at most one, or when it is escalated, when only users without any get
\* one.
LEMMA NotifyEffect ==
    ASSUME Inv, [Next]_vars, NEW q \in Requests
    PROVE  \/ notified'[q] = notified[q]
           \/ /\ action[q].status = "draft_preview"
              /\ action'[q].status \notin {"none", "draft_preview"}
              /\ \A u \in Users : notified'[q][u] <= notified[q][u] + 1
           \/ /\ action[q].status \notin {"none", "draft_preview"}
              /\ \A u \in Users : \/ notified'[q][u] = notified[q][u]
                                  \/ notified'[q][u] = 1
<1>1. CASE UNCHANGED notified
  BY <1>1
<1>2. CASE Environment \/ UNCHANGED vars \/ \E r \in Requests : CreatePreview(r)
  BY <1>1, <1>2 DEF vars, Environment, Tick, ChangeAccess, WriteRow, WriteDep,
                    CreatePreview
<1>3. ASSUME NEW r \in Requests, NEW users, Notify(r, users)
      PROVE  /\ q # r => notified'[q] = notified[q]
             /\ \A u \in Users : notified'[r][u] =
                    IF u \in users THEN notified[r][u] + 1 ELSE notified[r][u]
  BY <1>3 DEF Notify, Inv, TypeOK
<1>4. \A u \in Users : notified[q][u] \in Nat
  BY DEF Inv, TypeOK
<1>5. ASSUME NEW v \in Workers, SubmitAccept(v)
      PROVE  \/ notified'[q] = notified[q]
             \/ /\ action[q].status = "draft_preview"
                /\ action'[q].status \notin {"none", "draft_preview"}
                /\ \A u \in Users : notified'[q][u] <= notified[q][u] + 1
  <2> DEFINE r == session[v].req
  <2>1. r \in Requests /\ action[r].status = "draft_preview"
    BY <1>5, ServingRequest DEF SubmitAccept, Serving, Inv
  <2>2. PICK users : Notify(r, users)
    BY <1>5 DEF SubmitAccept
  <2>3. action'[r].status = "pending_approval"
    <3>1. action[r] \in ActionRow
      BY <2>1 DEF Inv, TypeOK
    <3>2. action'[r] = [action[r] EXCEPT !.status = "pending_approval",
                            !.deadline = clock + PENDING_APPROVAL_LIFETIME]
      BY <1>5, <2>1 DEF SubmitAccept, Inv, TypeOK
    <3> QED BY <3>1, <3>2 DEF ActionRow
  <2> QED
    BY <1>3, <1>4, <2>1, <2>2, <2>3
<1>6. ASSUME NEW v \in Workers, DecideEscalate(v)
      PROVE  \/ notified'[q] = notified[q]
             \/ /\ action[q].status \notin {"none", "draft_preview"}
                /\ \A u \in Users : \/ notified'[q][u] = notified[q][u]
                                    \/ notified'[q][u] = 1
  <2> DEFINE r == session[v].req
  <2>1. r \in Requests /\ Pending(r)
    BY <1>6 DEF Inv, LockProtocol, WorkerProtocol, DecideEscalate, Revalidated,
                Approving
  <2>2. PICK eligible : Notify(r, Unnotified(r, eligible))
    BY <1>6 DEF DecideEscalate
  <2> DEFINE users == Unnotified(r, eligible)
  <2>3. \A u \in users : notified[r][u] = 0
    BY DEF Unnotified
  <2> HIDE DEF users
  <2>4. Notify(r, users)
    BY <2>2 DEF users
  <2> QED
    BY <1>3, <1>4, <2>1, <2>3, <2>4 DEF Pending
<1>7. ASSUME NEW v \in Workers, StepOf(v), ~ SubmitAccept(v), ~ DecideEscalate(v)
      PROVE  UNCHANGED notified
  <2>1. CASE Begin(v) \/ Disturb(v)
    BY <2>1 DEF Begin, StartOwn, StartDecision, StartDetail, StartList, Start,
       Disturb, ExecutionError, DeadlockVictim, Crash, NoWrite, RollBackToFailure
  <2>2. CASE Serve(v)
    BY <1>7, <2>2 DEF Serve, SubmitAgain, OwnerExpire, CancelCommit,
       CancelRefused, DecisionRefused, DeciderExpire, DetailNoWrite,
       RejectCommit, ApproveClaim, NoWrite
  <2>3. CASE Advance(v)
    BY <1>7, <2>3 DEF Advance, ExpiringUpdate, ExpiringCommit, LockTarget,
       FirstRevalidation, LockDependency, SecondRevalidation, DecideExecute,
       DecideForbidden, DecideUnstable, Execute, PersistFailure, NoWrite,
       RollBackToFailure
  <2> QED BY <1>7, <2>1, <2>2, <2>3 DEF StepOf
<1> QED
  BY <1>1, <1>2, <1>5, <1>6, <1>7 DEF Next, StepOf

\* One step keeps both facts.
LEMMA NotifiedNext ==
    ASSUME Inv, SilentBeforeSubmission, NotifiedOnce, [Next]_vars
    PROVE  SilentBeforeSubmission' /\ NotifiedOnce'
<1> SUFFICES ASSUME NEW r \in Requests, NEW u \in Users
             PROVE  /\ action'[r].status \in {"none", "draft_preview"} =>
                          notified'[r][u] = 0
                    /\ notified'[r][u] <= 1
  BY DEF SilentBeforeSubmission, NotifiedOnce
<1>1. action[r].status \notin {"none", "draft_preview"} =>
          action'[r].status \notin {"none", "draft_preview"}
  BY SubmittedKeeps DEF Inv
<1>2. /\ action[r].status \in {"none", "draft_preview"} => notified[r][u] = 0
      /\ notified[r][u] <= 1 /\ notified[r][u] \in Nat
  BY DEF SilentBeforeSubmission, NotifiedOnce, Inv, TypeOK
<1>3. notified'[r][u] \in Nat
  BY InvNext DEF Inv, TypeOK
<1> QED
  BY <1>1, <1>2, <1>3, NotifyEffect

\* No user is told twice that the same request waits for approval, however
\* often its submission is retried and whoever escalates it.
THEOREM ToldOnce == Spec => []NotifiedOnce
<1>1. Init => SilentBeforeSubmission /\ NotifiedOnce
  BY DEF Init, SilentBeforeSubmission, NotifiedOnce
<1>2. Inv /\ SilentBeforeSubmission /\ NotifiedOnce /\ [Next]_vars
      => SilentBeforeSubmission' /\ NotifiedOnce'
  BY NotifiedNext
<1> QED
  BY <1>1, <1>2, InvHolds, PTL DEF Spec

-----------------------------------------------------------------------------
(* The protocol implements the contract.                                   *)

\* Apart from the commit of an expiry sweep, a worker's step leaves every
\* request alone but the one it serves.
LEMMA OneRequest ==
    ASSUME Inv, NEW v \in Workers, StepOf(v), ~ ExpiringCommit(v),
           NEW q \in Requests, q # session[v].req
    PROVE  Kept(q)
<1> DEFINE r == session[v].req
<1>1. TypeOK
  BY DEF Inv
<1>2. CASE UNCHANGED <<action, approval, executed>>
  BY <1>2 DEF Kept
<1>3. ASSUME NEW status, NEW decision, NEW by, NEW ctx, NEW now,
             Settle(r, status, decision, by, ctx, now)
      PROVE  action'[q] = action[q] /\ approval'[q] = approval[q]
  BY <1>1, <1>3 DEF Settle, TypeOK
<1>4. CASE Begin(v)
  BY <1>2, <1>4 DEF Begin, StartOwn, StartDecision, StartDetail, StartList, Start
<1>5. CASE Disturb(v)
  BY <1>2, <1>5 DEF Disturb, ExecutionError, DeadlockVictim, Crash, NoWrite,
                    RollBackToFailure, Unserved
<1>6. CASE SubmitAccept(v)
  BY <1>1, <1>6 DEF SubmitAccept, Unserved, Kept, TypeOK
<1>7. CASE OwnerExpire(v) \/ CancelCommit(v) \/ DeciderExpire(v) \/ RejectCommit(v)
  BY <1>3, <1>7 DEF OwnerExpire, CancelCommit, DeciderExpire, RejectCommit,
                    Expire, Unserved, Kept
<1>8. CASE Serve(v)
  BY <1>2, <1>6, <1>7, <1>8 DEF Serve, SubmitAgain, CancelRefused,
     DecisionRefused, DetailNoWrite, ApproveClaim, NoWrite, Unserved
<1>9. CASE DecideEscalate(v)
  BY <1>1, <1>9 DEF DecideEscalate, Unserved, Kept, TypeOK
<1>10. CASE Execute(v)
  BY <1>1, <1>3, <1>10 DEF Execute, Kept, TypeOK
<1>11. CASE PersistFailure(v)
  BY <1>2, <1>3, <1>11 DEF PersistFailure, Unserved, Kept
<1>12. CASE Advance(v)
  BY <1>2, <1>9, <1>10, <1>11, <1>12 DEF Advance, ExpiringUpdate, LockTarget,
     FirstRevalidation, LockDependency, SecondRevalidation, DecideExecute,
     DecideForbidden, DecideUnstable, NoWrite, RollBackToFailure, Unserved
<1> QED
  BY <1>4, <1>5, <1>8, <1>12 DEF StepOf

\* One request that moves in one of the ways above, while the others stay, is
\* a step of the contract.
LEMMA MoveRefines ==
    ASSUME TypeOK, TypeOK', NEW r \in Requests,
           Kept(r) \/ Created(r) \/ Changed(r),
           \A q \in Requests : q # r => Kept(q)
    PROVE  [Contract!CNext]_(Contract!cvars)
<1> DEFINE status == [q \in Requests |-> action[q].status]
           new == action'[r].status
           rows == executed'[r]
<1>1. status' = [status EXCEPT ![r] = new] /\ status[r] = action[r].status
  BY DEF Kept
<1>2. executed' = [executed EXCEPT ![r] = rows] /\ rows \in SUBSET Records
  BY DEF Kept, TypeOK
<1>3. rows = executed[r] => executed' = executed
  BY <1>2 DEF TypeOK
<1>4. new = action[r].status => status' = status
  BY <1>1
<1> USE DEF Contract!CNext, Contract!cvars
<1>5. CASE Kept(r) \/ Escalated(r)
  BY <1>3, <1>4, <1>5 DEF Kept, Escalated
<1>6. CASE Created(r)
  BY <1>1, <1>3, <1>6 DEF Created, Contract!Preview, Contract!Move
<1>7. CASE Accepted(r)
  BY <1>1, <1>3, <1>7 DEF Accepted, Contract!Submit, Contract!Move
<1>8. ASSUME new = "expired", rows = executed[r],
             action[r].status \in {"draft_preview", "pending_approval"}
      PROVE  Contract!Lapse({r})
  BY <1>1, <1>3, <1>8 DEF Contract!Lapse, Contract!Undecided
<1>9. CASE Withdrawn(r)
  BY <1>8, <1>9 DEF Withdrawn
<1>10. CASE Decided(r)
  <2>1. action[r].status = "pending_approval"
    BY <1>10 DEF Decided, Pending
  <2>2. CASE new = "completed"
    BY <1>1, <1>2, <2>1, <2>2 DEF Contract!Complete, Contract!Move
  <2>3. CASE new \in {"failed", "rejected", "cancelled"}
    BY <1>1, <1>3, <1>10, <2>1, <2>3 DEF Decided, Contract!Close, Contract!Move
  <2>4. CASE new = "expired"
    BY <1>8, <1>10, <2>1, <2>4 DEF Decided
  <2> QED
    BY <1>10, <2>2, <2>3, <2>4 DEF Decided
<1> QED
  BY <1>5, <1>6, <1>7, <1>9, <1>10 DEF Changed

\* The commit of an expiry sweep is one lapse of the pairs it holds.
LEMMA SweepRefines ==
    ASSUME Inv, NEW v \in Workers, ExpiringCommit(v)
    PROVE  Contract!CNext
<1> DEFINE S == {r \in Requests : <<"action", r>> \in held[v]}
<1>1. \A r \in S : action[r].status = "pending_approval"
  BY DEF Inv, LockProtocol, WorkerProtocol, ExpiringCommit, Pending
<1>2. ASSUME NEW r \in Requests
      PROVE  action'[r].status = IF r \in S THEN "expired" ELSE action[r].status
  <2>1. action'[r] = IF r \in S THEN [action[r] EXCEPT !.status = "expired"]
                                ELSE action[r]
    BY DEF ExpiringCommit
  <2>2. action[r] \in ActionRow
    BY DEF Inv, TypeOK
  <2> QED BY <2>1, <2>2 DEF ActionRow
<1>3. executed' = executed
  BY DEF ExpiringCommit, Unserved
<1>4. Contract!Lapse(S)
  BY <1>1, <1>2, <1>3 DEF Contract!Lapse, Contract!Undecided
<1>5. S \in SUBSET Requests
  OBVIOUS
<1> HIDE DEF S
<1> QED
  BY <1>4, <1>5 DEF Contract!CNext, Contract!Lapse

\* Every step of the protocol is a step of the contract or changes nothing it
\* shows.
LEMMA StepRefines ==
    ASSUME Inv, Inv', [Next]_vars
    PROVE  [Contract!CNext]_(Contract!cvars)
<1>1. \A q \in Requests : Kept(q) \/ Created(q) \/ Changed(q)
  BY StepEffect DEF Inv
<1>2. TypeOK /\ TypeOK'
  BY DEF Inv
<1>3. CASE \A q \in Requests : Kept(q)
  <2>1. [q \in Requests |-> action[q].status]' = [q \in Requests |-> action[q].status]
    BY <1>3 DEF Kept
  <2>2. executed' = executed
    BY <1>2, <1>3 DEF Kept, TypeOK
  <2> QED BY <2>1, <2>2 DEF Contract!cvars
<1>4. CASE UNCHANGED vars \/ Environment
  BY <1>3, <1>4 DEF vars, Environment, Tick, ChangeAccess, WriteRow, WriteDep, Kept
<1>5. ASSUME NEW r \in Requests, CreatePreview(r)
      PROVE  [Contract!CNext]_(Contract!cvars)
  <2>1. \A q \in Requests : q # r => Kept(q)
    BY <1>2, <1>5 DEF CreatePreview, Kept, TypeOK
  <2> QED BY <1>1, <1>2, <2>1, MoveRefines
<1>6. ASSUME NEW v \in Workers, StepOf(v)
      PROVE  [Contract!CNext]_(Contract!cvars)
  <2>1. CASE ExpiringCommit(v)
    BY <2>1, SweepRefines
  <2>2. CASE ~ ExpiringCommit(v)
    <3>1. \A q \in Requests : q # session[v].req => Kept(q)
      BY <1>6, <2>2, OneRequest
    <3>2. CASE session[v].req \in Requests
      BY <1>1, <1>2, <3>1, <3>2, MoveRefines
    <3>3. CASE session[v].req \notin Requests
      BY <1>3, <3>1, <3>3
    <3> QED BY <3>2, <3>3
  <2> QED BY <2>1, <2>2
<1> QED
  BY <1>4, <1>5, <1>6 DEF Next, StepOf

\* The protocol of locks, waits, rollbacks, sweeps and separate failure
\* records implements the contract of ActionContract.
THEOREM ImplementsContract == Spec => ContractHolds
<1>1. Init => Contract!CInit
  BY DEF Init, Contract!CInit, NoAction
<1>2. Inv /\ Inv' /\ [Next]_vars => [Contract!CNext]_(Contract!cvars)
  BY StepRefines
<1> QED
  BY <1>1, <1>2, InvHolds, PTL DEF Spec, ContractHolds, Contract!CSpec

-----------------------------------------------------------------------------
(* The locks of an approval                                                *)

\* What an approval has locked in each of its steps: target rows before
\* dependency rows, both in ascending order, every row of the first
\* revalidation with its dependency; and at the execution, rows that are
\* executable now, by someone who may override where one of them needs it.
OwnLocks(w) ==
    LET s == session[w]
    IN  /\ s.pc = "locking1" =>
              /\ \A d \in Deps : <<"dep", d>> \notin held[w]
              /\ \A x \in Records, y \in s.todo : <<"row", x>> \in held[w] => x < y
        /\ s.pc \in {"locking_deps", "locking2"} =>
              \A x \in s.first :
                 /\ <<"row", x>> \in held[w]
                 /\ \/ <<"dep", DepOf[x]>> \in held[w]
                    \/ s.pc = "locking_deps" /\ DepOf[x] \in s.todo
        /\ s.pc = "locking_deps" =>
              \A d \in Deps, e \in s.todo : <<"dep", d>> \in held[w] => d < e
        /\ s.pc = "executing" =>
              \A x \in s.final :
                 /\ <<"row", x>> \in held[w] /\ <<"dep", DepOf[x]>> \in held[w]
                 /\ Executable(s.ctx, x)
                 /\ NeedsOverride(s.req, x) => OVERRIDE \in s.ctx.permissions

LocksOK == \A w \in Workers : OwnLocks(w)

\* The rows and dependency rows a worker holds
Untouched(w) ==
    /\ \A x \in Records : <<"row", x>> \in held[w] => row'[x] = row[x]
    /\ \A d \in Deps : <<"dep", d>> \in held[w] => dep'[d] = dep[d]

\* A worker that does not move keeps what it relies on as long as nobody
\* touches what it holds.
LEMMA LocksFrame ==
    ASSUME Inv, NEW w \in Workers, OwnLocks(w), session'[w] = session[w],
           held'[w] = held[w], Untouched(w)
    PROVE  OwnLocks(w)'
<1>1. PICK s \in SessionState : s = session[w] /\ s = session'[w]
  BY DEF Inv, TypeOK
<1>2. /\ s.pc = "locking1" =>
            /\ \A d \in Deps : <<"dep", d>> \notin held'[w]
            /\ \A x \in Records, y \in s.todo : <<"row", x>> \in held'[w] => x < y
      /\ s.pc \in {"locking_deps", "locking2"} =>
            \A x \in s.first :
               /\ <<"row", x>> \in held'[w]
               /\ \/ <<"dep", DepOf[x]>> \in held'[w]
                  \/ s.pc = "locking_deps" /\ DepOf[x] \in s.todo
      /\ s.pc = "locking_deps" =>
            \A d \in Deps, e \in s.todo : <<"dep", d>> \in held'[w] => d < e
  BY <1>1 DEF OwnLocks
<1>3. ASSUME s.pc = "executing", NEW x \in s.final
      PROVE  /\ <<"row", x>> \in held'[w] /\ <<"dep", DepOf[x]>> \in held'[w]
             /\ Executable(s.ctx, x)'
             /\ NeedsOverride(s.req, x)' => OVERRIDE \in s.ctx.permissions
  <2>1. /\ <<"row", x>> \in held[w] /\ <<"dep", DepOf[x]>> \in held[w]
        /\ Executable(s.ctx, x)
        /\ NeedsOverride(s.req, x) => OVERRIDE \in s.ctx.permissions
    BY <1>1, <1>3 DEF OwnLocks
  <2>2. x \in Records /\ DepOf[x] \in Deps
    BY LifecycleAssumption DEF SessionState
  <2>3. row'[x] = row[x] /\ dep'[DepOf[x]] = dep[DepOf[x]]
    BY <2>1, <2>2 DEF Untouched
  <2> QED BY <2>1, <2>3 DEF Executable, NeedsOverride, CrossScope
<1> QED
  BY <1>1, <1>2, <1>3 DEF OwnLocks

\* Nobody but the holder of a lock changes the locked row: other writers wait,
\* and another approval executes only on rows it holds itself.
LEMMA LockedStays ==
    ASSUME Inv, LocksOK, NEW v \in Workers, StepOf(v), NEW w \in Workers, w # v
    PROVE  Untouched(w)
<1>1. CASE UNCHANGED <<row, dep>>
  BY <1>1 DEF Untouched
<1>2. CASE Execute(v)
  <2>1. /\ \A x \in Records : x \notin session[v].final => row'[x] = row[x]
        /\ dep' = dep /\ session[v].pc = "executing"
    BY <1>2 DEF Execute
  <2>2. \A x \in session[v].final : <<"row", x>> \in held[v]
    BY <2>1 DEF LocksOK, OwnLocks
  <2>3. \A x \in session[v].final : <<"row", x>> \notin held[w]
    BY <2>2 DEF Inv, LockProtocol
  <2> QED BY <2>1, <2>3 DEF Untouched
<1>3. CASE Begin(v)
  BY <1>1, <1>3 DEF Begin, StartOwn, StartDecision, StartDetail, StartList, Start
<1>4. CASE Disturb(v)
  BY <1>1, <1>4 DEF Disturb, ExecutionError, DeadlockVictim, Crash, NoWrite,
                    RollBackToFailure, Unserved
<1>5. CASE Serve(v)
  BY <1>1, <1>5 DEF Serve, SubmitAccept, SubmitAgain, OwnerExpire, CancelCommit,
     CancelRefused, DecisionRefused, DeciderExpire, DetailNoWrite, RejectCommit,
     ApproveClaim, NoWrite, Unserved
<1>6. CASE Advance(v)
  BY <1>1, <1>2, <1>6 DEF Advance, ExpiringUpdate, ExpiringCommit, LockTarget,
     FirstRevalidation, LockDependency, SecondRevalidation, DecideExecute,
     DecideEscalate, DecideForbidden, DecideUnstable, PersistFailure, NoWrite,
     RollBackToFailure, Unserved
<1> QED
  BY <1>3, <1>4, <1>5, <1>6 DEF StepOf

\* A claim holds its pair and nothing else.
LEMMA ClaimLocks ==
    ASSUME Inv, NEW v \in Workers, ApproveClaim(v)
    PROVE  OwnLocks(v)'
<1>1. PICK s \in SessionState : s = session[v] /\ s.pc = "queued" /\ held[v] = {}
  BY DEF ApproveClaim, Decidable, Serving, Inv, TypeOK, LockProtocol, WorkerProtocol
<1>2. PICK todo : todo = VisibleTargets(s.req, s.ctx)
  OBVIOUS
<1>3. PICK t : t = [s EXCEPT !.pc = "locking1", !.now = clock, !.todo = todo]
  OBVIOUS
<1>4. session' = [session EXCEPT ![v] = t] /\ held' = [held EXCEPT ![v] = @ \cup {<<"action", s.req>>}]
  BY <1>1, <1>2, <1>3 DEF ApproveClaim, Continue, Acquire
<1>5. session'[v] = t /\ held'[v] = {<<"action", s.req>>}
  BY <1>1, <1>4 DEF Inv, TypeOK
<1>6. t.pc = "locking1"
  BY <1>3 DEF SessionState
<1>7. \A x : <<"row", x>> \notin held'[v] /\ <<"dep", x>> \notin held'[v]
  BY <1>5
<1> QED
  BY <1>5, <1>6, <1>7 DEF OwnLocks

\* One more target row is locked, the smallest of those that are left.
LEMMA LockTargetLocks ==
    ASSUME Inv, NEW v \in Workers, OwnLocks(v), LockTarget(v)
    PROVE  OwnLocks(v)'
<1>1. PICK s \in SessionState : s = session[v] /\ s.pc \in {"locking1", "locking2"}
                                /\ s.todo \subseteq Records
  <2>1. session[v].pc \in {"locking1", "locking2"} /\ session[v] \in SessionState
    BY DEF LockTarget, Inv, TypeOK
  <2>2. session[v].req \in Requests /\ session[v].todo \subseteq action[session[v].req].targets
    BY <2>1 DEF Inv, LockProtocol, WorkerProtocol, Approving
  <2>3. action[session[v].req].targets \subseteq Records
    BY <2>2 DEF Inv, TypeOK, ActionRow
  <2> QED BY <2>1, <2>2, <2>3
<1>2. PICK x \in s.todo :
          /\ \A y \in s.todo : x <= y
          /\ held' = [held EXCEPT ![v] = @ \cup {<<"row", x>>}]
          /\ session' = [session EXCEPT ![v] = [s EXCEPT !.todo = s.todo \ {x}]]
  BY <1>1 DEF LockTarget, Acquire, Continue
<1>3. PICK t : t = [s EXCEPT !.todo = s.todo \ {x}]
  OBVIOUS
<1>4. session'[v] = t /\ held'[v] = held[v] \cup {<<"row", x>>}
  BY <1>2, <1>3 DEF Inv, TypeOK
<1>5. t.pc = s.pc /\ t.first = s.first /\ t.todo = s.todo \ {x}
  BY <1>3 DEF SessionState
<1>6. CASE s.pc = "locking1"
  <2>1. \A d \in Deps : <<"dep", d>> \notin held'[v]
    BY <1>1, <1>4, <1>6 DEF OwnLocks
  <2>2. \A a \in Records, y \in t.todo : <<"row", a>> \in held'[v] => a < y
    <3>1. \A a \in Records : <<"row", a>> \in held'[v] => <<"row", a>> \in held[v] \/ a = x
      BY <1>4
    <3>2. \A a \in Records, y \in s.todo : <<"row", a>> \in held[v] => a < y
      BY <1>1, <1>6 DEF OwnLocks
    <3>3. Records \subseteq Nat
      BY LifecycleAssumption
    <3>4. \A y \in s.todo \ {x} : x < y
      BY <1>1, <1>2, <3>3
    <3> QED BY <1>5, <3>1, <3>2, <3>4
  <2> QED BY <1>4, <1>5, <1>6, <2>1, <2>2 DEF OwnLocks
<1>7. CASE s.pc = "locking2"
  <2>1. \A a \in s.first : <<"row", a>> \in held[v] /\ <<"dep", DepOf[a]>> \in held[v]
    BY <1>1, <1>7 DEF OwnLocks
  <2>2. \A a \in t.first : <<"row", a>> \in held'[v] /\ <<"dep", DepOf[a]>> \in held'[v]
    BY <1>4, <1>5, <2>1
  <2> QED BY <1>4, <1>5, <1>7, <2>2 DEF OwnLocks
<1> QED
  BY <1>1, <1>6, <1>7

\* The first revalidation looks at rows that are locked, and no dependency is.
LEMMA FirstLocks ==
    ASSUME Inv, NEW v \in Workers, OwnLocks(v), FirstRevalidation(v)
    PROVE  OwnLocks(v)'
<1>1. PICK s \in SessionState : s = session[v] /\ s.pc = "locking1"
  BY DEF FirstRevalidation, Inv, TypeOK
<1>2. PICK first : first = ExecutableTargets(v)
  OBVIOUS
<1>3. \A x \in first : <<"row", x>> \in held[v]
  BY <1>2 DEF ExecutableTargets, Locked
<1>4. PICK todo : todo = {DepOf[x] : x \in first}
  OBVIOUS
<1>5. PICK t : t = [s EXCEPT !.pc = "locking_deps", !.first = first, !.todo = todo]
  OBVIOUS
<1>6. session' = [session EXCEPT ![v] = t] /\ held' = held
  BY <1>1, <1>2, <1>4, <1>5 DEF FirstRevalidation, Continue
<1>7. session'[v] = t
  BY <1>6 DEF Inv, TypeOK
<1>8. t.pc = "locking_deps" /\ t.first = first /\ t.todo = todo
  BY <1>5 DEF SessionState
<1>9. \A d \in Deps : <<"dep", d>> \notin held[v]
  BY <1>1 DEF OwnLocks
<1>10. \A x \in first : DepOf[x] \in todo
  BY <1>4
<1> QED
  BY <1>3, <1>6, <1>7, <1>8, <1>9, <1>10 DEF OwnLocks

\* One more dependency row is locked, the smallest of those that are left.
LEMMA LockDependencyLocks ==
    ASSUME Inv, NEW v \in Workers, OwnLocks(v), LockDependency(v)
    PROVE  OwnLocks(v)'
<1>1. PICK s \in SessionState : s = session[v] /\ s.pc = "locking_deps" /\ s.todo \subseteq Deps
  BY DEF LockDependency, Inv, TypeOK, LockProtocol, WorkerProtocol
<1>2. PICK x \in s.todo :
          /\ \A y \in s.todo : x <= y
          /\ held' = [held EXCEPT ![v] = @ \cup {<<"dep", x>>}]
          /\ session' = [session EXCEPT ![v] = [s EXCEPT !.todo = s.todo \ {x}]]
  BY <1>1 DEF LockDependency, Acquire, Continue
<1>3. PICK t : t = [s EXCEPT !.todo = s.todo \ {x}]
  OBVIOUS
<1>4. session'[v] = t /\ held'[v] = held[v] \cup {<<"dep", x>>}
  BY <1>2, <1>3 DEF Inv, TypeOK
<1>5. t.pc = s.pc /\ t.first = s.first /\ t.todo = s.todo \ {x}
  BY <1>3 DEF SessionState
<1>6. \A d \in Deps, e \in t.todo : <<"dep", d>> \in held'[v] => d < e
  <2>1. \A d \in Deps : <<"dep", d>> \in held'[v] => <<"dep", d>> \in held[v] \/ d = x
    BY <1>4
  <2>2. \A d \in Deps, e \in s.todo : <<"dep", d>> \in held[v] => d < e
    BY <1>1 DEF OwnLocks
  <2>3. Deps \subseteq Nat
    BY LifecycleAssumption
  <2>4. \A e \in s.todo \ {x} : x < e
    BY <1>1, <1>2, <2>3
  <2> QED BY <1>5, <2>1, <2>2, <2>4
<1>7. \A a \in t.first :
          /\ <<"row", a>> \in held'[v]
          /\ <<"dep", DepOf[a]>> \in held'[v] \/ DepOf[a] \in t.todo
  <2>1. \A a \in s.first :
            /\ <<"row", a>> \in held[v]
            /\ <<"dep", DepOf[a]>> \in held[v] \/ DepOf[a] \in s.todo
    BY <1>1 DEF OwnLocks
  <2> QED BY <1>4, <1>5, <2>1
<1> QED
  BY <1>1, <1>4, <1>5, <1>6, <1>7 DEF OwnLocks

\* Every dependency of the first revalidation is locked when the second begins.
LEMMA SecondLocks ==
    ASSUME Inv, NEW v \in Workers, OwnLocks(v), SecondRevalidation(v)
    PROVE  OwnLocks(v)'
<1>1. PICK s \in SessionState : s = session[v] /\ s.pc = "locking_deps" /\ s.todo = {}
  BY DEF SecondRevalidation, Inv, TypeOK
<1>2. PICK todo : todo = VisibleTargets(s.req, s.ctx) \ Locked(v)
  OBVIOUS
<1>3. PICK t : t = [s EXCEPT !.pc = "locking2", !.todo = todo]
  OBVIOUS
<1>4. session' = [session EXCEPT ![v] = t] /\ held' = held
  BY <1>1, <1>2, <1>3 DEF SecondRevalidation, Continue
<1>5. session'[v] = t
  BY <1>4 DEF Inv, TypeOK
<1>6. t.pc = "locking2" /\ t.first = s.first
  BY <1>3 DEF SessionState
<1>7. \A x \in s.first : <<"row", x>> \in held[v] /\ <<"dep", DepOf[x]>> \in held[v]
  BY <1>1 DEF OwnLocks
<1> QED
  BY <1>4, <1>5, <1>6, <1>7 DEF OwnLocks

\* The decision to execute is taken on locked rows with locked dependencies,
\* and allows for an override that any of them needs.
LEMMA DecideLocks ==
    ASSUME Inv, NEW v \in Workers, OwnLocks(v), DecideExecute(v)
    PROVE  OwnLocks(v)'
<1>1. PICK s \in SessionState : s = session[v] /\ s.pc = "locking2"
  BY DEF DecideExecute, Revalidated, Inv, TypeOK
<1>2. PICK final : final = ExecutableTargets(v)
  OBVIOUS
<1>3. PICK t : t = [s EXCEPT !.pc = "executing", !.final = final]
  OBVIOUS
<1>4. session' = [session EXCEPT ![v] = t] /\ held' = held /\ UNCHANGED <<row, dep>>
  BY <1>1, <1>2, <1>3 DEF DecideExecute, Continue, Unserved
<1>5. session'[v] = t
  BY <1>4 DEF Inv, TypeOK
<1>6. t.pc = "executing" /\ t.final = final /\ t.ctx = s.ctx /\ t.req = s.req
  BY <1>3 DEF SessionState
<1>7. final \subseteq s.first
  BY <1>1, <1>2 DEF DecideExecute, StableSet
<1>8. \A x \in final : <<"row", x>> \in held[v] /\ <<"dep", DepOf[x]>> \in held[v]
  BY <1>1, <1>7 DEF OwnLocks
<1>9. \A x \in final : Executable(s.ctx, x)
  BY <1>1, <1>2 DEF ExecutableTargets
<1>10. ASSUME NEW x \in final, NeedsOverride(s.req, x)
       PROVE  OVERRIDE \in s.ctx.permissions
  <2>1. PICK override : override = (\E y \in final : NeedsOverride(s.req, y))
    OBVIOUS
  <2>2. override
    BY <1>10, <2>1
  <2>3. PICK crosses : crosses = (\E y \in final : CrossScope(s.req, y))
    OBVIOUS
  <2>4. evaluate_action_approval(s.ctx, s.user = Owner[s.req], ScopeOf[s.req],
            Cardinality(final), crosses, override) = "approval_allowed"
    BY <1>1, <1>2, <2>1, <2>3 DEF DecideExecute, Allowed, CurrentDecision
  <2> QED BY <2>2, <2>4 DEF evaluate_action_approval
<1>11. \A x \in final : /\ Executable(s.ctx, x)'
                        /\ NeedsOverride(s.req, x)' => OVERRIDE \in s.ctx.permissions
  BY <1>4, <1>9, <1>10 DEF Executable, NeedsOverride, CrossScope
<1> QED
  BY <1>4, <1>5, <1>6, <1>8, <1>11 DEF OwnLocks

\* Every other step of a worker leaves it outside an approval.
LEMMA ElsewhereLocks ==
    ASSUME Inv, NEW v \in Workers,
           \/ EndTransaction(v) \/ RollBackToFailure(v) \/ Begin(v) \/ ExpiringUpdate(v)
    PROVE  OwnLocks(v)'
<1> SUFFICES session'[v].pc \notin Approving
  BY DEF OwnLocks, Approving
<1>1. TypeOK /\ session[v] \in SessionState
  BY DEF Inv, TypeOK
<1>2. CASE EndTransaction(v)
  BY <1>1, <1>2 DEF EndTransaction, Continue, Idle, TypeOK, Approving
<1>3. CASE RollBackToFailure(v)
  <2>1. session'[v] = [session[v] EXCEPT !.pc = "failed", !.todo = {}, !.first = {}, !.final = {}]
    BY <1>1, <1>3 DEF RollBackToFailure, Continue, TypeOK
  <2>2. session'[v].pc = "failed"
    BY <1>1, <2>1 DEF SessionState
  <2> QED BY <2>2 DEF Approving
<1>4. CASE Begin(v)
  <2>1. ASSUME NEW k, NEW u, NEW r, Start(v, Job(k, u, r))
        PROVE  session'[v].pc = "queued"
    BY <1>1, <2>1 DEF Start, Continue, Job, Idle, TypeOK
  <2>2. ASSUME NEW u, NEW rows,
               Start(v, [Idle EXCEPT !.pc = "expiring", !.kind = "list",
                                     !.user = u, !.ctx = access[u],
                                     !.now = clock, !.todo = rows])
        PROVE  session'[v].pc = "expiring"
    BY <1>1, <2>2 DEF Start, Continue, Idle, TypeOK
  <2> QED
    BY <1>4, <2>1, <2>2 DEF Begin, StartOwn, StartDecision, StartDetail,
                            StartList, Approving
<1>5. CASE ExpiringUpdate(v)
  <2>1. PICK r \in session[v].todo :
            session' = [session EXCEPT ![v] = [session[v] EXCEPT !.todo = @ \ {r}]]
    BY <1>5 DEF ExpiringUpdate, Continue
  <2>2. session'[v] = [session[v] EXCEPT !.todo = @ \ {r}]
    BY <1>1, <2>1 DEF TypeOK
  <2>3. session'[v].pc = session[v].pc
    BY <1>1, <2>2 DEF SessionState
  <2> QED BY <1>5, <2>3 DEF ExpiringUpdate, Approving
<1> QED
  BY <1>2, <1>3, <1>4, <1>5

\* A worker's own step keeps what its approval relies on.
LEMMA StepLocks ==
    ASSUME Inv, NEW v \in Workers, OwnLocks(v), StepOf(v)
    PROVE  OwnLocks(v)'
<1>1. CASE Begin(v) \/ Disturb(v)
  BY <1>1, ElsewhereLocks DEF Disturb, ExecutionError, DeadlockVictim, Crash, NoWrite
<1>2. CASE Serve(v)
  BY <1>2, ElsewhereLocks, ClaimLocks DEF Serve, SubmitAccept, SubmitAgain, OwnerExpire,
     CancelCommit, CancelRefused, DecisionRefused, DeciderExpire, DetailNoWrite,
     RejectCommit, NoWrite
<1>3. CASE Advance(v)
  BY <1>3, ElsewhereLocks, LockTargetLocks, FirstLocks, LockDependencyLocks, SecondLocks,
     DecideLocks DEF Advance, ExpiringCommit, DecideEscalate, DecideForbidden,
     DecideUnstable, Execute, PersistFailure, NoWrite
<1> QED
  BY <1>1, <1>2, <1>3 DEF StepOf

\* No step takes away what an approval under way relies on.
LEMMA LocksNext ==
    ASSUME Inv, LocksOK, [Next]_vars
    PROVE  LocksOK'
<1> SUFFICES ASSUME NEW w \in Workers PROVE OwnLocks(w)'
  BY DEF LocksOK
<1>1. OwnLocks(w)
  BY DEF LocksOK
<1>2. CASE UNCHANGED <<session, held, row, dep>>
  BY <1>1, <1>2, LocksFrame DEF Untouched
<1>3. CASE UNCHANGED vars \/ \E r \in Requests : CreatePreview(r)
  BY <1>2, <1>3 DEF vars, CreatePreview
<1>4. CASE Environment
  <2>1. CASE Tick \/ \E u \in Users : ChangeAccess(u)
    BY <1>2, <2>1 DEF Tick, ChangeAccess
  <2>2. ASSUME NEW x \in Records, WriteRow(x) PROVE OwnLocks(w)'
    <3>1. /\ <<"row", x>> \notin held[w] /\ UNCHANGED <<session, held, dep>>
          /\ \A y \in Records \ {x} : row'[y] = row[y]
      BY <2>2 DEF WriteRow, Free, Inv, TypeOK
    <3> QED BY <1>1, <3>1, LocksFrame DEF Untouched
  <2>3. ASSUME NEW d \in Deps, WriteDep(d) PROVE OwnLocks(w)'
    <3>1. /\ <<"dep", d>> \notin held[w] /\ UNCHANGED <<session, held, row>>
          /\ \A e \in Deps \ {d} : dep'[e] = dep[e]
      BY <2>3 DEF WriteDep, Free, Inv, TypeOK
    <3> QED BY <1>1, <3>1, LocksFrame DEF Untouched
  <2> QED BY <1>4, <2>1, <2>2, <2>3 DEF Environment
<1>5. ASSUME NEW v \in Workers, StepOf(v), v # w PROVE OwnLocks(w)'
  <2>1. session'[w] = session[w] /\ held'[w] = held[w]
    BY <1>5, WorkerFrame DEF Inv
  <2> QED BY <1>1, <1>5, <2>1, LockedStays, LocksFrame
<1>6. CASE StepOf(w)
  BY <1>1, <1>6, StepLocks
<1> QED
  BY <1>3, <1>4, <1>5, <1>6 DEF Next, StepOf

\* What an approval relies on holds in every reachable state.
THEOREM LocksHold == Spec => []LocksOK
<1>1. Init => LocksOK
  <2> SUFFICES ASSUME Init, NEW w \in Workers PROVE OwnLocks(w)
    BY DEF LocksOK
  <2>1. session[w] = Idle /\ Idle.pc = "idle"
    BY DEF Init, Idle
  <2> QED BY <2>1 DEF OwnLocks
<1>2. Inv /\ LocksOK /\ [Next]_vars => LocksOK'
  BY LocksNext
<1> QED
  BY <1>1, <1>2, InvHolds, PTL DEF Spec

-----------------------------------------------------------------------------
(* What is executed                                                        *)

\* Only an execution adds to what a request has changed.
LEMMA OnlyExecute ==
    ASSUME Inv, [Next]_vars, NEW r \in Requests, executed'[r] # executed[r]
    PROVE  \E v \in Workers : Execute(v) /\ session[v].req = r
<1>1. executed' # executed
  OBVIOUS
<1>2. ~ (UNCHANGED vars) /\ ~ Environment /\ ~ \E q \in Requests : CreatePreview(q)
  BY <1>1 DEF vars, Environment, Tick, ChangeAccess, WriteRow, WriteDep, CreatePreview
<1>3. PICK v \in Workers : StepOf(v)
  BY <1>2 DEF Next, StepOf
<1>4. ~ Begin(v)
  BY <1>1 DEF Begin, StartOwn, StartDecision, StartDetail, StartList, Start
<1>5. ~ Disturb(v)
  BY <1>1 DEF Disturb, ExecutionError, DeadlockVictim, Crash, NoWrite,
              RollBackToFailure, Unserved
<1>6. ~ Serve(v)
  BY <1>1 DEF Serve, SubmitAccept, SubmitAgain, OwnerExpire, CancelCommit,
     CancelRefused, DecisionRefused, DeciderExpire, DetailNoWrite, RejectCommit,
     ApproveClaim, NoWrite, Unserved
<1>7. Execute(v)
  BY <1>1, <1>3, <1>4, <1>5, <1>6 DEF StepOf, Advance, ExpiringUpdate, ExpiringCommit,
     LockTarget, FirstRevalidation, LockDependency, SecondRevalidation, DecideExecute,
     DecideEscalate, DecideForbidden, DecideUnstable, PersistFailure, NoWrite,
     RollBackToFailure, Unserved
<1>8. executed' = [executed EXCEPT ![session[v].req] = @ \cup session[v].final]
  BY <1>7 DEF Execute
<1>9. session[v].req = r
  BY <1>8 DEF Inv, TypeOK
<1> QED
  BY <1>7, <1>9

\* The instant a request executes, every row it changes is active, eligible and
\* visible to the recorded decider, who holds the override permission if any of
\* them needs it then; and each becomes done in that very step.
THEOREM ExecutesWhatWasRevalidated == Spec => ExecutionAuthorized
<1> DEFINE Authorized == \A r \in Requests : executed'[r] # executed[r] =>
              \A x \in executed'[r] \ executed[r] :
                  /\ Executable(approval'[r].with, x)
                  /\ row'[x].status = "done"
                  /\ NeedsOverride(r, x) => OVERRIDE \in approval'[r].with.permissions
<1>1. Inv /\ LocksOK /\ [Next]_vars => [Authorized]_vars
  <2> SUFFICES ASSUME Inv, LocksOK, [Next]_vars, NEW r \in Requests,
                      executed'[r] # executed[r], NEW x \in executed'[r] \ executed[r]
               PROVE  /\ Executable(approval'[r].with, x)
                      /\ row'[x].status = "done"
                      /\ NeedsOverride(r, x) => OVERRIDE \in approval'[r].with.permissions
    OBVIOUS
  <2>1. PICK v \in Workers : Execute(v) /\ session[v].req = r
    BY OnlyExecute
  <2>2. PICK s \in SessionState : s = session[v] /\ s.pc = "executing" /\ s.req = r
    BY <2>1 DEF Execute, Inv, TypeOK
  <2>3. executed'[r] = executed[r] \cup s.final
    BY <2>1, <2>2 DEF Execute, Inv, TypeOK
  <2>4. x \in s.final /\ x \in Records
    BY <2>3 DEF SessionState
  <2>5. Executable(s.ctx, x) /\ (NeedsOverride(r, x) => OVERRIDE \in s.ctx.permissions)
    BY <2>2, <2>4 DEF LocksOK, OwnLocks
  <2>6. approval'[r].with = s.ctx
    <3>1. Pending(r) /\ Settle(r, "completed", "approved", s.user, s.ctx, s.now)
      BY <2>1, <2>2 DEF Execute
    <3>2. "completed" \in ActionRequestStatus /\ "approved" \in ApprovalStatus
      BY DEF ActionRequestStatus, ApprovalStatus
    <3> QED BY <3>1, <3>2, SettleEffect DEF Pending, Inv
  <2>7. row'[x].status = "done"
    <3>1. row'[x] = [row[x] EXCEPT !.status = "done"] /\ row[x] \in RowContent
      BY <2>1, <2>2, <2>4 DEF Execute, Inv, TypeOK
    <3> QED BY <3>1 DEF RowContent
  <2> QED BY <2>5, <2>6, <2>7
<1> QED
  BY <1>1, InvHolds, LocksHold, PTL DEF Spec, ExecutionAuthorized

-----------------------------------------------------------------------------
(* Approvals do not deadlock among themselves.                             *)

\* A set of naturals with an element has a least one.
LEMMA LeastNatural ==
    ASSUME NEW T, T \subseteq Nat, T # {}
    PROVE  \E x \in T : \A y \in T : ~ (y < x)
<1>1. PICK x \in T : \A y \in T : ~ (<<y, x>> \in OpToRel(<, Nat))
  BY NatLessThanWellFounded, WFMin
<1>2. \A y \in T : ~ (y < x)
  BY <1>1 DEF OpToRel
<1> QED
  BY <1>2

\* What an approval that waits for a target row or a dependency row waits for
LEMMA WantsWhat ==
    ASSUME Inv, NEW v \in Workers, NEW q \in Wants(v),
           session[v].pc \in {"locking1", "locking_deps"}
    PROVE  /\ session[v].pc = "locking1" =>
                 \E x \in session[v].todo : x \in Records /\ q = <<"row", x>>
           /\ session[v].pc = "locking_deps" =>
                 \E d \in session[v].todo : d \in Deps /\ q = <<"dep", d>>
<1>1. CASE session[v].pc = "locking1"
  <2>1. session[v].req \in Requests /\ session[v].todo \subseteq action[session[v].req].targets
    BY <1>1 DEF Inv, LockProtocol, WorkerProtocol, Approving
  <2>2. session[v].todo \subseteq Records
    BY <2>1 DEF Inv, TypeOK, ActionRow
  <2>3. \E x \in session[v].todo : q = <<"row", x>>
    BY <1>1 DEF Wants
  <2> QED BY <1>1, <2>2, <2>3
<1>2. CASE session[v].pc = "locking_deps"
  <2>1. session[v].todo \subseteq Deps
    BY <1>2 DEF Inv, LockProtocol, WorkerProtocol
  <2>2. \E d \in session[v].todo : q = <<"dep", d>>
    BY <1>2 DEF Wants
  <2> QED BY <1>2, <2>1, <2>2
<1> QED
  BY <1>1, <1>2

\* Approvals lock target rows before dependency rows and both in ascending
\* order, so among any number of workers a circle of waits goes through a
\* sweep of list_pending or a second revalidation that found new rows in view.
THEOREM ApprovalsLockInOrder == Spec => []ApprovalsNeverDeadlock
<1>1. Inv /\ LocksOK => ApprovalsNeverDeadlock
  <2> SUFFICES ASSUME Inv, LocksOK, NEW S \in SUBSET Workers, S # {}, WaitCycle(S),
                      \A w \in S : session[w].pc \notin {"expiring", "locking2"}
               PROVE  FALSE
    BY DEF ApprovalsNeverDeadlock
  <2>1. \A v \in S : \E u \in S : \E q : q \in Wants(u) /\ q \in held[v]
    BY DEF WaitCycle, WaitsFor
  <2>2. \A v \in S : \E q : q \in Wants(v)
    BY DEF WaitCycle, WaitsFor
  <2>3. ASSUME NEW v \in S PROVE session[v].pc \in {"locking1", "locking_deps"}
    <3>1. held[v] # {} /\ v \in Workers /\ WorkerProtocol(v)
      BY <2>1 DEF Inv, LockProtocol
    <3>2. session[v].pc \notin {"idle", "queued", "failed"}
      BY <3>1 DEF WorkerProtocol
    <3>3. session[v].pc \in PC
      BY <3>1, SessionFields DEF Inv
    <3>4. session[v].pc # "executing"
      BY <2>2 DEF Wants
    <3> QED BY <3>2, <3>3, <3>4 DEF PC
  <2>4. ASSUME NEW v \in S, session[v].pc = "locking1" PROVE FALSE
    <3> DEFINE T == {x \in Records : \E u \in S : session[u].pc = "locking1" /\ <<"row", x>> \in Wants(u)}
    <3>1. T \subseteq Nat
      BY LifecycleAssumption
    <3>2. T # {}
      BY <2>2, <2>4, WantsWhat
    <3>3. PICK x \in T : \A y \in T : ~ (y < x)
      <4> HIDE DEF T
      <4> QED BY <3>1, <3>2, LeastNatural
    <3>4. PICK w \in S : session[w].pc = "locking1" /\ <<"row", x>> \in Wants(w)
      BY <3>3
    <3>5. PICK u \in S : Wants(u) \cap held[w] # {}
      BY <2>1
    <3>6. PICK q : q \in Wants(u) /\ q \in held[w]
      BY <3>5
    <3>7. session[u].pc # "locking_deps"
      <4> SUFFICES ASSUME session[u].pc = "locking_deps" PROVE FALSE
        OBVIOUS
      <4>1. PICK d \in Deps : q = <<"dep", d>>
        BY <3>5, <3>6, WantsWhat
      <4> QED BY <3>4, <3>5, <3>6, <4>1 DEF LocksOK, OwnLocks
    <3>8. PICK y \in Records : q = <<"row", y>> /\ y \in T
      BY <2>3, <3>5, <3>6, <3>7, WantsWhat
    <3>9. x \in session[w].todo
      BY <3>4, WantsWhat
    <3>10. y < x
      BY <3>4, <3>5, <3>6, <3>8, <3>9 DEF LocksOK, OwnLocks
    <3> QED BY <3>3, <3>8, <3>10
  <2>5. \A v \in S : session[v].pc = "locking_deps"
    BY <2>3, <2>4
  <2> DEFINE T == {d \in Deps : \E u \in S : <<"dep", d>> \in Wants(u)}
  <2>6. T \subseteq Nat
    BY LifecycleAssumption
  <2>7. T # {}
    BY <2>2, <2>5, WantsWhat
  <2>8. PICK x \in T : \A y \in T : ~ (y < x)
    <3> HIDE DEF T
    <3> QED BY <2>6, <2>7, LeastNatural
  <2>9. PICK w \in S : <<"dep", x>> \in Wants(w)
    BY <2>8
  <2>10. PICK u \in S : Wants(u) \cap held[w] # {}
    BY <2>1
  <2>11. PICK q : q \in Wants(u) /\ q \in held[w]
    BY <2>10
  <2>12. PICK y \in Deps : q = <<"dep", y>> /\ y \in T
    BY <2>5, <2>10, <2>11, WantsWhat
  <2>13. x \in session[w].todo
    BY <2>5, <2>9, WantsWhat
  <2>14. y < x
    BY <2>5, <2>10, <2>11, <2>12, <2>13 DEF LocksOK, OwnLocks
  <2> QED BY <2>8, <2>12, <2>14
<1> QED
  BY <1>1, InvHolds, LocksHold, PTL

-----------------------------------------------------------------------------
(* The audit trail                                                         *)

\* A request moves and its trail says so: the event of its creation, of its
\* submission, of its first escalation, or of its outcome.
TrailMove(q) ==
    \/ Kept(q) /\ audit'[q] = audit[q]
    \/ Created(q) /\ audit'[q] = audit[q] \o <<"action_preview_created">>
    \/ Accepted(q) /\ audit'[q] = audit[q] \o <<"action_requested">>
    \/ /\ Escalated(q) /\ action[q].revOverride = FALSE
       /\ audit'[q] = audit[q] \o <<"action_approval_escalated">>
    \/ /\ Withdrawn(q) \/ Decided(q)
       /\ audit'[q] = audit[q] \o Outcome(action'[q].status)

\* An audit row belongs to one request.
LEMMA LogEffect ==
    ASSUME TypeOK, NEW r \in Requests, NEW events, Log(r, events), NEW q \in Requests
    PROVE  audit'[q] = IF q = r THEN audit[r] \o events ELSE audit[q]
BY DEF Log, TypeOK

\* A handler that closes a request records how.
LEMMA ClosedTrail ==
    ASSUME Inv, NEW v \in Workers, StepOf(v), NEW r \in Requests,
           action[r].status \in {"draft_preview", "pending_approval"},
           NEW status \in TerminalStatus, action'[r].status = status,
           NEW events, events = Outcome(status), audit'[r] = audit[r] \o events
    PROVE  TrailMove(r)
<1>1. Kept(r) \/ Changed(r)
  BY WorkerEffect DEF Inv
<1>2. ~ Kept(r) /\ ~ Accepted(r) /\ ~ Escalated(r)
  BY DEF Kept, Accepted, Escalated, TerminalStatus
<1> QED
  BY <1>1, <1>2 DEF Changed, TrailMove

\* The outcomes and their events
LEMMA Outcomes ==
    /\ Outcome("completed") = <<"action_approved", "action_executed">>
    /\ Outcome("rejected") = <<"action_rejected">>
    /\ Outcome("failed") = <<"action_failed">>
    /\ Outcome("cancelled") = <<"action_cancelled">>
    /\ Outcome("expired") = <<"action_expired">>
    /\ \A s \in {"none", "draft_preview", "pending_approval"} : Outcome(s) = <<>>
BY DEF Outcome

\* A decision writes both rows and one audit row of the same request.
LEMMA SettledTrail ==
    ASSUME Inv, NEW v \in Workers, StepOf(v), NEW r \in Requests,
           action[r].status \in {"draft_preview", "pending_approval"},
           NEW status \in TerminalStatus, NEW decision \in ApprovalStatus,
           NEW by, NEW ctx, NEW now, Settle(r, status, decision, by, ctx, now),
           NEW events, events = Outcome(status), Log(r, events)
    PROVE  TrailMove(r)
<1>1. status \in ActionRequestStatus
  BY DEF TerminalStatus, ActionRequestStatus
<1>2. action'[r].status = status
  BY <1>1, SettleEffect DEF Inv
<1>3. audit'[r] = audit[r] \o events
  BY LogEffect DEF Inv
<1> QED
  BY <1>2, <1>3, ClosedTrail

\* The commits of submit, cancel and reject, and the expiries on the way
LEMMA ServeTrail ==
    ASSUME Inv, NEW v \in Workers, Serve(v), NEW r \in Requests, r = session[v].req
    PROVE  TrailMove(r)
<1>1. StepOf(v)
  BY DEF StepOf
<1>2. CASE SubmitAccept(v)
  <2>1. audit'[r] = audit[r] \o <<"action_requested">>
    BY <1>2, LogEffect DEF SubmitAccept, Inv
  <2>2. action[r].status = "draft_preview"
    BY <1>2 DEF SubmitAccept
  <2>3. action'[r].status = "pending_approval"
    <3>1. action[r] \in ActionRow
      BY DEF Inv, TypeOK
    <3>2. action'[r] = [action[r] EXCEPT !.status = "pending_approval",
                            !.deadline = clock + PENDING_APPROVAL_LIFETIME]
      BY <1>2 DEF SubmitAccept, Inv, TypeOK
    <3> QED BY <3>1, <3>2 DEF ActionRow
  <2>4. Kept(r) \/ Changed(r)
    BY <1>1, WorkerEffect DEF Inv
  <2>5. Accepted(r)
    BY <2>2, <2>3, <2>4 DEF Kept, Changed, Escalated, Withdrawn, Decided, Pending
  <2> QED BY <2>1, <2>5 DEF TrailMove
<1>3. CASE \/ SubmitAgain(v) \/ CancelRefused(v) \/ DecisionRefused(v)
           \/ DetailNoWrite(v) \/ ApproveClaim(v)
  BY <1>3 DEF SubmitAgain, CancelRefused, DecisionRefused, DetailNoWrite,
              ApproveClaim, NoWrite, Unserved, Kept, TrailMove
<1>4. "expired" \in TerminalStatus /\ "expired" \in ApprovalStatus
      /\ "cancelled" \in TerminalStatus /\ "cancelled" \in ApprovalStatus
      /\ "rejected" \in TerminalStatus /\ "rejected" \in ApprovalStatus
  BY DEF TerminalStatus, ApprovalStatus
<1>5. ASSUME NEW now, Expire(r, now), action[r].status \in {"draft_preview", "pending_approval"}
      PROVE  TrailMove(r)
  <2>1. Settle(r, "expired", "expired", NoUser, NoApproval.with, now) /\ Log(r, <<"action_expired">>)
    BY <1>5 DEF Expire
  <2> QED BY <1>1, <1>4, <1>5, <2>1, SettledTrail, Outcomes
<1>6. CASE OwnerExpire(v)
  BY <1>5, <1>6 DEF OwnerExpire
<1>7. CASE DeciderExpire(v)
  BY <1>5, <1>7 DEF DeciderExpire, Pending
<1>8. CASE CancelCommit(v)
  <2>1. /\ Settle(r, "cancelled", "cancelled", NoUser, NoApproval.with, clock)
        /\ Log(r, <<"action_cancelled">>) /\ action[r].status = "pending_approval"
    BY <1>8 DEF CancelCommit, Pending
  <2> QED BY <1>1, <1>4, <2>1, SettledTrail, Outcomes
<1>9. CASE RejectCommit(v)
  <2>1. /\ Settle(r, "rejected", "rejected", session[v].user, session[v].ctx, clock)
        /\ Log(r, <<"action_rejected">>) /\ action[r].status = "pending_approval"
    BY <1>9 DEF RejectCommit, Pending
  <2> QED BY <1>1, <1>4, <2>1, SettledTrail, Outcomes
<1> QED
  BY <1>2, <1>3, <1>6, <1>7, <1>8, <1>9 DEF Serve

\* A decision is escalated only for an approver without the permission.
LEMMA RefusedForOverride ==
    ASSUME NEW ctx, NEW self, NEW scope, NEW count, NEW crosses, NEW override,
           evaluate_action_approval(ctx, self, scope, count, crosses, override)
               = "override_permission_required"
    PROVE  OVERRIDE \notin ctx.permissions
BY DEF evaluate_action_approval

\* Nobody escalates a request that is escalated already: whoever claimed it had
\* the override permission, and the revalidation then asks for none.
LEMMA EscalateTrail ==
    ASSUME Inv, ClaimedWithOverride, NEW v \in Workers, DecideEscalate(v),
           NEW r \in Requests, r = session[v].req
    PROVE  TrailMove(r)
<1>1. session[v].pc \in Approving
  BY DEF DecideEscalate, Revalidated, Approving
<1>2. OVERRIDE \notin session[v].ctx.permissions
  <2>1. CurrentDecision(v) = "override_permission_required"
    BY Zenon DEF DecideEscalate
  <2>2. PICK self : self = (session[v].user = Owner[session[v].req])
    OBVIOUS
  <2>3. PICK crosses : crosses = (\E x \in ExecutableTargets(v) : CrossScope(session[v].req, x))
    OBVIOUS
  <2>4. PICK override : override = (\E x \in ExecutableTargets(v) : NeedsOverride(session[v].req, x))
    OBVIOUS
  <2>5. evaluate_action_approval(session[v].ctx, self, ScopeOf[session[v].req],
            Cardinality(ExecutableTargets(v)), crosses, override) = "override_permission_required"
    BY <2>1, <2>2, <2>3, <2>4, Zenon DEF CurrentDecision
  <2> QED BY <2>5, RefusedForOverride
<1>3. action[r].revOverride = FALSE
  <2>1. action[r].revOverride \in BOOLEAN
    BY DEF Inv, TypeOK, ActionRow
  <2>2. action[r].revOverride # TRUE
    BY <1>1, <1>2 DEF ClaimedWithOverride, Flagged
  <2> QED BY <2>1, <2>2
<1>4. audit'[r] = audit[r] \o <<"action_approval_escalated">>
  BY LogEffect DEF DecideEscalate, Inv
<1>5. Pending(r)
  BY <1>1 DEF Inv, LockProtocol, WorkerProtocol
<1>6. action'[r].revOverride = TRUE /\ action'[r].status = action[r].status
  <2>1. PICK crosses \in BOOLEAN :
            action' = [action EXCEPT ![r] =
                          [action[r] EXCEPT !.revOverride = TRUE, !.revCrosses = crosses]]
    BY Zenon DEF DecideEscalate
  <2>2. action[r] \in ActionRow
    BY DEF Inv, TypeOK
  <2>3. action'[r] = [action[r] EXCEPT !.revOverride = TRUE, !.revCrosses = crosses]
    BY <2>1 DEF Inv, TypeOK
  <2> QED BY <2>2, <2>3 DEF ActionRow
<1>7. Kept(r) \/ Changed(r)
  BY WorkerEffect DEF Inv, StepOf, Advance
<1>8. Escalated(r)
  BY <1>3, <1>5, <1>6, <1>7 DEF Kept, Changed, Accepted, Withdrawn, Decided, SameRequest, Pending
<1> QED
  BY <1>3, <1>4, <1>8 DEF TrailMove

\* The steps of an approval, its execution and its failure record
LEMMA AdvanceTrail ==
    ASSUME Inv, ClaimedWithOverride, NEW v \in Workers, Advance(v), ~ ExpiringCommit(v),
           NEW r \in Requests, r = session[v].req
    PROVE  TrailMove(r)
<1>1. StepOf(v)
  BY DEF StepOf
<1>2. CASE UNCHANGED <<action, approval, executed, audit>>
  BY <1>2 DEF Kept, TrailMove
<1>3. "completed" \in TerminalStatus /\ "failed" \in TerminalStatus /\ "approved" \in ApprovalStatus
  BY DEF TerminalStatus, ApprovalStatus
<1>4. CASE Execute(v)
  <2>1. /\ Settle(r, "completed", "approved", session[v].user, session[v].ctx, session[v].now)
        /\ Log(r, <<"action_approved", "action_executed">>)
        /\ action[r].status = "pending_approval"
    BY <1>4 DEF Execute, Pending
  <2> QED BY <1>1, <1>3, <2>1, SettledTrail, Outcomes
<1>5. CASE PersistFailure(v)
  <2>1. CASE Pending(r)
    <3>1. /\ Settle(r, "failed", "approved", session[v].user, session[v].ctx, session[v].now)
          /\ Log(r, <<"action_failed">>) /\ action[r].status = "pending_approval"
      BY <1>5, <2>1 DEF PersistFailure, Pending
    <3> QED BY <1>1, <1>3, <3>1, SettledTrail, Outcomes
  <2>2. CASE ~ Pending(r)
    BY <1>2, <1>5, <2>2 DEF PersistFailure, Unserved
  <2> QED BY <2>1, <2>2
<1> QED
  BY <1>2, <1>4, <1>5, EscalateTrail DEF Advance, ExpiringUpdate, LockTarget,
     FirstRevalidation, LockDependency, SecondRevalidation, DecideExecute,
     DecideForbidden, DecideUnstable, NoWrite, RollBackToFailure, Unserved

\* The sweep of list_pending records an expiry for every row it holds.
LEMMA SweepTrail ==
    ASSUME Inv, NEW v \in Workers, ExpiringCommit(v), NEW q \in Requests
    PROVE  TrailMove(q)
<1>1. CASE <<"action", q>> \notin held[v]
  BY <1>1 DEF ExpiringCommit, Unserved, Kept, TrailMove
<1>2. CASE <<"action", q>> \in held[v]
  <2>1. StepOf(v) /\ "expired" \in TerminalStatus
    BY DEF StepOf, Advance, TerminalStatus
  <2>2. action[q].status = "pending_approval"
    BY <1>2 DEF Inv, LockProtocol, WorkerProtocol, ExpiringCommit, Pending
  <2>3. action'[q].status = "expired"
    <3>1. action[q] \in ActionRow
      BY DEF Inv, TypeOK
    <3>2. action'[q] = [action[q] EXCEPT !.status = "expired"]
      BY <1>2 DEF ExpiringCommit
    <3> QED BY <3>1, <3>2 DEF ActionRow
  <2>4. audit'[q] = audit[q] \o <<"action_expired">>
    <3>1. audit[q] \in Seq(Event) /\ "action_expired" \in Event
      BY DEF Inv, TypeOK, Event
    <3>2. audit'[q] = Append(audit[q], "action_expired")
      BY <1>2 DEF ExpiringCommit
    <3> QED BY <3>1, <3>2, AppendIsConcat
  <2> QED BY <2>1, <2>2, <2>3, <2>4, ClosedTrail, Outcomes
<1> QED
  BY <1>1, <1>2

\* A handler writes the trail of its own request only.
LEMMA OneTrail ==
    ASSUME Inv, NEW v \in Workers, StepOf(v), ~ ExpiringCommit(v),
           NEW q \in Requests, q # session[v].req
    PROVE  audit'[q] = audit[q]
<1> DEFINE r == session[v].req
<1>1. TypeOK
  BY DEF Inv
<1>2. CASE audit' = audit
  BY <1>2
<1>3. ASSUME NEW events, Log(r, events) PROVE audit'[q] = audit[q]
  BY <1>1, <1>3 DEF Log, TypeOK
<1>4. CASE Begin(v)
  BY <1>2, <1>4 DEF Begin, StartOwn, StartDecision, StartDetail, StartList, Start
<1>5. CASE Disturb(v)
  BY <1>2, <1>5 DEF Disturb, ExecutionError, DeadlockVictim, Crash, NoWrite,
                    RollBackToFailure, Unserved
<1>6. CASE Serve(v)
  BY <1>2, <1>3, <1>6 DEF Serve, SubmitAccept, OwnerExpire, CancelCommit,
     DeciderExpire, RejectCommit, Expire, SubmitAgain, CancelRefused,
     DecisionRefused, DetailNoWrite, ApproveClaim, NoWrite, Unserved
<1>7. CASE DecideEscalate(v) \/ Execute(v) \/ PersistFailure(v)
  BY <1>2, <1>3, <1>7 DEF DecideEscalate, Execute, PersistFailure
<1>8. CASE Advance(v)
  BY <1>2, <1>7, <1>8 DEF Advance, ExpiringUpdate, LockTarget,
     FirstRevalidation, LockDependency, SecondRevalidation, DecideExecute,
     DecideForbidden, DecideUnstable, NoWrite, RollBackToFailure, Unserved
<1> QED
  BY <1>4, <1>5, <1>6, <1>8 DEF StepOf

\* Whatever the step, every request moves as its trail says.
LEMMA StepTrail ==
    ASSUME Inv, ClaimedWithOverride, [Next]_vars, NEW q \in Requests
    PROVE  TrailMove(q)
<1>1. CASE UNCHANGED vars
  BY <1>1 DEF vars, Kept, TrailMove
<1>2. ASSUME NEW r \in Requests, CreatePreview(r) PROVE TrailMove(q)
  <2>1. q # r => Kept(q)
    BY <1>2 DEF CreatePreview, Kept, Inv, TypeOK
  <2>2. Created(r)
    BY <1>2 DEF CreatePreview, Created, Inv, TypeOK
  <2>3. Log(r, <<"action_preview_created">>)
    BY <1>2 DEF CreatePreview
  <2>4. audit'[q] = IF q = r THEN audit[r] \o <<"action_preview_created">> ELSE audit[q]
    BY <2>3, LogEffect DEF Inv
  <2> QED BY <2>1, <2>2, <2>4 DEF TrailMove
<1>3. ASSUME NEW v \in Workers, StepOf(v) PROVE TrailMove(q)
  <2>1. CASE ExpiringCommit(v)
    BY <2>1, SweepTrail
  <2>2. CASE ~ ExpiringCommit(v) /\ q # session[v].req
    BY <1>3, <2>2, OneRequest, OneTrail DEF TrailMove
  <2>3. CASE ~ ExpiringCommit(v) /\ q = session[v].req
    <3>1. CASE Begin(v)
      BY <3>1 DEF Begin, StartOwn, StartDecision, StartDetail, StartList, Start,
                  Kept, TrailMove
    <3>2. CASE Disturb(v)
      BY <3>2 DEF Disturb, ExecutionError, DeadlockVictim, Crash, NoWrite,
                  RollBackToFailure, Unserved, Kept, TrailMove
    <3> QED BY <1>3, <2>3, <3>1, <3>2, ServeTrail, AdvanceTrail DEF StepOf
  <2> QED BY <2>1, <2>2, <2>3
<1>4. CASE Environment
  BY <1>4 DEF Environment, Tick, ChangeAccess, WriteRow, WriteDep, Kept, TrailMove
<1> QED
  BY <1>1, <1>2, <1>3, <1>4 DEF Next, StepOf

\* The trail of one request, part by part
TrailOf(a, p) ==
    (IF a.status = "none" THEN <<>> ELSE <<"action_preview_created">>)
    \o (IF p.status = "none" THEN <<>> ELSE <<"action_requested">>)
    \o (IF a.revOverride THEN <<"action_approval_escalated">> ELSE <<>>)
    \o Outcome(a.status)

\* A move extends the trail by what it adds to the request's history.
LEMMA TrailGrows ==
    ASSUME Inv, EscalatedAfterSubmission, NEW r \in Requests, TrailMove(r),
           audit[r] = TrailOf(action[r], approval[r])
    PROVE  audit'[r] = TrailOf(action'[r], approval'[r])
<1>1. PICK a \in ActionRow, p \in ApprovalRow : a = action[r] /\ p = approval[r]
  BY DEF Inv, TypeOK
<1>2. PICK b, o : b = action'[r] /\ o = approval'[r]
  OBVIOUS
<1>3. /\ <<a.status, p.status>> \in
            {<<"none", "none">>, <<"draft_preview", "none">>,
             <<"pending_approval", "pending">>, <<"completed", "approved">>,
             <<"failed", "approved">>, <<"rejected", "rejected">>,
             <<"cancelled", "cancelled">>, <<"expired", "expired">>,
             <<"expired", "none">>}
      /\ a.revOverride = TRUE => a.status \notin {"none", "draft_preview"}
      /\ a.revOverride \in BOOLEAN
  BY <1>1 DEF Inv, PairConsistent, EscalatedAfterSubmission, ActionRow
<1> DEFINE C == <<"action_preview_created">>
           R == <<"action_requested">>
           E == <<"action_approval_escalated">>
<1>4. C \in Seq(Event) /\ R \in Seq(Event) /\ E \in Seq(Event) /\ <<>> \in Seq(Event)
  BY DEF Event
<1>5. \A s \in Seq(Event) : s \o <<>> = s /\ <<>> \o s = s
  BY ConcatEmptySeq
<1>6. \A s, t \in Seq(Event) : s \o t \in Seq(Event)
  BY ConcatProperties
<1>7. CASE Kept(r) /\ audit'[r] = audit[r]
  BY <1>7 DEF Kept
<1>8. CASE Created(r) /\ audit'[r] = audit[r] \o C
  <2>1. TrailOf(a, p) = <<>>
    BY <1>1, <1>3, <1>4, <1>5, <1>8, Outcomes DEF Created, TrailOf
  <2>2. TrailOf(b, o) = C
    BY <1>1, <1>2, <1>3, <1>4, <1>5, <1>8, Outcomes DEF Created, TrailOf
  <2> QED BY <1>1, <1>2, <1>4, <1>5, <1>8, <2>1, <2>2
<1>9. CASE Accepted(r) /\ audit'[r] = audit[r] \o R
  <2>1. TrailOf(a, p) = C
    BY <1>1, <1>3, <1>4, <1>5, <1>9, Outcomes DEF Accepted, TrailOf
  <2>2. TrailOf(b, o) = C \o R
    BY SMTT(30), <1>1, <1>2, <1>3, <1>4, <1>5, <1>6, <1>9, Outcomes DEF Accepted, TrailOf
  <2> QED BY <1>1, <1>2, <1>9, <2>1, <2>2
<1>10. CASE Escalated(r) /\ action[r].revOverride = FALSE /\ audit'[r] = audit[r] \o E
  <2>1. TrailOf(a, p) = C \o R
    BY <1>1, <1>3, <1>4, <1>5, <1>6, <1>10, Outcomes DEF Escalated, TrailOf, Pending
  <2>2. TrailOf(b, o) = (C \o R) \o E
    BY SMTT(30), <1>1, <1>2, <1>3, <1>4, <1>5, <1>6, <1>10, Outcomes DEF Escalated, TrailOf, Pending
  <2> QED BY <1>1, <1>2, <1>10, <2>1, <2>2
<1>11. CASE Withdrawn(r) /\ audit'[r] = audit[r] \o Outcome(b.status)
  <2>1. TrailOf(a, p) = C
    BY <1>1, <1>3, <1>4, <1>5, <1>11, Outcomes DEF Withdrawn, TrailOf
  <2>2. TrailOf(b, o) = C \o Outcome(b.status)
    BY <1>1, <1>2, <1>3, <1>4, <1>5, <1>11, Outcomes DEF Withdrawn, TrailOf, SameRequest
  <2> QED BY <1>1, <1>2, <1>11, <2>1, <2>2
<1>12. CASE Decided(r) /\ audit'[r] = audit[r] \o Outcome(b.status)
  <2>1. /\ a.status = "pending_approval" /\ p.status = "pending"
        /\ b.status # "none" /\ o.status # "none" /\ b.revOverride = a.revOverride
    BY <1>1, <1>2, <1>12 DEF Decided, Pending, SameRequest
  <2>2. PICK t : t = (C \o R) \o (IF a.revOverride THEN E ELSE <<>>)
    OBVIOUS
  <2>3. t \in Seq(Event)
    BY <1>3, <1>4, <1>6, <2>2
  <2>4. TrailOf(a, p) = t
    BY <1>3, <1>5, <2>1, <2>2, <2>3, Outcomes DEF TrailOf
  <2>5. TrailOf(b, o) = t \o Outcome(b.status)
    BY <1>3, <2>1, <2>2 DEF TrailOf
  <2> QED BY <1>1, <1>2, <1>12, <2>4, <2>5
<1> QED
  BY <1>2, <1>7, <1>8, <1>9, <1>10, <1>11, <1>12 DEF TrailMove

\* The audit trail of every request is exactly its history, however often
\* submit is retried, however many approvers trip over the same override, and
\* whichever of the racing outcomes wins.
THEOREM TrailIsHistory == Spec => []TrailMatchesStatus
<1>1. TrailMatchesStatus <=> \A r \in Requests : audit[r] = TrailOf(action[r], approval[r])
  BY Zenon DEF TrailMatchesStatus, TrailOf
<1>2. TrailMatchesStatus' <=> \A r \in Requests : audit'[r] = TrailOf(action'[r], approval'[r])
  BY Zenon DEF TrailMatchesStatus, TrailOf
<1>3. Init => ClaimedWithOverride /\ EscalatedAfterSubmission
  BY DEF Init, ClaimedWithOverride, EscalatedAfterSubmission, Idle, Approving, NoAction
<1>4. Init => TrailMatchesStatus
  <2> SUFFICES ASSUME Init, NEW r \in Requests
               PROVE  audit[r] = TrailOf(action[r], approval[r])
    BY <1>1
  <2>1. /\ action[r].status = "none" /\ approval[r].status = "none"
        /\ action[r].revOverride = FALSE /\ audit[r] = <<>>
    BY DEF Init, NoAction, NoApproval
  <2>2. <<>> \o <<>> = <<>>
    BY ConcatEmptySeq
  <2> QED BY <2>1, <2>2, Outcomes DEF TrailOf
<1>5. Inv /\ ClaimedWithOverride /\ [Next]_vars => ClaimedWithOverride'
  BY ClaimNext
<1>6. Inv /\ EscalatedAfterSubmission /\ [Next]_vars => EscalatedAfterSubmission'
  BY EscalatedNext
<1>7. Inv /\ ClaimedWithOverride /\ EscalatedAfterSubmission /\ TrailMatchesStatus
          /\ [Next]_vars => TrailMatchesStatus'
  BY <1>1, <1>2, StepTrail, TrailGrows
<1> QED
  BY <1>3, <1>4, <1>5, <1>6, <1>7, InvHolds, PTL DEF Spec
=============================================================================
