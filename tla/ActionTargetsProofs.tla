------------------------- MODULE ActionTargetsProofs -------------------------
(***************************************************************************)
(* Machine-checked proofs about ActionTargets, for every directory, every  *)
(* set of payloads and contexts, and every threshold.                      *)
(***************************************************************************)
EXTENDS ActionTargets, FiniteSetTheorems, TLAPS

-----------------------------------------------------------------------------
(* The directory                                                           *)

\* The directory keeps the shape of its tables, and time is a time.
DirectoryInv == Directory(db) /\ clock \in Nat

\* A write to a user's row leaves a directory.
LEMMA WriteUserKeeps ==
    ASSUME NEW d, Directory(d), NEW u \in DOMAIN d.users, NEW new \in UserRow
    PROVE  Directory([d EXCEPT !.users = [d.users EXCEPT ![u] = new]])
BY DEF Directory

\* So does a write to an assignment's row.
LEMMA WriteAssignmentKeeps ==
    ASSUME NEW d, Directory(d), NEW a \in DOMAIN d.assignments, NEW new, AssignmentRow(new)
    PROVE  Directory([d EXCEPT !.assignments = [d.assignments EXCEPT ![a] = new]])
BY DEF Directory

\* Reclaiming leaves a directory,
LEMMA ReclaimKeeps ==
    ASSUME NEW d, Directory(d), NEW ids PROVE Directory(execute_reclaim(d, ids))
<1>1. ASSUME NEW a \in DOMAIN d.assignments
      PROVE  AssignmentRow([d.assignments[a] EXCEPT !.status = "reclaimed"])
  BY DEF Directory, AssignmentRow, AssignmentStatus
<1> QED
  BY <1>1 DEF Directory, execute_reclaim

\* and so does disabling.
LEMMA DisableKeeps ==
    ASSUME NEW d, Directory(d), NEW ids PROVE Directory(execute_disable(d, ids))
<1>1. ASSUME NEW u \in DOMAIN d.users
      PROVE  [d.users[u] EXCEPT !.status = "disabled"] \in UserRow
  BY DEF Directory, UserRow
<1> QED
  BY <1>1 DEF Directory, execute_disable

\* The other writers write rows of the tables.
LEMMA ChangeUserKeeps ==
    ASSUME DirectoryInv, NEW u \in DOMAIN db.users, ChangeUser(u)
    PROVE  Directory(db')
<1>1. PICK user \in UserRow : user = db.users[u]
  BY DEF DirectoryInv, Directory
<1>2. \A new : db' = [db EXCEPT !.users = [db.users EXCEPT ![u] = new]] /\ new \in UserRow
          => Directory(db')
  BY WriteUserKeeps DEF DirectoryInv
<1>3. clock \in Time
  BY DEF DirectoryInv, Time
<1>4. \A dept \in Departments : /\ [user EXCEPT !.dept = dept] \in UserRow
                                /\ [user EXCEPT !.event = [at |-> clock, dept |-> dept]] \in UserRow
                                /\ [user EXCEPT !.group = [privileged |-> TRUE, dept |-> dept]] \in UserRow
  BY <1>3 DEF UserRow
<1>5. \A dept \in Departments \cup {NoDepartment} :
          [user EXCEPT !.alert = [open |-> TRUE, dept |-> dept]] \in UserRow
  BY DEF UserRow
<1>6. \A type \in {"human", "service"} : [user EXCEPT !.type = type] \in UserRow
  BY DEF UserRow
<1>7. \A s \in {"active", "disabled", "locked"} : [user EXCEPT !.status = s] \in UserRow
  BY DEF UserRow
<1> QED
  BY <1>1, <1>2, <1>4, <1>5, <1>6, <1>7 DEF ChangeUser

\* and so do they for assignments.
LEMMA ChangeAssignmentKeeps ==
    ASSUME DirectoryInv, NEW a \in DOMAIN db.assignments, ChangeAssignment(a)
    PROVE  Directory(db')
<1>1. PICK row : row = db.assignments[a] /\ AssignmentRow(row)
  BY DEF DirectoryInv, Directory
<1>2. \A new : db' = [db EXCEPT !.assignments = [db.assignments EXCEPT ![a] = new]]
                  /\ AssignmentRow(new) => Directory(db')
  BY WriteAssignmentKeeps DEF DirectoryInv
<1>3. AssignmentRow([row EXCEPT !.last = clock])
  BY <1>1 DEF DirectoryInv, AssignmentRow, Time
<1>4. \A s \in AssignmentStatus : AssignmentRow([row EXCEPT !.status = s])
  BY <1>1 DEF AssignmentRow
<1>5. \A b \in BOOLEAN : /\ AssignmentRow([row EXCEPT !.mandatory = b])
                         /\ AssignmentRow([row EXCEPT !.exception = b])
  BY <1>1 DEF AssignmentRow
<1>6. \A dept \in Departments : AssignmentRow([row EXCEPT !.dept = dept])
  BY <1>1 DEF AssignmentRow
<1>7. \A cost \in {-1, 1} : AssignmentRow([row EXCEPT !.cost = cost])
  BY <1>1 DEF AssignmentRow
<1> QED
  BY <1>1, <1>2, <1>3, <1>4, <1>5, <1>6, <1>7 DEF ChangeAssignment

\* Every step leaves a directory behind.
LEMMA DirectoryNext ==
    ASSUME DirectoryInv, [Next]_vars PROVE DirectoryInv'
<1>1. CASE UNCHANGED <<db, clock>>
  BY <1>1 DEF DirectoryInv, Directory
<1>2. ASSUME NEW ctx \in RequesterContexts, NEW payload \in Payloads, CreatePreview(ctx, payload)
      PROVE  DirectoryInv'
  BY <1>1, <1>2 DEF CreatePreview
<1>3. ASSUME NEW ctx \in ApproverContexts, NEW self \in BOOLEAN, ApproveExecute(ctx, self)
      PROVE  DirectoryInv'
  <2>1. \E ids : db' = execute_reclaim(db, ids) \/ db' = execute_disable(db, ids)
    BY <1>3 DEF ApproveExecute
  <2>2. clock' = clock
    BY <1>3 DEF ApproveExecute
  <2> QED BY <2>1, <2>2, ReclaimKeeps, DisableKeeps DEF DirectoryInv
<1>4. ASSUME NEW u \in DOMAIN db.users, ChangeUser(u) PROVE DirectoryInv'
  BY <1>4, ChangeUserKeeps DEF DirectoryInv, ChangeUser
<1>5. ASSUME NEW a \in DOMAIN db.assignments, ChangeAssignment(a) PROVE DirectoryInv'
  BY <1>5, ChangeAssignmentKeeps DEF DirectoryInv, ChangeAssignment
<1>6. CASE Tick
  BY <1>6 DEF Tick, DirectoryInv
<1> QED
  BY <1>1, <1>2, <1>3, <1>4, <1>5, <1>6 DEF Next, vars, Submit, ApproveEscalate

-----------------------------------------------------------------------------
(* The stored request                                                      *)

SnapshotFields ==
    {"status", "type", "scope", "eligible", "overrides", "detail", "skipped",
     "exclusions", "summary", "target_scopes", "access", "record_count",
     "skipped_count", "flags", "policy_requires_admin", "requires_admin",
     "crosses_scopes", "requires_policy_override", "revalidation_flags",
     "revalidation_requires_admin", "revalidation_requires_policy_override",
     "revalidation_crosses_scopes", "decided_by", "payload", "requester"}

\* The codes of the handlers' classification
OverrideCode ==
    {"cross_scope_target", "service_account_assignment", "mandatory_assignment",
     "exception_assignment", "privileged_user", "open_critical_security_event"}

\* What build_preview puts in a request: its targets are of one kind or the
\* other, each override has its codes, before its completion a skip is not
\* about a target, and a user is a target only where the payload names it.
Snapshot(r) ==
    /\ DOMAIN r = SnapshotFields
    /\ r.type \in {RECLAIM, DISABLE}
    /\ IsFiniteSet(r.eligible) /\ IsFiniteSet(DOMAIN r.overrides)
    /\ r.eligible \cap DOMAIN r.overrides = {}
    /\ \A x \in DOMAIN r.overrides : r.overrides[x] \in (SUBSET OverrideCode) \ {{}}
    /\ IsFiniteSet(r.skipped)
    /\ r.status # "completed" =>
          \A s \in r.skipped :
              s.type = RecordType(r.type) => s.id \notin _persisted_target_ids(r)
    /\ r.type = DISABLE => _persisted_target_ids(r) \subseteq r.payload.users

\* The fields of a new preview, from the handler's verdicts
LEMMA PreviewFields ==
    ASSUME NEW d, NEW ctx, NEW payload, NEW now,
           NEW r, r = Preview(d, ctx, payload, now),
           NEW verdict, verdict = build_preview(d, ctx, payload, now)
    PROVE  /\ DOMAIN r = SnapshotFields
           /\ r.status = "draft_preview" /\ r.type = payload.type /\ r.scope = payload.scope
           /\ r.eligible = {x \in DOMAIN verdict : verdict[x].kind = "eligible"}
           /\ r.overrides = [x \in {x \in DOMAIN verdict : verdict[x].kind = "override"} |->
                                verdict[x].codes]
           /\ r.skipped = {[type |-> RecordType(payload.type), id |-> x,
                            reason |-> verdict[x].reason] :
                               x \in {x \in DOMAIN verdict : verdict[x].kind = "skipped"}}
                          \cup missing_records(d, ctx, payload, DOMAIN verdict)
           /\ r.payload = payload /\ r.requester = ctx
BY DEF Preview, SnapshotFields

\* A verdict is a skip, or an actionable record whose override codes say which.
GoodVerdict(v) ==
    \/ v.kind = "skipped"
    \/ v.kind = "eligible" /\ v.codes = {}
    \/ v.kind = "override" /\ v.codes \in (SUBSET OverrideCode) \ {{}}

\* What is made of finitely many things is finite.
LEMMA FiniteImage ==
    ASSUME NEW S, IsFiniteSet(S), NEW f PROVE IsFiniteSet({f[x] : x \in S})
<1> DEFINE T == {f[x] : x \in S}
           g == [x \in S |-> f[x]]
<1>1. g \in Surjection(S, T)
  BY DEF Surjection
<1> HIDE DEF T, g
<1>2. IsFiniteSet(T)
  BY <1>1, FS_Surjection
<1> QED
  BY <1>2 DEF T

\* A skip is a good verdict, and so is a judgment by the handlers' codes.
LEMMA JudgedVerdicts ==
    /\ \A reason : GoodVerdict(Skip(reason))
    /\ \A codes \in SUBSET OverrideCode : GoodVerdict(Judged(codes))
<1>1. \A reason : GoodVerdict(Skip(reason))
  BY DEF GoodVerdict, Skip
<1>2. ASSUME NEW codes \in SUBSET OverrideCode PROVE GoodVerdict(Judged(codes))
  <2>1. CASE codes = {}
    BY <2>1 DEF GoodVerdict, Judged
  <2>2. CASE codes # {}
    <3>1. Judged(codes).kind = "override" /\ Judged(codes).codes = codes
      BY <2>2 DEF Judged
    <3>2. codes \in (SUBSET OverrideCode) \ {{}}
      BY <2>2
    <3> QED BY <3>1, <3>2 DEF GoodVerdict
  <2> QED BY <2>1, <2>2
<1> QED
  BY <1>1, <1>2

\* What build_preview reads and how it judges it
LEMMA Verdicts ==
    ASSUME NEW d, Directory(d), NEW ctx, NEW payload \in Payloads, NEW now,
           NEW verdict, verdict = build_preview(d, ctx, payload, now)
    PROVE  /\ IsFiniteSet(DOMAIN verdict)
           /\ \A x \in DOMAIN verdict : GoodVerdict(verdict[x])
           /\ payload.type = DISABLE => DOMAIN verdict \subseteq payload.users
<1>1. payload.type \in {RECLAIM, DISABLE} /\ RECLAIM # DISABLE
  BY DirectoryAssumption DEF RECLAIM, DISABLE
<1>2. CASE payload.type = RECLAIM
  <2>1. verdict = reclaim_preview(d, ctx, payload, now)
    BY <1>2 DEF build_preview
  <2>2. DOMAIN verdict \subseteq DOMAIN d.assignments
    BY <2>1 DEF reclaim_preview, read_reclaim_candidates
  <2>3. IsFiniteSet(DOMAIN verdict)
    BY <2>2, FS_Subset DEF Directory
  <2>4. ASSUME NEW x \in DOMAIN verdict PROVE GoodVerdict(verdict[x])
    <3>1. verdict[x] = classify_assignment(d, ctx, payload, x, now)
      BY <2>1 DEF reclaim_preview
    <3>2. PICK codes : codes = {c \in {"cross_scope_target"} : _is_cross_scope(d.assignments[x].dept, payload.scope)}
                \cup {c \in {"service_account_assignment"} :
                        d.users[d.assignments[x].user].type = "service"}
                \cup {c \in {"mandatory_assignment"} : d.assignments[x].mandatory}
                \cup {c \in {"exception_assignment"} : d.assignments[x].exception}
      OBVIOUS
    <3>3. codes \in SUBSET OverrideCode
      BY <3>2 DEF OverrideCode
    <3>4. verdict[x] = Judged(codes) \/ \E reason : verdict[x] = Skip(reason)
      BY <3>1, <3>2 DEF classify_assignment
    <3> QED BY <3>3, <3>4, JudgedVerdicts
  <2> QED BY <1>1, <1>2, <2>3, <2>4
<1>3. CASE payload.type = DISABLE
  <2>1. verdict = disable_preview(d, ctx, payload, now)
    BY <1>1, <1>3 DEF build_preview
  <2>2. DOMAIN verdict \subseteq DOMAIN d.users \cap payload.users
    BY <2>1 DEF disable_preview, disable_rows
  <2>3. IsFiniteSet(DOMAIN verdict)
    BY <2>2, FS_Subset DEF Directory
  <2>4. ASSUME NEW x \in DOMAIN verdict PROVE GoodVerdict(verdict[x])
    <3>1. verdict[x] = classify_user(d, ctx, payload, x, now)
      BY <2>1 DEF disable_preview
    <3>2. PICK row : row = disable_candidate(d, ctx, "query", x)
      OBVIOUS
    <3>3. disable_codes(row, payload.scope) \in SUBSET OverrideCode
      BY DEF OverrideCode, disable_codes
    <3>4. verdict[x] = Judged(disable_codes(row, payload.scope)) \/ \E reason : verdict[x] = Skip(reason)
      BY <3>1, <3>2 DEF classify_user
    <3> QED BY <3>3, <3>4, JudgedVerdicts
  <2> QED BY <1>3, <2>2, <2>3, <2>4
<1> QED
  BY <1>1, <1>2, <1>3

\* A record that was not found is not one of those found, and there are
\* finitely many.
LEMMA MissingRecords ==
    ASSUME NEW d, NEW ctx, NEW payload \in Payloads, NEW rows
    PROVE  /\ IsFiniteSet(missing_records(d, ctx, payload, rows))
           /\ \A s \in missing_records(d, ctx, payload, rows) :
                 s.type = RecordType(payload.type) => s.id \notin rows
<1>1. payload.type \in {RECLAIM, DISABLE} /\ RECLAIM # DISABLE
      /\ IsFiniteSet(payload.users) /\ IsFiniteSet(payload.assignments)
  BY DirectoryAssumption DEF RECLAIM, DISABLE
<1>2. PICK missing : missing = missing_selectors(d, ctx, payload, rows)
  OBVIOUS
<1>3. /\ DOMAIN missing = {"directory_user", "license_assignment"}
      /\ missing["directory_user"] \subseteq payload.users
      /\ missing["license_assignment"] \subseteq payload.assignments
      /\ missing[RecordType(payload.type)] \cap rows = {}
  BY <1>1, <1>2 DEF missing_selectors, RecordType
<1>4. IsFiniteSet(missing["directory_user"]) /\ IsFiniteSet(missing["license_assignment"])
  BY <1>1, <1>3, FS_Subset
<1> DEFINE Records(t) == {[type |-> t, id |-> x, reason |-> "record_not_found_or_not_authorized"] :
                             x \in missing[t]}
<1>5. missing_records(d, ctx, payload, rows) = UNION {Records(t) : t \in DOMAIN missing}
  BY <1>2 DEF missing_records
<1>6. missing_records(d, ctx, payload, rows) = Records("directory_user") \cup Records("license_assignment")
  BY <1>3, <1>5
<1>7. IsFiniteSet(Records("directory_user")) /\ IsFiniteSet(Records("license_assignment"))
  <2>1. ASSUME NEW t, IsFiniteSet(missing[t]) PROVE IsFiniteSet(Records(t))
    <3>1. PICK f : f = [x \in missing[t] |-> [type |-> t, id |-> x,
                            reason |-> "record_not_found_or_not_authorized"]]
      OBVIOUS
    <3>2. IsFiniteSet({f[x] : x \in missing[t]})
      BY <2>1, FiniteImage
    <3>3. Records(t) = {f[x] : x \in missing[t]}
      BY <3>1
    <3> QED BY <3>2, <3>3
  <2> QED BY <1>4, <2>1
<1>8. IsFiniteSet(missing_records(d, ctx, payload, rows))
  <2> HIDE DEF Records
  <2> QED BY <1>6, <1>7, FS_Union
<1>9. ASSUME NEW s \in missing_records(d, ctx, payload, rows), s.type = RecordType(payload.type)
      PROVE  s.id \notin rows
  BY <1>3, <1>6, <1>9
<1> QED
  BY <1>8, <1>9

\* Every new preview is a snapshot.
LEMMA PreviewSnapshot ==
    ASSUME NEW d, Directory(d), NEW ctx, NEW payload \in Payloads, NEW now,
           NEW r, r = Preview(d, ctx, payload, now)
    PROVE  Snapshot(r)
<1>1. PICK verdict : verdict = build_preview(d, ctx, payload, now)
  OBVIOUS
<1>2. PICK missing : missing = missing_records(d, ctx, payload, DOMAIN verdict)
  OBVIOUS
<1>3. /\ IsFiniteSet(DOMAIN verdict)
      /\ \A x \in DOMAIN verdict : GoodVerdict(verdict[x])
      /\ payload.type = DISABLE => DOMAIN verdict \subseteq payload.users
  BY <1>1, Verdicts
<1>4. /\ IsFiniteSet(missing)
      /\ \A s \in missing : s.type = RecordType(payload.type) => s.id \notin DOMAIN verdict
  BY <1>2, MissingRecords
<1>5. /\ DOMAIN r = SnapshotFields /\ r.type = payload.type /\ r.payload = payload
      /\ r.eligible = {x \in DOMAIN verdict : verdict[x].kind = "eligible"}
      /\ r.overrides = [x \in {x \in DOMAIN verdict : verdict[x].kind = "override"} |->
                                verdict[x].codes]
      /\ r.skipped = {[type |-> RecordType(payload.type), id |-> x,
                            reason |-> verdict[x].reason] :
                               x \in {x \in DOMAIN verdict : verdict[x].kind = "skipped"}}
                     \cup missing
  BY <1>1, <1>2, PreviewFields
<1>6. /\ IsFiniteSet(r.eligible) /\ IsFiniteSet(DOMAIN r.overrides)
      /\ IsFiniteSet({x \in DOMAIN verdict : verdict[x].kind = "skipped"})
  BY <1>3, <1>5, FS_Subset
<1>7. IsFiniteSet(r.skipped)
  <2>1. PICK S : S = {x \in DOMAIN verdict : verdict[x].kind = "skipped"}
    OBVIOUS
  <2>2. PICK f : f = [x \in S |-> [type |-> RecordType(payload.type), id |-> x,
                                   reason |-> verdict[x].reason]]
    OBVIOUS
  <2>3. PICK T : T = {f[x] : x \in S}
    OBVIOUS
  <2>4. IsFiniteSet(T)
    BY <1>6, <2>1, <2>3, FiniteImage
  <2>5. r.skipped = T \cup missing
    BY <1>5, <2>1, <2>2, <2>3
  <2> QED BY <1>4, <2>4, <2>5, FS_Union
<1>8. r.eligible \cap DOMAIN r.overrides = {}
  BY <1>5
<1>9. \A x \in DOMAIN r.overrides : r.overrides[x] \in (SUBSET OverrideCode) \ {{}}
  BY <1>3, <1>5 DEF GoodVerdict
<1>10. \A s \in r.skipped : s.type = RecordType(r.type) => s.id \notin _persisted_target_ids(r)
  BY <1>4, <1>5 DEF _persisted_target_ids
<1>11. r.type = DISABLE => _persisted_target_ids(r) \subseteq r.payload.users
  BY <1>3, <1>5 DEF _persisted_target_ids
<1>12. r.type \in {RECLAIM, DISABLE}
  BY <1>5, DirectoryAssumption
<1> QED
  BY <1>5, <1>6, <1>7, <1>8, <1>9, <1>10, <1>11, <1>12 DEF Snapshot

\* A request that is stored carries a snapshot, and one whose revalidation was
\* escalated carries the codes it was escalated for.
RevalidationCode ==
    {"mandatory_license", "exception_assignment", "service_account", "cross_scope",
     "cross_scope_target", "privileged_user", "open_critical_security_event"}

EscalationKept(r) ==
    /\ r.revalidation_requires_policy_override \in BOOLEAN
    /\ r.revalidation_requires_policy_override =>
          r.revalidation_flags \in (SUBSET RevalidationCode) \ {{}}

RequestInv ==
    /\ request.status \in {"none", "ACTION_PREVIEW_FAILED", "draft_preview",
                           "pending_approval", "completed"}
    /\ Stored => Snapshot(request) /\ EscalationKept(request)

\* A new preview has not been escalated.
LEMMA PreviewNotEscalated ==
    ASSUME NEW d, NEW ctx, NEW payload, NEW now, NEW r, r = Preview(d, ctx, payload, now)
    PROVE  EscalationKept(r)
BY DEF Preview, EscalationKept

\* What an escalation and a completion leave alone
LEMMA EscalatedFields ==
    ASSUME NEW r, DOMAIN r = SnapshotFields, NEW rv, NEW new, new = Escalated(r, rv)
    PROVE  /\ DOMAIN new = SnapshotFields
           /\ new.revalidation_flags = RvCodes(rv)
           /\ \A f \in SnapshotFields \ {"revalidation_flags", "revalidation_requires_admin",
                    "revalidation_requires_policy_override", "revalidation_crosses_scopes",
                    "requires_admin"} : new[f] = r[f]
BY DEF Escalated, SnapshotFields

\* The flags it raises
LEMMA EscalatedFlags ==
    ASSUME NEW r, DOMAIN r = SnapshotFields, NEW rv, NEW new, new = Escalated(r, rv)
    PROVE  /\ new.revalidation_requires_policy_override \in BOOLEAN
           /\ new.revalidation_requires_policy_override
           /\ new.revalidation_requires_admin \in BOOLEAN /\ new.revalidation_requires_admin
           /\ new.requires_admin \in BOOLEAN /\ new.requires_admin
BY DEF Escalated, SnapshotFields

\* The skips a revalidation adds
CurrentSkips(r, rv) ==
    {[type |-> RecordType(r.type), id |-> x, reason |-> rv[x].reason] :
        x \in DOMAIN rv \ Executable(rv)}

\* A completion changes the status, the decision and the skips, and nothing else.
LEMMA CompletedFields ==
    ASSUME NEW r, DOMAIN r = SnapshotFields, NEW rv, NEW ctx, NEW new, new = Completed(r, rv, ctx)
    PROVE  /\ DOMAIN new = SnapshotFields
           /\ new.status = "completed" /\ new.decided_by = ctx.permissions
           /\ new.skipped = r.skipped \cup CurrentSkips(r, rv)
           /\ new.skipped_count = Cardinality(r.skipped) + Cardinality(CurrentSkips(r, rv))
           /\ new.exclusions = Exclusions(new.skipped, r.overrides)
           /\ \A f \in SnapshotFields \ {"status", "skipped", "skipped_count", "exclusions",
                    "summary", "decided_by"} : new[f] = r[f]
BY DEF Completed, CurrentSkips, SnapshotFields

\* Revalidation judges exactly the persisted targets.
LEMMA Revalidations ==
    ASSUME NEW d, NEW ctx, NEW r, NEW now, NEW rv, rv = revalidate(d, ctx, r, now)
    PROVE  /\ DOMAIN rv = _persisted_target_ids(r)
           /\ \A x \in DOMAIN rv :
                 \/ rv[x].kind = "skipped" /\ rv[x].codes = {}
                 \/ rv[x].kind # "skipped" /\ rv[x].codes \in SUBSET RevalidationCode
<1>1. DOMAIN rv = _persisted_target_ids(r)
  BY DEF revalidate
<1>2. \A reason : Skip(reason).kind = "skipped" /\ Skip(reason).codes = {}
  BY DEF Skip
<1>3. \A codes \in SUBSET RevalidationCode :
          Judged(codes).kind # "skipped" /\ Judged(codes).codes \in SUBSET RevalidationCode
  BY DEF Judged
<1>4. ASSUME NEW x \in DOMAIN rv
      PROVE  \/ \E reason : rv[x] = Skip(reason)
             \/ \E codes \in SUBSET RevalidationCode : rv[x] = Judged(codes)
  <2>1. CASE r.type = RECLAIM
    <3>1. PICK row : row = d.assignments[x]
      OBVIOUS
    <3>2. PICK codes : codes = {c \in {"mandatory_license"} : row.mandatory}
                \cup {c \in {"exception_assignment"} : row.exception}
                \cup {c \in {"service_account"} : d.users[row.user].type = "service"}
                \cup {c \in {"cross_scope"} : _is_cross_scope(row.dept, r.scope)}
      OBVIOUS
    <3>3. codes \in SUBSET RevalidationCode
      BY <3>2 DEF RevalidationCode
    <3>4. rv[x] = revalidate_assignment(d, ctx, r, x, now)
      BY <1>1, <2>1 DEF revalidate
    <3>5. rv[x] = Judged(codes) \/ \E reason : rv[x] = Skip(reason)
      BY <3>1, <3>2, <3>4 DEF revalidate_assignment
    <3> QED BY <3>3, <3>5
  <2>2. CASE r.type # RECLAIM
    <3>1. rv[x] = revalidate_user(d, ctx, r, x, now)
      BY <1>1, <2>2 DEF revalidate
    <3>2. PICK row : row = disable_candidate(d, ctx, "action", x)
      OBVIOUS
    <3>3. disable_codes(row, r.scope) \in SUBSET RevalidationCode
      BY DEF disable_codes, RevalidationCode
    <3>4. rv[x] = Judged(disable_codes(row, r.scope)) \/ \E reason : rv[x] = Skip(reason)
      BY <3>1, <3>2 DEF revalidate_user
    <3> QED BY <3>3, <3>4
  <2> QED BY <2>1, <2>2
<1> QED
  BY <1>1, <1>2, <1>3, <1>4

\* The decision on what was found, with the flags as values
LEMMA DecisionOnFound ==
    ASSUME NEW ctx, NEW self, NEW rv
    PROVE  /\ CurrentDecision(ctx, self, rv) = "override_permission_required" => RvCodes(rv) # {}
           /\ Allowed(CurrentDecision(ctx, self, rv)) /\ RvCodes(rv) # {}
                => OVERRIDE \in ctx.permissions
<1>1. PICK crosses : crosses = RvCrosses(rv)
  OBVIOUS
<1>2. PICK count : count = Cardinality(Executable(rv))
  OBVIOUS
<1>3. CASE RvCodes(rv) # {}
  <2>1. CurrentDecision(ctx, self, rv) =
            evaluate_action_approval(ctx, self, request.scope, count, crosses, TRUE)
    BY <1>1, <1>2, <1>3 DEF CurrentDecision
  <2> QED BY <1>3, <2>1 DEF evaluate_action_approval, Allowed
<1>4. CASE RvCodes(rv) = {}
  <2>1. CurrentDecision(ctx, self, rv) =
            evaluate_action_approval(ctx, self, request.scope, count, crosses, FALSE)
    BY <1>1, <1>2, <1>4 DEF CurrentDecision
  <2> QED BY <1>4, <2>1 DEF evaluate_action_approval
<1> QED
  BY <1>3, <1>4

\* An escalation keeps the snapshot and adds codes that explain it.
LEMMA EscalateRequest ==
    ASSUME RequestInv, NEW ctx, NEW self, ApproveEscalate(ctx, self)
    PROVE  RequestInv'
<1>1. PICK rv : /\ rv = revalidate(db, ctx, request, clock)
                /\ CurrentDecision(ctx, self, rv) = "override_permission_required"
                /\ request' = Escalated(request, rv)
  BY DEF ApproveEscalate
<1>2. PICK r : r = request /\ Snapshot(r) /\ r.status = "pending_approval"
  BY DEF ApproveEscalate, Approving, RequestInv, Stored
<1>3. PICK new : new = request'
  OBVIOUS
<1>4. /\ DOMAIN new = SnapshotFields
      /\ new.revalidation_flags = RvCodes(rv)
      /\ new.revalidation_requires_policy_override \in BOOLEAN
      /\ \A f \in SnapshotFields \ {"revalidation_flags", "revalidation_requires_admin",
                "revalidation_requires_policy_override", "revalidation_crosses_scopes",
                "requires_admin"} : new[f] = r[f]
  <2>1. DOMAIN r = SnapshotFields /\ new = Escalated(r, rv)
    BY <1>1, <1>2, <1>3 DEF Snapshot
  <2> QED BY <2>1, EscalatedFields, EscalatedFlags
<1>5. /\ new.status = r.status /\ new.type = r.type /\ new.eligible = r.eligible
      /\ new.overrides = r.overrides /\ new.skipped = r.skipped /\ new.payload = r.payload
  BY <1>4 DEF SnapshotFields
<1>6. Snapshot(new)
  BY <1>2, <1>4, <1>5 DEF Snapshot, _persisted_target_ids
<1>7. RvCodes(rv) \in (SUBSET RevalidationCode) \ {{}}
  <2>1. RvCodes(rv) # {}
    BY <1>1, DecisionOnFound
  <2>2. \A x \in DOMAIN rv : rv[x].codes \in SUBSET RevalidationCode
    BY <1>1, Revalidations
  <2> QED BY <2>1, <2>2 DEF RvCodes
<1> QED
  BY <1>2, <1>3, <1>4, <1>5, <1>6, <1>7 DEF RequestInv, EscalationKept, Stored

\* It adds finitely many skips.
LEMMA FiniteSkips ==
    ASSUME NEW r, Snapshot(r), NEW d, NEW ctx, NEW now, NEW rv, rv = revalidate(d, ctx, r, now)
    PROVE  IsFiniteSet(CurrentSkips(r, rv))
<1>1. PICK S : S = DOMAIN rv \ Executable(rv)
  OBVIOUS
<1>2. IsFiniteSet(S)
  <2>1. IsFiniteSet(_persisted_target_ids(r))
    BY FS_Union DEF Snapshot, _persisted_target_ids
  <2>2. S \subseteq _persisted_target_ids(r)
    BY <1>1, Revalidations
  <2> QED BY <2>1, <2>2, FS_Subset
<1>3. PICK f : f = [x \in S |-> [type |-> RecordType(r.type), id |-> x, reason |-> rv[x].reason]]
  OBVIOUS
<1>4. CurrentSkips(r, rv) = {f[x] : x \in S}
  BY <1>1, <1>3 DEF CurrentSkips
<1> QED
  BY <1>2, <1>4, FiniteImage

\* A completion keeps the snapshot, with more skips.
LEMMA CompleteRequest ==
    ASSUME RequestInv, NEW ctx, NEW self, ApproveExecute(ctx, self)
    PROVE  RequestInv'
<1>1. PICK rv : rv = revalidate(db, ctx, request, clock) /\ request' = Completed(request, rv, ctx)
  BY DEF ApproveExecute
<1>2. PICK r : r = request /\ Snapshot(r) /\ EscalationKept(r)
  BY DEF ApproveExecute, Approving, RequestInv, Stored
<1>3. PICK new : new = request'
  OBVIOUS
<1>4. /\ DOMAIN new = SnapshotFields /\ new.status = "completed"
      /\ new.skipped = r.skipped \cup CurrentSkips(r, rv)
      /\ \A f \in SnapshotFields \ {"status", "skipped", "skipped_count", "exclusions",
                    "summary", "decided_by"} : new[f] = r[f]
  BY <1>1, <1>2, <1>3, CompletedFields DEF Snapshot
<1>5. /\ new.type = r.type /\ new.eligible = r.eligible
      /\ new.overrides = r.overrides /\ new.payload = r.payload
      /\ new.revalidation_requires_policy_override = r.revalidation_requires_policy_override
      /\ new.revalidation_flags = r.revalidation_flags
  BY <1>4 DEF SnapshotFields
<1>6. IsFiniteSet(CurrentSkips(r, rv))
  BY <1>1, <1>2, FiniteSkips
<1>7. IsFiniteSet(new.skipped)
  <2>1. IsFiniteSet(r.skipped)
    BY <1>2 DEF Snapshot
  <2> QED BY ZenonT(60), <1>4, <1>6, <2>1, FS_Union
<1>8. Snapshot(new) /\ EscalationKept(new)
  BY <1>2, <1>4, <1>5, <1>7 DEF Snapshot, _persisted_target_ids, EscalationKept
<1> QED
  BY <1>3, <1>4, <1>8 DEF RequestInv, Stored

\* Every step keeps RequestInv.
LEMMA RequestNext ==
    ASSUME DirectoryInv, RequestInv, [Next]_vars PROVE RequestInv'
<1>1. CASE UNCHANGED request
  BY <1>1 DEF RequestInv, Stored
<1>2. ASSUME NEW ctx \in RequesterContexts, NEW payload \in Payloads, CreatePreview(ctx, payload)
      PROVE  RequestInv'
  <2>1. PICK preview : preview = Preview(db, ctx, payload, clock)
    OBVIOUS
  <2>2. request' = preview \/ request' = [status |-> "ACTION_PREVIEW_FAILED"]
    BY <1>2, <2>1 DEF CreatePreview
  <2>3. Snapshot(preview)
    BY <2>1, PreviewSnapshot DEF DirectoryInv
  <2>4. preview.status = "draft_preview"
    BY <2>1 DEF Preview
  <2>5. EscalationKept(preview)
    BY <2>1, PreviewNotEscalated
  <2>6. CASE request' = preview
    BY <2>3, <2>4, <2>5, <2>6 DEF RequestInv, Stored
  <2>7. CASE request' = [status |-> "ACTION_PREVIEW_FAILED"]
    BY <2>7 DEF RequestInv, Stored
  <2> QED BY <2>2, <2>6, <2>7
<1>3. CASE Submit
  <2>1. PICK r : r = request /\ Snapshot(r) /\ EscalationKept(r) /\ r.status = "draft_preview"
    BY <1>3 DEF Submit, RequestInv, Stored
  <2>2. PICK new : new = [r EXCEPT !.status = "pending_approval"]
    OBVIOUS
  <2>3. DOMAIN new = SnapshotFields /\ new.status = "pending_approval"
    BY <2>1, <2>2 DEF Snapshot, SnapshotFields
  <2>4. Snapshot(new) /\ EscalationKept(new)
    BY <2>1, <2>2, <2>3 DEF Snapshot, EscalationKept, _persisted_target_ids
  <2>5. request' = new
    BY <1>3, <2>1, <2>2 DEF Submit
  <2> QED BY <2>3, <2>4, <2>5 DEF RequestInv, Stored
<1> QED
  BY <1>1, <1>2, <1>3, CompleteRequest, EscalateRequest DEF Next, vars, ChangeUser, ChangeAssignment, Tick

\* The shape of the directory and of the request at every step
LEMMA ShapeInit == Init => DirectoryInv /\ RequestInv
BY DirectoryAssumption, TargetsAssumption DEF Init, DirectoryInv, RequestInv, Stored, NoRequest

-----------------------------------------------------------------------------
(* Executions                                                              *)

\* An assignment that revalidation lets through is active, unused and usable,
\* and what calls for an override is in its codes.
LEMMA ReclaimFacts ==
    ASSUME NEW d, Directory(d), NEW ctx, NEW r, NEW now \in Nat, NEW a \in DOMAIN d.assignments,
           NEW v, v = revalidate_assignment(d, ctx, r, a, now), v.kind # "skipped",
           NEW row, row = d.assignments[a]
    PROVE  /\ row.status = "active"
           /\ row.last = Never \/ row.last < now - NORMAL_ELIGIBILITY_DAYS
           /\ \/ row.mandatory \/ row.exception \/ row.dept # r.scope
              \/ d.users[row.user].type = "service"
              => v.codes # {}
<1>1. AssignmentRow(row)
  BY DEF Directory
<1>2. PICK codes : codes = {c \in {"mandatory_license"} : row.mandatory}
                \cup {c \in {"exception_assignment"} : row.exception}
                \cup {c \in {"service_account"} : d.users[row.user].type = "service"}
                \cup {c \in {"cross_scope"} : _is_cross_scope(row.dept, r.scope)}
  OBVIOUS
<1>3. \A reason : Skip(reason).kind = "skipped"
  BY DEF Skip
<1>4. row.status = "active" /\ ~ recent_usage(row.last, now) /\ v = Judged(codes)
  BY <1>1, <1>2, <1>3 DEF revalidate_assignment, AssignmentRow, AssignmentStatus
<1>5. v.codes = codes
  BY <1>4 DEF Judged
<1>6. row.last = Never \/ row.last < now - NORMAL_ELIGIBILITY_DAYS
  <2>1. row.last \in Int /\ NORMAL_ELIGIBILITY_DAYS \in Nat
    BY <1>1, TargetsAssumption DEF AssignmentRow, Time, Never
  <2> QED BY <1>4, <2>1 DEF recent_usage
<1>7. row.mandatory \/ row.exception \/ row.dept # r.scope \/ d.users[row.user].type = "service"
      => codes # {}
  BY <1>2 DEF _is_cross_scope
<1> QED
  BY <1>4, <1>5, <1>6, <1>7

\* A user that revalidation lets through is an active human without a recent
\* login under any department, and what calls for an override is in its codes:
\* the action role sees every fact about a user it may lock.
LEMMA DisableFacts ==
    ASSUME NEW d, Directory(d), NEW ctx, NEW r, NEW now, NEW u,
           NEW v, v = revalidate_user(d, ctx, r, u, now), v.kind # "skipped",
           NEW user, user = d.users[u]
    PROVE  /\ u \in DOMAIN d.users /\ user.type = "human" /\ user.status = "active"
           /\ ~ recent_login(Max({user.login, user.event.at}), now)
           /\ \/ user.group.privileged \/ user.alert.open \/ user.dept # r.scope
              => v.codes # {}
<1>1. \A reason : Skip(reason).kind = "skipped"
  BY DEF Skip
<1>2. PICK row : row = disable_candidate(d, ctx, "action", u)
  OBVIOUS
<1>3. /\ disable_rows(d, ctx, "action", {u}) # {}
      /\ ~ recent_login(row.login, now) /\ v = Judged(disable_codes(row, r.scope))
  BY <1>1, <1>2 DEF revalidate_user
<1>4. /\ u \in DOMAIN d.users /\ sees_department(ctx, user.dept)
      /\ user.type = "human" /\ user.status = "active"
  BY <1>3 DEF disable_rows
<1>5. \A dept : fact_visible(ctx, "action", user, dept)
  BY <1>4 DEF fact_visible
<1>6. row.login = Max({user.login, user.event.at}) /\ row.dept = user.dept
  BY <1>2, <1>5 DEF disable_candidate
<1>7. (row.privileged <=> user.group.privileged) /\ (row.critical <=> user.alert.open)
  BY <1>2, <1>5 DEF disable_candidate
<1>8. user.group.privileged \/ user.alert.open \/ user.dept # r.scope
      => disable_codes(row, r.scope) # {}
  BY <1>6, <1>7 DEF disable_codes, _is_cross_scope
<1>9. v.codes = disable_codes(row, r.scope)
  BY <1>3 DEF Judged
<1> QED
  BY <1>3, <1>4, <1>6, <1>8, <1>9

\* Only an execution completes a request.
LEMMA OnlyExecutionCompletes ==
    ASSUME RequestInv, [Next]_vars, request.status = "pending_approval",
           request'.status = "completed"
    PROVE  \E ctx \in ApproverContexts, self \in BOOLEAN : ApproveExecute(ctx, self)
<1>1. request' # request
  OBVIOUS
<1>2. ~ Submit /\ request # NoRequest
  BY DEF Submit, NoRequest
<1>3. ASSUME NEW ctx, NEW self, ApproveEscalate(ctx, self) PROVE FALSE
  <2>1. \E rv : request' = Escalated(request, rv)
    BY <1>3 DEF ApproveEscalate
  <2>2. request'.status = request.status
    BY <2>1 DEF Escalated
  <2> QED BY <2>2
<1> QED
  BY <1>1, <1>2, <1>3 DEF Next, vars, CreatePreview, ChangeUser, ChangeAssignment, Tick

\* A row that an execution changes was let through by the revalidation, under
\* an approver who may override where its codes call for one.
LEMMA ExecutionChanges ==
    ASSUME DirectoryInv, RequestInv, NEW ctx, NEW self, ApproveExecute(ctx, self)
    PROVE  /\ \A u \in DOMAIN db.users : db'.users[u] # db.users[u] =>
                 LET v == revalidate_user(db, ctx, request, u, clock)
                 IN  /\ u \in request.payload.users /\ v.kind # "skipped"
                     /\ v.codes # {} => OVERRIDE \in request'.decided_by
           /\ \A a \in DOMAIN db.assignments : db'.assignments[a] # db.assignments[a] =>
                 LET v == revalidate_assignment(db, ctx, request, a, clock)
                 IN  /\ v.kind # "skipped"
                     /\ v.codes # {} => OVERRIDE \in request'.decided_by
<1>1. PICK r : r = request /\ Snapshot(r)
  BY DEF ApproveExecute, Approving, RequestInv, Stored
<1>2. PICK rv : /\ rv = revalidate(db, ctx, r, clock)
                /\ Allowed(CurrentDecision(ctx, self, rv))
                /\ db' = IF r.type = RECLAIM THEN execute_reclaim(db, Executable(rv))
                         ELSE execute_disable(db, Executable(rv))
                /\ request' = Completed(r, rv, ctx)
  BY <1>1 DEF ApproveExecute
<1>3. request'.decided_by = ctx.permissions
  BY <1>1, <1>2, CompletedFields DEF Snapshot
<1>4. \A x \in DOMAIN rv : rv[x].codes # {} => OVERRIDE \in ctx.permissions
  BY <1>2, DecisionOnFound DEF RvCodes
<1>5. DOMAIN rv = r.eligible \cup DOMAIN r.overrides
  BY <1>2, Revalidations DEF _persisted_target_ids
<1>6. ASSUME NEW u \in DOMAIN db.users, db'.users[u] # db.users[u]
      PROVE  /\ u \in r.payload.users
             /\ revalidate_user(db, ctx, r, u, clock).kind # "skipped"
             /\ revalidate_user(db, ctx, r, u, clock).codes # {} => OVERRIDE \in ctx.permissions
  <2>1. r.type # RECLAIM /\ u \in Executable(rv)
    BY <1>2, <1>6 DEF execute_reclaim, execute_disable, DirectoryInv, Directory
  <2>2. r.type = DISABLE
    BY <1>1, <2>1 DEF Snapshot
  <2>3. u \in DOMAIN rv /\ rv[u].kind # "skipped"
    BY <2>1 DEF Executable
  <2>4. rv[u] = revalidate_user(db, ctx, r, u, clock)
    BY <1>2, <1>5, <2>1, <2>3 DEF revalidate, _persisted_target_ids
  <2>5. u \in r.payload.users
    BY <1>1, <1>5, <2>2, <2>3 DEF Snapshot, _persisted_target_ids
  <2> QED BY <1>4, <2>3, <2>4, <2>5
<1>7. ASSUME NEW a \in DOMAIN db.assignments, db'.assignments[a] # db.assignments[a]
      PROVE  /\ revalidate_assignment(db, ctx, r, a, clock).kind # "skipped"
             /\ revalidate_assignment(db, ctx, r, a, clock).codes # {} => OVERRIDE \in ctx.permissions
  <2>1. r.type = RECLAIM /\ a \in Executable(rv)
    BY <1>2, <1>7 DEF execute_reclaim, execute_disable, DirectoryInv, Directory
  <2>2. a \in DOMAIN rv /\ rv[a].kind # "skipped"
    BY <2>1 DEF Executable
  <2>3. rv[a] = revalidate_assignment(db, ctx, r, a, clock)
    BY <1>2, <1>5, <2>1, <2>2 DEF revalidate, _persisted_target_ids
  <2> QED BY <1>4, <2>2, <2>3
<1> QED
  BY <1>1, <1>3, <1>6, <1>7

\* Whatever department a fact about a user or an assignment is filed under, and
\* whoever approves, nothing is executed that the directory speaks against.
THEOREM FactsDecide == Spec => ExecutionSeesEveryFact
<1>1. DirectoryInv /\ RequestInv /\ [Next]_vars => DirectoryInv' /\ RequestInv'
  BY DirectoryNext, RequestNext
<1>2. ASSUME DirectoryInv, RequestInv, [Next]_vars,
             request.status = "pending_approval", request'.status = "completed"
      PROVE  /\ \A u \in DOMAIN db.users : db'.users[u] # db.users[u] => DisableJustified(u)
             /\ \A a \in DOMAIN db.assignments :
                   db'.assignments[a] # db.assignments[a] => ReclaimJustified(a)
  <2>1. PICK ctx, self : ApproveExecute(ctx, self)
    BY <1>2, OnlyExecutionCompletes
  <2>2. ASSUME NEW u \in DOMAIN db.users, db'.users[u] # db.users[u]
        PROVE  DisableJustified(u)
    <3>1. PICK v : /\ v = revalidate_user(db, ctx, request, u, clock)
                   /\ u \in request.payload.users /\ v.kind # "skipped"
                   /\ v.codes # {} => OVERRIDE \in request'.decided_by
      BY <1>2, <2>1, <2>2, ExecutionChanges
    <3> QED BY <1>2, <3>1, DisableFacts DEF DirectoryInv, DisableJustified
  <2>3. ASSUME NEW a \in DOMAIN db.assignments, db'.assignments[a] # db.assignments[a]
        PROVE  ReclaimJustified(a)
    <3>1. PICK v : /\ v = revalidate_assignment(db, ctx, request, a, clock)
                   /\ v.kind # "skipped"
                   /\ v.codes # {} => OVERRIDE \in request'.decided_by
      BY <1>2, <2>1, <2>3, ExecutionChanges
    <3> QED BY <1>2, <3>1, ReclaimFacts DEF DirectoryInv, ReclaimJustified
  <2> QED BY <2>2, <2>3
<1>3. DirectoryInv /\ RequestInv /\ [Next]_vars =>
        [request.status = "pending_approval" /\ request'.status = "completed" =>
            /\ \A u \in DOMAIN db.users : db'.users[u] # db.users[u] => DisableJustified(u)
            /\ \A a \in DOMAIN db.assignments :
                  db'.assignments[a] # db.assignments[a] => ReclaimJustified(a)]_vars
  BY <1>2
<1> QED
  BY <1>1, <1>3, ShapeInit, PTL DEF Spec, ExecutionSeesEveryFact

-----------------------------------------------------------------------------
(* Snapshots and their validators                                          *)

\* What a preview counts, in terms of what it stores
Counted(r, d, ctx, payload, now) ==
    /\ r.type = payload.type /\ r.scope = payload.scope
    /\ r.detail = [x \in r.eligible \cup DOMAIN r.overrides |->
                        IF payload.type = RECLAIM THEN reclaim_record(d, x, now)
                        ELSE disable_record(d, x)]
    /\ r.summary = Summary(payload.type, r.detail, r.eligible, r.overrides, r.skipped)
    /\ r.exclusions = Exclusions(r.skipped, r.overrides)
    /\ r.record_count = Cardinality(r.eligible \cup DOMAIN r.overrides)
    /\ r.skipped_count = Cardinality(r.skipped)
    /\ r.flags = policy_flags(r.overrides, r.record_count, payload.scope)
    /\ payload.scope \in r.target_scopes
    /\ r.access = access_snapshot(ctx, payload.type)

\* A preview counts what it selected.
LEMMA PreviewCounts ==
    ASSUME NEW d, NEW ctx, NEW payload, NEW now, NEW r, r = Preview(d, ctx, payload, now)
    PROVE  Counted(r, d, ctx, payload, now)
BY DEF Preview, Counted

\* The other flags follow from the stored ones and from the escalation.
FlagsFollow(r) ==
    /\ r.policy_requires_admin = (r.flags # {})
    /\ r.requires_admin = (r.flags # {} \/ r.revalidation_requires_admin)
    /\ r.requires_policy_override = (DOMAIN r.overrides # {})
    /\ r.crosses_scopes = ("cross_scope_target" \in Codes(r.overrides))

\* The flags of a preview are consistent.
LEMMA PreviewFlags ==
    ASSUME NEW d, NEW ctx, NEW payload, NEW now, NEW r, r = Preview(d, ctx, payload, now)
    PROVE  FlagsFollow(r)
BY DEF Preview, FlagsFollow

\* The targets are counted one by one, although they come in two lists.
LEMMA TargetCount ==
    ASSUME NEW r, Snapshot(r)
    PROVE  /\ Cardinality(r.eligible \cup DOMAIN r.overrides)
                  = Cardinality(r.eligible) + Cardinality(DOMAIN r.overrides)
<1>1. /\ IsFiniteSet(r.eligible) /\ IsFiniteSet(DOMAIN r.overrides)
      /\ r.eligible \cap DOMAIN r.overrides = {}
  BY DEF Snapshot
<1>2. Cardinality(r.eligible \cap DOMAIN r.overrides) = 0
  BY <1>1, FS_EmptySet
<1>3. Cardinality(r.eligible) \in Nat /\ Cardinality(DOMAIN r.overrides) \in Nat
  BY <1>1, FS_CardinalityType
<1>4. Cardinality(r.eligible \cup DOMAIN r.overrides)
          = Cardinality(r.eligible) + Cardinality(DOMAIN r.overrides)
            - Cardinality(r.eligible \cap DOMAIN r.overrides)
  BY <1>1, FS_Union
<1> QED
  BY <1>2, <1>3, <1>4

\* A record that may be acted on passes the validator's checks on records.
LEMMA PreviewRecords ==
    ASSUME NEW d, Directory(d), NEW ctx, NEW payload \in Payloads, NEW now,
           NEW r, r = Preview(d, ctx, payload, now), NEW x \in r.eligible \cup DOMAIN r.overrides
    PROVE  /\ r.detail[x].scope \in ScopedDepartments
           /\ payload.type = RECLAIM => r.detail[x].cost >= 0
<1>1. PICK verdict : verdict = build_preview(d, ctx, payload, now)
  OBVIOUS
<1>2. x \in DOMAIN verdict /\ verdict[x].kind # "skipped"
  <2>1. /\ r.eligible = {y \in DOMAIN verdict : verdict[y].kind = "eligible"}
        /\ r.overrides = [y \in {y \in DOMAIN verdict : verdict[y].kind = "override"} |->
                                verdict[y].codes]
    BY <1>1, PreviewFields
  <2> QED BY <2>1
<1>3. \A reason : Skip(reason).kind = "skipped"
  BY DEF Skip
<1>4. r.detail[x] = IF payload.type = RECLAIM THEN reclaim_record(d, x, now) ELSE disable_record(d, x)
  <2>1. Counted(r, d, ctx, payload, now)
    BY PreviewCounts
  <2> QED BY <2>1 DEF Counted
<1>5. CASE payload.type = RECLAIM
  <2>1. x \in DOMAIN d.assignments /\ verdict[x] = classify_assignment(d, ctx, payload, x, now)
    BY <1>1, <1>2, <1>5 DEF build_preview, reclaim_preview, read_reclaim_candidates
  <2>2. ~ structural_error(d, ctx, x)
    BY <1>2, <1>3, <2>1 DEF classify_assignment
  <2>3. d.assignments[x].dept \in ScopedDepartments /\ ~ (d.assignments[x].cost < 0)
        /\ d.assignments[x].cost \in Int
    BY <2>1, <2>2 DEF structural_error, Directory, AssignmentRow
  <2>4. r.detail[x].scope = d.assignments[x].dept /\ r.detail[x].cost = d.assignments[x].cost
    BY <1>4, <1>5 DEF reclaim_record
  <2> QED BY <2>3, <2>4
<1>6. CASE payload.type # RECLAIM
  <2>1. verdict[x] = classify_user(d, ctx, payload, x, now)
    BY <1>1, <1>2, <1>6 DEF build_preview, disable_preview
  <2>2. disable_candidate(d, ctx, "query", x).dept \in ScopedDepartments
    BY <1>2, <1>3, <2>1 DEF classify_user
  <2>3. d.users[x].dept \in ScopedDepartments
    BY <2>2 DEF disable_candidate
  <2> QED BY <1>4, <1>6, <2>3 DEF disable_record
<1> QED
  BY <1>5, <1>6

\* The flags of a new preview are the ones its validator expects.
LEMMA PreviewPolicy ==
    ASSUME NEW d, Directory(d), NEW ctx, NEW payload \in Payloads, NEW now,
           NEW r, r = Preview(d, ctx, payload, now)
    PROVE  r.record_count = r.summary.affected /\ r.skipped_count = r.summary.skipped
           /\ valid_policy(r)
<1>1. Snapshot(r)
  BY PreviewSnapshot
<1>2. Counted(r, d, ctx, payload, now)
  BY PreviewCounts
<1>3. /\ r.summary.affected = Cardinality(r.eligible) + Cardinality(DOMAIN r.overrides)
      /\ r.summary.skipped = Cardinality(r.skipped)
  BY <1>2 DEF Counted, Summary, reclaim_summary, disable_summary
<1>4. r.record_count = r.summary.affected /\ r.skipped_count = r.summary.skipped
  BY <1>1, <1>2, <1>3, TargetCount DEF Counted
<1>5. r.flags = policy_flags(r.overrides, r.summary.affected, r.scope)
  BY <1>2, <1>4 DEF Counted
<1>6. valid_policy(r)
  <2>1. FlagsFollow(r)
    BY PreviewFlags
  <2> QED BY <1>5, <2>1 DEF FlagsFollow, valid_policy
<1> QED
  BY <1>4, <1>6

\* A new preview passes its own validator, so create_preview stores it.
LEMMA PreviewValid ==
    ASSUME NEW d, Directory(d), NEW ctx, REQUEST \in ctx.permissions, NEW payload \in Payloads,
           NEW now, NEW r, r = Preview(d, ctx, payload, now)
    PROVE  valid_action_snapshot(r)
<1>1. Snapshot(r) /\ Counted(r, d, ctx, payload, now)
  BY PreviewSnapshot, PreviewCounts
<1>2. \A x \in DOMAIN r.overrides : r.overrides[x] # {}
  BY <1>1 DEF Snapshot
<1>3. \A x \in r.eligible \cup DOMAIN r.overrides :
          /\ r.detail[x].scope \in ScopedDepartments
          /\ payload.type = RECLAIM => r.detail[x].cost >= 0
  BY PreviewRecords
<1>4. r.record_count = r.summary.affected /\ r.skipped_count = r.summary.skipped /\ valid_policy(r)
  BY PreviewPolicy
<1>5. CASE payload.type = RECLAIM
  <2>1. r.summary = reclaim_summary(r.detail, r.eligible, r.overrides, r.skipped)
    BY <1>1, <1>5 DEF Counted, Summary
  <2>2. \A x \in r.eligible \cup DOMAIN r.overrides : valid_record(r, x)
    BY <1>2, <1>3, <1>5 DEF valid_record
  <2> QED BY <1>1, <1>4, <1>5, <2>1, <2>2 DEF Counted, valid_action_snapshot, valid_reclaim_snapshot
<1>6. CASE payload.type # RECLAIM
  <2>1. r.summary = disable_summary(r.eligible, r.overrides, r.skipped)
    BY <1>1, <1>6 DEF Counted, Summary
  <2>2. \A x \in r.eligible \cup DOMAIN r.overrides : valid_disable_record(r, x)
    BY <1>2, <1>3 DEF valid_disable_record
  <2>3. r.exclusions = Exclusions(r.skipped, r.overrides) /\ r.scope \in r.target_scopes
    BY <1>1 DEF Counted
  <2>4. valid_access(r)
    <3>1. r.access = access_snapshot(ctx, r.type)
      BY <1>1 DEF Counted
    <3>2. {REQUEST} \cap ctx.permissions = {REQUEST}
      OBVIOUS
    <3> QED BY <3>1, <3>2 DEF valid_access, access_snapshot
  <2>5. r.eligible \cap DOMAIN r.overrides = {}
    BY <1>1 DEF Snapshot
  <2> QED BY <1>1, <1>4, <1>6, <2>1, <2>2, <2>3, <2>4, <2>5
          DEF Counted, valid_action_snapshot, valid_disable_snapshot
<1> QED
  BY <1>5, <1>6

\* The validators read the snapshot only, and of the escalation one flag.
SameRecords(new, r) ==
    /\ new.type = r.type /\ new.scope = r.scope /\ new.eligible = r.eligible
    /\ new.overrides = r.overrides /\ new.detail = r.detail /\ new.skipped = r.skipped
    /\ new.exclusions = r.exclusions /\ new.summary = r.summary
    /\ new.target_scopes = r.target_scopes /\ new.access = r.access
    /\ new.record_count = r.record_count /\ new.skipped_count = r.skipped_count
    /\ new.flags = r.flags /\ new.policy_requires_admin = r.policy_requires_admin
    /\ new.crosses_scopes = r.crosses_scopes
    /\ new.requires_policy_override = r.requires_policy_override

\* A request with the same records is as readable as before, whatever the escalation
\* flags, as long as they agree.
LEMMA SameSnapshot ==
    ASSUME NEW r, NEW new, valid_action_snapshot(r), SameRecords(new, r),
           new.requires_admin = (new.flags # {} \/ new.revalidation_requires_admin)
    PROVE  valid_action_snapshot(new)
<1> USE DEF SameRecords
<1>1. valid_policy(r) => valid_policy(new)
  BY DEF valid_policy
<1>2. \A x : /\ valid_record(r, x) => valid_record(new, x)
             /\ valid_disable_record(r, x) => valid_disable_record(new, x)
  BY DEF valid_record, valid_disable_record
<1>3. CASE r.type = RECLAIM
  BY <1>1, <1>2, <1>3 DEF valid_action_snapshot, valid_reclaim_snapshot
<1>4. CASE r.type # RECLAIM
  BY <1>1, <1>2, <1>4 DEF valid_action_snapshot, valid_disable_snapshot, valid_access
<1> QED
  BY <1>3, <1>4

\* Submitting and escalating leave a readable snapshot.
LEMMA SubmitReadable ==
    ASSUME RequestInv, Submit PROVE valid_action_snapshot(request')
<1>1. PICK r : r = request /\ Snapshot(r) /\ valid_action_snapshot(r)
  BY DEF Submit, RequestInv, Stored
<1>2. PICK new : new = [r EXCEPT !.status = "pending_approval"]
  OBVIOUS
<1>3. r.requires_admin = (r.flags # {} \/ r.revalidation_requires_admin)
  BY <1>1 DEF valid_action_snapshot, valid_reclaim_snapshot, valid_disable_snapshot, valid_policy
<1>4. SameRecords(new, r)
  BY <1>2 DEF SameRecords
<1>5. new.requires_admin = (new.flags # {} \/ new.revalidation_requires_admin)
  BY <1>2, <1>3
<1>6. valid_action_snapshot(new)
  BY <1>1, <1>4, <1>5, SameSnapshot
<1> QED
  BY <1>1, <1>2, <1>6 DEF Submit

\* An escalated request is readable.
LEMMA EscalateReadable ==
    ASSUME RequestInv, NEW ctx, NEW self, ApproveEscalate(ctx, self)
    PROVE  valid_action_snapshot(request')
<1>1. PICK rv : request' = Escalated(request, rv)
  BY DEF ApproveEscalate
<1>2. PICK r : r = request /\ DOMAIN r = SnapshotFields /\ valid_action_snapshot(r)
  BY DEF ApproveEscalate, Approving, RequestInv, Stored, Snapshot
<1>3. PICK new : new = Escalated(r, rv)
  OBVIOUS
<1>4. new.requires_admin = (new.flags # {} \/ new.revalidation_requires_admin)
  BY <1>2, <1>3, EscalatedFlags
<1>5. SameRecords(new, r)
  BY <1>3 DEF SameRecords, Escalated
<1>6. valid_action_snapshot(new)
  BY <1>2, <1>4, <1>5, SameSnapshot
<1> QED
  BY <1>1, <1>2, <1>3, <1>6

\* The counts a completion takes again
Recounted(new, r, count) ==
    /\ r.type = RECLAIM => new.summary = [r.summary EXCEPT !.skipped = count]
    /\ r.type # RECLAIM => new.summary =
         [r.summary EXCEPT
             !.skipped = count,
             !.service = Cardinality(WithReason(new.skipped, "service_account_excluded")),
             !.recent = Cardinality(WithReason(new.skipped, "recent_successful_login"))]

\* A completion recounts the skips.
LEMMA CompletedSummary ==
    ASSUME NEW r, DOMAIN r = SnapshotFields, NEW rv, NEW ctx, NEW new, new = Completed(r, rv, ctx)
    PROVE  Recounted(new, r, Cardinality(r.skipped) + Cardinality(CurrentSkips(r, rv)))
BY DEF Completed, CurrentSkips, SnapshotFields, Recounted

\* They are the counts of a summary with the new skips,
LEMMA RecountReclaim ==
    ASSUME NEW detail, NEW eligible, NEW overrides, NEW skipped, NEW more
    PROVE  [reclaim_summary(detail, eligible, overrides, skipped) EXCEPT !.skipped = Cardinality(more)]
               = reclaim_summary(detail, eligible, overrides, more)
BY DEF reclaim_summary

\* for both kinds of actions.
LEMMA RecountDisable ==
    ASSUME NEW eligible, NEW overrides, NEW skipped, NEW more
    PROVE  [disable_summary(eligible, overrides, skipped) EXCEPT
                !.skipped = Cardinality(more),
                !.service = Cardinality(WithReason(more, "service_account_excluded")),
                !.recent = Cardinality(WithReason(more, "recent_successful_login"))]
               = disable_summary(eligible, overrides, more)
<1>1. PICK r : r = disable_summary(eligible, overrides, skipped)
  OBVIOUS
<1>2. PICK t, u, v : /\ t = Cardinality(more)
                     /\ u = Cardinality(WithReason(more, "service_account_excluded"))
                     /\ v = Cardinality(WithReason(more, "recent_successful_login"))
  OBVIOUS
<1>3. PICK s : s = [r EXCEPT !.skipped = t, !.service = u, !.recent = v]
  OBVIOUS
<1>4. DOMAIN s = {"affected", "normal", "override", "skipped", "privileged", "critical",
                  "service", "recent"}
  BY <1>1, <1>3 DEF disable_summary
<1>5. s = [y \in DOMAIN s |-> s[y]]
  BY <1>3
<1>6. /\ s.affected = r.affected /\ s.normal = r.normal /\ s.override = r.override
      /\ s.privileged = r.privileged /\ s.critical = r.critical
  BY <1>3
<1>7. s.skipped = t /\ s.service = u /\ s.recent = v
  BY <1>1, <1>3 DEF disable_summary
<1>8. PICK q : q = disable_summary(eligible, overrides, more)
  OBVIOUS
<1>9. DOMAIN q = DOMAIN s /\ q = [y \in DOMAIN q |-> q[y]]
  BY <1>4, <1>8 DEF disable_summary
<1>10. /\ q.affected = r.affected /\ q.normal = r.normal /\ q.override = r.override
       /\ q.privileged = r.privileged /\ q.critical = r.critical
       /\ q.skipped = t /\ q.service = u /\ q.recent = v
  BY <1>1, <1>2, <1>8 DEF disable_summary
<1>11. s = q
  BY <1>4, <1>5, <1>6, <1>7, <1>9, <1>10
<1> QED
  BY <1>1, <1>2, <1>3, <1>8, <1>11

\* A skip found at the revalidation is a new one: it is about a target.
LEMMA SkipsAdd ==
    ASSUME NEW r, Snapshot(r), r.status # "completed", NEW d, NEW ctx, NEW now,
           NEW rv, rv = revalidate(d, ctx, r, now)
    PROVE  Cardinality(r.skipped \cup CurrentSkips(r, rv))
               = Cardinality(r.skipped) + Cardinality(CurrentSkips(r, rv))
<1>1. PICK T : T = CurrentSkips(r, rv)
  OBVIOUS
<1>2. IsFiniteSet(T)
  BY <1>1, FiniteSkips
<1>3. \A s \in T : s.type = RecordType(r.type) /\ s.id \in _persisted_target_ids(r)
  BY <1>1, Revalidations DEF CurrentSkips
<1>4. r.skipped \cap T = {}
  BY <1>3 DEF Snapshot
<1>5. IsFiniteSet(r.skipped) /\ Cardinality(r.skipped) \in Nat /\ Cardinality(T) \in Nat
  BY <1>2, FS_CardinalityType DEF Snapshot
<1>6. Cardinality(r.skipped \cup T) = Cardinality(r.skipped) + Cardinality(T) - Cardinality(r.skipped \cap T)
  BY <1>2, <1>5, FS_Union
<1>7. Cardinality(r.skipped \cap T) = 0
  BY <1>4, FS_EmptySet
<1> QED
  BY <1>1, <1>5, <1>6, <1>7

\* A completed request is still readable: what the completion counts again is
\* what the validator counts.
LEMMA CompleteReadable ==
    ASSUME RequestInv, NEW ctx, NEW self, ApproveExecute(ctx, self)
    PROVE  valid_action_snapshot(request')
<1>1. PICK rv : rv = revalidate(db, ctx, request, clock) /\ request' = Completed(request, rv, ctx)
  BY DEF ApproveExecute
<1>2. PICK r : /\ r = request /\ Snapshot(r) /\ valid_action_snapshot(r)
               /\ r.status # "completed" /\ DOMAIN r = SnapshotFields
  BY DEF ApproveExecute, Approving, RequestInv, Stored, Snapshot
<1>3. PICK new : new = Completed(r, rv, ctx)
  OBVIOUS
<1>4. PICK count : count = Cardinality(r.skipped) + Cardinality(CurrentSkips(r, rv))
  OBVIOUS
<1>5. /\ new.skipped = r.skipped \cup CurrentSkips(r, rv) /\ new.skipped_count = count
      /\ new.exclusions = Exclusions(new.skipped, r.overrides)
      /\ \A f \in SnapshotFields \ {"status", "skipped", "skipped_count", "exclusions",
                    "summary", "decided_by"} : new[f] = r[f]
  BY <1>2, <1>3, <1>4, CompletedFields
<1>6. count = Cardinality(new.skipped)
  BY <1>1, <1>2, <1>4, <1>5, SkipsAdd
<1>7. /\ new.type = r.type /\ new.scope = r.scope /\ new.eligible = r.eligible
      /\ new.overrides = r.overrides /\ new.detail = r.detail
      /\ new.target_scopes = r.target_scopes /\ new.access = r.access
      /\ new.record_count = r.record_count /\ new.flags = r.flags
  BY <1>5 DEF SnapshotFields
<1>8. /\ new.policy_requires_admin = r.policy_requires_admin
      /\ new.crosses_scopes = r.crosses_scopes
      /\ new.requires_policy_override = r.requires_policy_override
      /\ new.requires_admin = r.requires_admin
      /\ new.revalidation_requires_admin = r.revalidation_requires_admin
  BY <1>5 DEF SnapshotFields
<1>9. \A x : /\ valid_record(r, x) => valid_record(new, x)
             /\ valid_disable_record(r, x) => valid_disable_record(new, x)
  BY <1>7 DEF valid_record, valid_disable_record
<1>10. new.summary.affected = r.summary.affected => (valid_policy(r) => valid_policy(new))
  BY <1>7, <1>8 DEF valid_policy
<1>11. new.skipped_count = count /\ new.exclusions = Exclusions(new.skipped, new.overrides)
  BY <1>5, <1>7
<1>12. Recounted(new, r, count)
  BY <1>2, <1>3, <1>4, CompletedSummary
<1>13. CASE r.type = RECLAIM
  <2>1. valid_reclaim_snapshot(r)
    BY <1>2, <1>13 DEF valid_action_snapshot
  <2>2. r.summary = reclaim_summary(r.detail, r.eligible, r.overrides, r.skipped)
    BY <2>1 DEF valid_reclaim_snapshot
  <2>3. new.summary = [r.summary EXCEPT !.skipped = count]
    BY <1>12, <1>13 DEF Recounted
  <2>4. new.summary = reclaim_summary(new.detail, new.eligible, new.overrides, new.skipped)
    BY <1>6, <1>7, <2>2, <2>3, RecountReclaim
  <2>5. new.summary.affected = r.summary.affected /\ new.summary.skipped = count
    BY <1>6, <1>7, <2>2, <2>4 DEF reclaim_summary
  <2>6. valid_policy(new) /\ new.record_count = new.summary.affected
    BY <1>7, <1>10, <2>1, <2>5 DEF valid_reclaim_snapshot
  <2>7. \A x \in new.eligible \cup DOMAIN new.overrides : valid_record(new, x)
    BY <1>7, <1>9, <2>1 DEF valid_reclaim_snapshot
  <2>8. new.skipped_count = new.summary.skipped
    BY <1>11, <2>5
  <2>9. valid_reclaim_snapshot(new)
    BY <2>4, <2>6, <2>7, <2>8, Zenon DEF valid_reclaim_snapshot
  <2> QED BY <1>1, <1>2, <1>3, <1>7, <1>13, <2>9 DEF valid_action_snapshot
<1>14. CASE r.type # RECLAIM
  <2>1. valid_disable_snapshot(r)
    BY <1>2, <1>14 DEF valid_action_snapshot
  <2>2. r.summary = disable_summary(r.eligible, r.overrides, r.skipped)
    BY <2>1 DEF valid_disable_snapshot
  <2>3. new.summary =
            [r.summary EXCEPT
                !.skipped = count,
                !.service = Cardinality(WithReason(new.skipped, "service_account_excluded")),
                !.recent = Cardinality(WithReason(new.skipped, "recent_successful_login"))]
    BY <1>12, <1>14, Zenon DEF Recounted
  <2>4. new.summary = disable_summary(new.eligible, new.overrides, new.skipped)
    <3>1. PICK e, o, k, n : e = r.eligible /\ o = r.overrides /\ k = r.skipped /\ n = new.skipped
      OBVIOUS
    <3>2. new.summary =
            [disable_summary(e, o, k) EXCEPT
                !.skipped = Cardinality(n),
                !.service = Cardinality(WithReason(n, "service_account_excluded")),
                !.recent = Cardinality(WithReason(n, "recent_successful_login"))]
      BY <1>6, <2>2, <2>3, <3>1, Zenon
    <3>3. new.summary = disable_summary(e, o, n)
      BY <3>2, RecountDisable, Zenon
    <3> QED BY <1>7, <3>1, <3>3
  <2>5. new.summary.affected = r.summary.affected /\ new.summary.skipped = count
    BY <1>6, <1>7, <2>2, <2>4 DEF disable_summary
  <2>6. valid_policy(new) /\ new.record_count = new.summary.affected
    BY <1>7, <1>10, <2>1, <2>5 DEF valid_disable_snapshot
  <2>7. \A x \in new.eligible \cup DOMAIN new.overrides : valid_disable_record(new, x)
    BY <1>7, <1>9, <2>1 DEF valid_disable_snapshot
  <2>8. new.eligible \cap DOMAIN new.overrides = {} /\ new.scope \in new.target_scopes /\ valid_access(new)
    BY <1>7, <2>1 DEF valid_disable_snapshot, valid_access
  <2>9. new.skipped_count = new.summary.skipped
    BY <1>11, <2>5
  <2>10. valid_disable_snapshot(new)
    BY <1>11, <2>4, <2>6, <2>7, <2>8, <2>9, Zenon DEF valid_disable_snapshot
  <2> QED BY <1>1, <1>2, <1>3, <1>7, <1>14, <2>10 DEF valid_action_snapshot
<1> QED
  BY <1>13, <1>14

\* The snapshot a request carries always passes its validator: a preview is
\* stored, an escalated request can be approved, a completed one shown.
THEOREM SnapshotsReadable == Spec => []SnapshotStaysReadable
<1>1. Init => SnapshotStaysReadable
  BY DEF Init, SnapshotStaysReadable, Stored, NoRequest
<1>2. ASSUME DirectoryInv, RequestInv, SnapshotStaysReadable, [Next]_vars
      PROVE  SnapshotStaysReadable'
  <2>1. CASE UNCHANGED request
    BY <1>2, <2>1 DEF SnapshotStaysReadable, Stored
  <2>2. CASE \E ctx \in RequesterContexts, payload \in Payloads : CreatePreview(ctx, payload)
    <3>1. PICK ctx \in RequesterContexts, payload \in Payloads : CreatePreview(ctx, payload)
      BY <2>2
    <3>2. REQUEST \in ctx.permissions
      BY <3>1 DEF CreatePreview, preview_error
    <3>3. PICK preview : preview = Preview(db, ctx, payload, clock)
      OBVIOUS
    <3>4. valid_action_snapshot(preview)
      BY <1>2, <3>2, <3>3, PreviewValid DEF DirectoryInv
    <3>5. request' = preview
      BY <3>1, <3>3, <3>4 DEF CreatePreview
    <3>6. preview.status = "draft_preview"
      BY <3>3 DEF Preview
    <3> QED BY <3>4, <3>5, <3>6 DEF SnapshotStaysReadable
  <2>3. RequestInv'
    BY <1>2, RequestNext
  <2>4. CASE valid_action_snapshot(request') /\ Stored'
    BY <2>4 DEF SnapshotStaysReadable, Stored
  <2>5. CASE Submit
    <3>1. request'.status = "pending_approval"
      BY <1>2, <2>5 DEF Submit, RequestInv, Stored, Snapshot, SnapshotFields
    <3> QED BY <1>2, <2>4, <2>5, <3>1, SubmitReadable DEF Stored
  <2>6. ASSUME NEW ctx, NEW self, ApproveEscalate(ctx, self) PROVE SnapshotStaysReadable'
    <3>1. request'.status = request.status /\ request.status = "pending_approval"
      BY <2>6 DEF ApproveEscalate, Approving, Escalated
    <3> QED BY <1>2, <2>4, <2>6, <3>1, EscalateReadable DEF Stored
  <2>7. ASSUME NEW ctx, NEW self, ApproveExecute(ctx, self) PROVE SnapshotStaysReadable'
    <3>1. PICK rv : request' = Completed(request, rv, ctx)
      BY <2>7 DEF ApproveExecute
    <3>2. DOMAIN request = SnapshotFields
      BY <1>2, <2>7 DEF ApproveExecute, Approving, RequestInv, Stored, Snapshot
    <3>3. request'.status = "completed"
      BY <3>1, <3>2, CompletedFields
    <3> QED BY <1>2, <2>4, <2>7, <3>3, CompleteReadable DEF Stored
  <2> QED BY <1>2, <2>1, <2>2, <2>5, <2>6, <2>7 DEF Next, vars, ChangeUser, ChangeAssignment, Tick
<1> QED
  BY <1>1, <1>2, ShapeInit, DirectoryNext, RequestNext, PTL DEF Spec

-----------------------------------------------------------------------------
(* Viewers and deciders                                                    *)

\* The two copies of the decision in service.py and approval.py agree.
LEMMA SameDecision ==
    ASSUME NEW r, r.status = "pending_approval", NEW ctx
    PROVE  _can_view_action_request(r, ctx, FALSE) <=> approval_detail(r, ctx, FALSE).can_approve
<1>1. PICK crosses : crosses = (\/ r.scope = GlobalScope \/ r.crosses_scopes
                                \/ r.revalidation_crosses_scopes
                                \/ r.record_count > SCOPED_APPROVAL_RECORD_LIMIT)
  OBVIOUS
<1>2. PICK again : again = (\/ r.scope = GlobalScope
                            \/ r.record_count > SCOPED_APPROVAL_RECORD_LIMIT
                            \/ r.crosses_scopes \/ r.revalidation_crosses_scopes)
  OBVIOUS
<1>3. PICK override : override = (\/ r.requires_policy_override
                                  \/ r.revalidation_requires_policy_override)
  OBVIOUS
<1>4. crosses <=> again
  BY <1>1, <1>2
<1>5. approval_detail(r, ctx, FALSE).can_approve <=>
        Allowed(evaluate_action_approval(ctx, FALSE, r.scope, r.record_count, crosses, override))
  BY <1>1, <1>3 DEF approval_detail, _approval_decision
<1>6. _can_view_action_request(r, ctx, FALSE) <=>
        Allowed(evaluate_action_approval(ctx, FALSE, r.scope, r.record_count, again, override))
  BY <1>2, <1>3 DEF _can_view_action_request, _approval_decision_allowed
<1> QED
  BY <1>4, <1>5, <1>6 DEF Allowed, evaluate_action_approval

\* A request that waits for an override carries the flag and a code for it.
LEMMA OverrideExplained ==
    ASSUME NEW r, Snapshot(r), EscalationKept(r), valid_action_snapshot(r),
           r.requires_policy_override \/ r.revalidation_requires_policy_override
    PROVE  (r.flags \cup r.revalidation_flags)
              \ {"record_count_over_analyst_threshold", "global_scope_request"} # {}
<1>1. CASE r.revalidation_requires_policy_override
  <2>1. PICK c \in RevalidationCode : c \in r.revalidation_flags
    BY <1>1 DEF EscalationKept
  <2> QED BY <2>1 DEF RevalidationCode
<1>2. CASE r.requires_policy_override
  <2>1. valid_policy(r)
    BY DEF valid_action_snapshot, valid_reclaim_snapshot, valid_disable_snapshot
  <2>2. DOMAIN r.overrides # {}
    BY <1>2, <2>1 DEF valid_policy
  <2>3. PICK x \in DOMAIN r.overrides, c \in OverrideCode : c \in r.overrides[x]
    BY <2>2 DEF Snapshot
  <2>4. r.flags = policy_flags(r.overrides, r.summary.affected, r.scope)
    BY <2>1 DEF valid_policy
  <2>5. c \in r.flags
    BY <2>3, <2>4 DEF policy_flags, Codes
  <2> QED BY <2>3, <2>5 DEF OverrideCode
<1> QED
  BY <1>1, <1>2

\* Those who are shown someone else's pending request are those who may decide
\* it, before and after an escalation, and one that waits for an override says
\* so, with its reason, to its requester.
THEOREM ViewersDecide == Spec => []ViewersAreDeciders
<1>1. ASSUME RequestInv, SnapshotStaysReadable, request.status = "pending_approval",
             NEW ctx \in ApproverContexts
      PROVE  LET detail == approval_detail(request, ctx, FALSE)
                 shown  == action_detail(request, request.requester, TRUE, TRUE)
             IN  /\ _can_view_action_request(request, ctx, FALSE) <=> detail.can_approve
                 /\ detail.reason = "override_permission_required" =>
                     /\ shown.policy_details.override
                     /\ shown.preview.flags \ {"record_count_over_analyst_threshold",
                                               "global_scope_request"} # {}
                     /\ detail.preview = shown.preview
  <2>1. PICK r : /\ r = request /\ Snapshot(r) /\ EscalationKept(r)
                 /\ valid_action_snapshot(r) /\ r.status = "pending_approval"
    BY <1>1 DEF RequestInv, SnapshotStaysReadable, Stored
  <2>2. PICK detail, shown : /\ detail = approval_detail(r, ctx, FALSE)
                             /\ shown = action_detail(r, r.requester, TRUE, TRUE)
    OBVIOUS
  <2>3. _can_view_action_request(r, ctx, FALSE) <=> detail.can_approve
    BY <2>1, <2>2, SameDecision
  <2>4. shown = [preview |-> safe_action_preview(r), policy_details |-> safe_policy_details(r)]
    BY <2>1, <2>2 DEF action_detail, _can_view_action_request, _serialize_action_request
  <2>5. detail.preview = safe_action_preview(r)
    BY <2>2 DEF approval_detail
  <2>6. ASSUME detail.reason = "override_permission_required"
        PROVE  r.requires_policy_override \/ r.revalidation_requires_policy_override
    <3>1. _approval_decision(r, ctx, FALSE) = "override_permission_required"
      BY <2>2, <2>6 DEF approval_detail
    <3>2. PICK crosses : crosses = (\/ r.scope = GlobalScope \/ r.crosses_scopes
                                    \/ r.revalidation_crosses_scopes
                                    \/ r.record_count > SCOPED_APPROVAL_RECORD_LIMIT)
      OBVIOUS
    <3>3. PICK override : override = (\/ r.requires_policy_override
                                      \/ r.revalidation_requires_policy_override)
      OBVIOUS
    <3>4. evaluate_action_approval(ctx, FALSE, r.scope, r.record_count, crosses, override)
              = "override_permission_required"
      BY <3>1, <3>2, <3>3 DEF _approval_decision
    <3>5. override
      BY <3>4 DEF evaluate_action_approval
    <3> QED BY <3>3, <3>5
  <2>7. ASSUME detail.reason = "override_permission_required"
        PROVE  /\ shown.policy_details.override
               /\ shown.preview.flags \ {"record_count_over_analyst_threshold",
                                         "global_scope_request"} # {}
               /\ detail.preview = shown.preview
    <3>1. shown.preview = safe_action_preview(r) /\ shown.policy_details = safe_policy_details(r)
      BY <2>4
    <3>2. safe_action_preview(r).flags = r.flags \cup r.revalidation_flags
      BY DEF safe_action_preview
    <3>3. safe_policy_details(r).override
      BY <2>6, <2>7 DEF safe_policy_details
    <3>4. (r.flags \cup r.revalidation_flags)
              \ {"record_count_over_analyst_threshold", "global_scope_request"} # {}
      BY <2>1, <2>6, <2>7, OverrideExplained
    <3> QED BY <2>5, <3>1, <3>2, <3>3, <3>4
  <2> QED BY <2>1, <2>2, <2>3, <2>7
<1>2. RequestInv /\ SnapshotStaysReadable => ViewersAreDeciders
  BY <1>1 DEF ViewersAreDeciders
<1> QED
  BY <1>2, SnapshotsReadable, ShapeInit, DirectoryNext, RequestNext, PTL DEF Spec

-----------------------------------------------------------------------------
(* What row-level security hides leaves no trace                            *)

\* The preview of a directory, as a function of the handler's verdicts, the
\* selectors it did not find and what it stores of its targets
Assembled(ctx, payload, verdict, missing, detail) ==
    LET Of(kind)  == {x \in DOMAIN verdict : verdict[x].kind = kind}
        eligible  == Of("eligible")
        overrides == [x \in Of("override") |-> verdict[x].codes]
        skipped   == {[type |-> RecordType(payload.type), id |-> x,
                       reason |-> verdict[x].reason] : x \in Of("skipped")}
                     \cup missing
        flags     == policy_flags(overrides, Cardinality(DOMAIN detail), payload.scope)
    IN  [status |-> "draft_preview", type |-> payload.type, scope |-> payload.scope,
         eligible |-> eligible, overrides |-> overrides, detail |-> detail,
         skipped |-> skipped, exclusions |-> Exclusions(skipped, overrides),
         summary |-> Summary(payload.type, detail, eligible, overrides, skipped),
         target_scopes |-> {payload.scope} \cup {detail[x].scope : x \in DOMAIN detail},
         access |-> access_snapshot(ctx, payload.type),
         record_count |-> Cardinality(DOMAIN detail),
         skipped_count |-> Cardinality(skipped),
         flags |-> flags, policy_requires_admin |-> flags # {},
         requires_admin |-> flags # {},
         crosses_scopes |-> "cross_scope_target" \in Codes(overrides),
         requires_policy_override |-> DOMAIN overrides # {},
         revalidation_flags |-> {}, revalidation_requires_admin |-> FALSE,
         revalidation_requires_policy_override |-> FALSE,
         revalidation_crosses_scopes |-> FALSE, decided_by |-> {},
         payload |-> payload, requester |-> ctx]

Targets(verdict) ==
    {x \in DOMAIN verdict : verdict[x].kind = "eligible"}
    \cup {x \in DOMAIN verdict : verdict[x].kind = "override"}

Details(d, payload, verdict, now) ==
    [x \in Targets(verdict) |->
        IF payload.type = RECLAIM THEN reclaim_record(d, x, now) ELSE disable_record(d, x)]

\* build_action_preview_storage sees the directory only through these three.
LEMMA PreviewAssembled ==
    ASSUME NEW d, NEW ctx, NEW payload, NEW now,
           NEW verdict, verdict = build_preview(d, ctx, payload, now)
    PROVE  Preview(d, ctx, payload, now)
             = Assembled(ctx, payload, verdict,
                         missing_records(d, ctx, payload, DOMAIN verdict),
                         Details(d, payload, verdict, now))
BY DEF Preview, Assembled, Details, Targets

\* What is left of a user's row keeps the columns of the row itself.
LEMMA VisibleUserRow ==
    ASSUME NEW user \in UserRow, NEW ctx, NEW v, v = VisibleUser(user, ctx)
    PROVE  /\ v.dept = user.dept /\ v.type = user.type /\ v.status = user.status
           /\ v.login = user.login
           /\ v.event = IF sees_department(ctx, user.event.dept) THEN user.event
                        ELSE [at |-> Never, dept |-> user.dept]
           /\ v.group = IF sees_department(ctx, user.group.dept) THEN user.group
                        ELSE [privileged |-> FALSE, dept |-> user.dept]
           /\ v.alert = IF sees_department(ctx, user.alert.dept) THEN user.alert
                        ELSE [open |-> FALSE, dept |-> user.dept]
BY DEF UserRow, VisibleUser

\* The rows that are left of a directory
LEMMA VisibleRows ==
    ASSUME NEW d, NEW ctx, NEW v, v = Visible(d, ctx)
    PROVE  /\ DOMAIN v.users = {u \in DOMAIN d.users : sees_department(ctx, d.users[u].dept)}
           /\ \A u \in DOMAIN v.users : v.users[u] = VisibleUser(d.users[u], ctx)
           /\ DOMAIN v.assignments
                = {a \in DOMAIN d.assignments : sees_department(ctx, d.assignments[a].dept)}
           /\ \A a \in DOMAIN v.assignments : v.assignments[a] = d.assignments[a]
BY DEF Visible

\* A login that never happened is not the newer one.
LEMMA NeverIsOldest ==
    ASSUME NEW t \in Time PROVE Max({t, Never}) = t
<1>1. \A o \in {t, Never} : t >= o
  BY DEF Time, Never
<1>2. \A x \in {t, Never} : (\A o \in {t, Never} : x >= o) => x = t
  BY DEF Time, Never
<1> QED
  BY <1>1, <1>2 DEF Max

\* The candidate read for a user in sight is that of the reduced directory.
LEMMA SameCandidate ==
    ASSUME NEW d, Directory(d), NEW ctx, NEW v, v = Visible(d, ctx),
           NEW u \in DOMAIN d.users, sees_department(ctx, d.users[u].dept)
    PROVE  disable_candidate(d, ctx, "query", u) = disable_candidate(v, ctx, "query", u)
<1>1. PICK user \in UserRow : user = d.users[u]
  BY DEF Directory
<1>2. PICK left : left = VisibleUser(user, ctx)
  OBVIOUS
<1>3. v.users[u] = left /\ u \in DOMAIN v.users
  BY <1>1, <1>2, VisibleRows
<1>4. /\ left.dept = user.dept /\ left.type = user.type /\ left.status = user.status
      /\ left.login = user.login
      /\ left.event = IF sees_department(ctx, user.event.dept) THEN user.event
                      ELSE [at |-> Never, dept |-> user.dept]
      /\ left.group = IF sees_department(ctx, user.group.dept) THEN user.group
                      ELSE [privileged |-> FALSE, dept |-> user.dept]
      /\ left.alert = IF sees_department(ctx, user.alert.dept) THEN user.alert
                      ELSE [open |-> FALSE, dept |-> user.dept]
  BY <1>2, VisibleUserRow
<1>5. sees_department(ctx, user.dept) /\ user.login \in Time
  BY <1>1 DEF UserRow
<1>6. \A w, dept : fact_visible(ctx, "query", w, dept) <=> sees_department(ctx, dept)
  BY DEF fact_visible
<1>7. (IF sees_department(ctx, user.event.dept)
       THEN Max({user.login, user.event.at}) ELSE user.login)
      = (IF sees_department(ctx, left.event.dept)
         THEN Max({left.login, left.event.at}) ELSE left.login)
  BY <1>4, <1>5, NeverIsOldest
<1>8. (user.group.privileged /\ sees_department(ctx, user.group.dept))
      <=> (left.group.privileged /\ sees_department(ctx, left.group.dept))
  BY <1>4
<1>9. (user.alert.open /\ sees_department(ctx, user.alert.dept))
      <=> (left.alert.open /\ sees_department(ctx, left.alert.dept))
  BY <1>4
<1> QED
  BY <1>1, <1>3, <1>4, <1>6, <1>7, <1>8, <1>9 DEF disable_candidate

\* A user left in sight has its department and its type.
LEMMA SameUsers ==
    ASSUME NEW d, Directory(d), NEW ctx, NEW v, v = Visible(d, ctx), NEW u \in DOMAIN v.users
    PROVE  v.users[u].dept = d.users[u].dept /\ v.users[u].type = d.users[u].type
<1>1. u \in DOMAIN d.users /\ v.users[u] = VisibleUser(d.users[u], ctx)
  BY VisibleRows
<1>2. PICK user \in UserRow : user = d.users[u]
  BY <1>1 DEF Directory
<1>3. PICK left : left = VisibleUser(user, ctx)
  OBVIOUS
<1>4. left.dept = user.dept /\ left.type = user.type
  BY <1>3 DEF UserRow, VisibleUser
<1> QED
  BY <1>1, <1>2, <1>3, <1>4

\* Both directories give the readers the same rows.
LEMMA SameRows ==
    ASSUME NEW d, Directory(d), NEW ctx, NEW v, v = Visible(d, ctx), NEW payload
    PROVE  /\ read_reclaim_candidates(v, ctx, payload) = read_reclaim_candidates(d, ctx, payload)
           /\ disable_rows(v, ctx, "query", payload.users)
                = disable_rows(d, ctx, "query", payload.users)
<1>1. /\ DOMAIN v.users = {u \in DOMAIN d.users : sees_department(ctx, d.users[u].dept)}
      /\ DOMAIN v.assignments
           = {a \in DOMAIN d.assignments : sees_department(ctx, d.assignments[a].dept)}
      /\ \A a \in DOMAIN v.assignments : v.assignments[a] = d.assignments[a]
  BY VisibleRows
<1>2. \A u \in DOMAIN v.users : v.users[u].dept = d.users[u].dept
  BY SameUsers
<1>3. read_reclaim_candidates(v, ctx, payload) = read_reclaim_candidates(d, ctx, payload)
  BY <1>1 DEF read_reclaim_candidates
<1>4. disable_rows(v, ctx, "query", payload.users) = disable_rows(d, ctx, "query", payload.users)
  BY <1>1, <1>2 DEF disable_rows
<1> QED
  BY <1>3, <1>4

\* An assignment in sight is classified alike.
LEMMA SameAssignment ==
    ASSUME NEW d, Directory(d), NEW ctx, NEW v, v = Visible(d, ctx), NEW payload, NEW now,
           NEW a \in DOMAIN d.assignments, sees_department(ctx, d.assignments[a].dept)
    PROVE  /\ v.assignments[a] = d.assignments[a]
           /\ classify_assignment(v, ctx, payload, a, now)
                = classify_assignment(d, ctx, payload, a, now)
<1>1. PICK row : row = d.assignments[a]
  OBVIOUS
<1>2. /\ DOMAIN v.users = {u \in DOMAIN d.users : sees_department(ctx, d.users[u].dept)}
      /\ v.assignments[a] = row
  BY <1>1, VisibleRows
<1>3. \A u \in DOMAIN v.users :
          v.users[u].dept = d.users[u].dept /\ v.users[u].type = d.users[u].type
  BY SameUsers
<1>4. user_joined(v, ctx, a) <=> user_joined(d, ctx, a)
  BY <1>1, <1>2, <1>3 DEF user_joined
<1>5. user_joined(d, ctx, a) => /\ v.users[row.user].dept = d.users[row.user].dept
                                /\ v.users[row.user].type = d.users[row.user].type
  BY <1>1, <1>2, <1>3 DEF user_joined
<1>6. structural_error(v, ctx, a) <=> structural_error(d, ctx, a)
  BY <1>1, <1>2, <1>4, <1>5 DEF structural_error
<1>7. ~ structural_error(d, ctx, a) => v.users[row.user].type = d.users[row.user].type
  BY <1>5 DEF structural_error
<1> QED
  BY <1>1, <1>2, <1>6, <1>7 DEF classify_assignment

\* So the handlers' verdicts are the same.
LEMMA SameVerdicts ==
    ASSUME NEW d, Directory(d), NEW ctx, NEW v, v = Visible(d, ctx), NEW payload, NEW now
    PROVE  build_preview(v, ctx, payload, now) = build_preview(d, ctx, payload, now)
<1>1. CASE payload.type = RECLAIM
  <2>1. PICK rows : /\ rows = read_reclaim_candidates(d, ctx, payload)
                    /\ rows = read_reclaim_candidates(v, ctx, payload)
    BY SameRows
  <2>2. \A a \in rows : a \in DOMAIN d.assignments /\ sees_department(ctx, d.assignments[a].dept)
    BY <2>1 DEF read_reclaim_candidates
  <2>3. \A a \in rows : classify_assignment(v, ctx, payload, a, now)
                          = classify_assignment(d, ctx, payload, a, now)
    BY <2>2, SameAssignment
  <2> QED
    BY <1>1, <2>1, <2>3 DEF build_preview, reclaim_preview
<1>2. CASE payload.type # RECLAIM
  <2>1. PICK rows : /\ rows = disable_rows(d, ctx, "query", payload.users)
                    /\ rows = disable_rows(v, ctx, "query", payload.users)
    BY SameRows
  <2>2. \A u \in rows : u \in DOMAIN d.users /\ sees_department(ctx, d.users[u].dept)
    BY <2>1 DEF disable_rows
  <2>3. \A u \in rows : disable_candidate(v, ctx, "query", u) = disable_candidate(d, ctx, "query", u)
    BY <2>2, SameCandidate
  <2>4. \A u \in rows : classify_user(v, ctx, payload, u, now)
                          = classify_user(d, ctx, payload, u, now)
    BY <2>3 DEF classify_user
  <2> QED
    BY <1>2, <2>1, <2>4 DEF build_preview, disable_preview
<1> QED
  BY <1>1, <1>2

\* The rows of the verdicts are in sight, so what is stored of them is the same.
LEMMA SameDetails ==
    ASSUME NEW d, Directory(d), NEW ctx, NEW v, v = Visible(d, ctx), NEW payload, NEW now,
           NEW verdict, verdict = build_preview(d, ctx, payload, now)
    PROVE  /\ missing_records(v, ctx, payload, DOMAIN verdict)
                = missing_records(d, ctx, payload, DOMAIN verdict)
           /\ Details(v, payload, verdict, now) = Details(d, payload, verdict, now)
<1>1. /\ DOMAIN v.users = {u \in DOMAIN d.users : sees_department(ctx, d.users[u].dept)}
      /\ DOMAIN v.assignments
           = {a \in DOMAIN d.assignments : sees_department(ctx, d.assignments[a].dept)}
      /\ \A a \in DOMAIN v.assignments : v.assignments[a] = d.assignments[a]
  BY VisibleRows
<1>2. \A u \in DOMAIN v.users : v.users[u].dept = d.users[u].dept
  BY SameUsers
<1>3. CASE payload.type = RECLAIM
  <2>1. \A a \in DOMAIN verdict : v.assignments[a] = d.assignments[a]
    BY <1>1, <1>3 DEF build_preview, reclaim_preview, read_reclaim_candidates
  <2>2. missing_selectors(v, ctx, payload, DOMAIN verdict)
          = missing_selectors(d, ctx, payload, DOMAIN verdict)
    BY <1>3, <2>1 DEF missing_selectors
  <2>3. \A a \in Targets(verdict) : reclaim_record(v, a, now) = reclaim_record(d, a, now)
    BY <2>1 DEF Targets, reclaim_record
  <2>4. Details(v, payload, verdict, now) = Details(d, payload, verdict, now)
    BY <1>3, <2>3 DEF Details
  <2> QED
    BY <2>2, <2>4 DEF missing_records
<1>4. CASE payload.type # RECLAIM
  <2>1. \A u \in DOMAIN verdict : v.users[u].dept = d.users[u].dept
    BY <1>1, <1>2, <1>4 DEF build_preview, disable_preview, disable_rows
  <2>2. missing_selectors(v, ctx, payload, DOMAIN verdict)
          = missing_selectors(d, ctx, payload, DOMAIN verdict)
    BY <1>4 DEF missing_selectors
  <2>3. \A u \in Targets(verdict) : disable_record(v, u) = disable_record(d, u)
    BY <2>1 DEF Targets, disable_record
  <2>4. Details(v, payload, verdict, now) = Details(d, payload, verdict, now)
    BY <1>4, <2>3 DEF Details
  <2> QED
    BY <2>2, <2>4 DEF missing_records
<1> QED
  BY <1>3, <1>4

\* For every directory, payload and requester: a preview is the preview of the
\* directory without the rows and facts that row-level security hides from the
\* requester (create_preview, build_preview of both handlers).
THEOREM HiddenRowsHidden == Spec => []HiddenRowsLeaveNoTrace
<1>1. ASSUME DirectoryInv PROVE HiddenRowsLeaveNoTrace
  <2>1. SUFFICES ASSUME NEW ctx \in RequesterContexts, NEW p \in Payloads
                 PROVE  Preview(db, ctx, p, clock) = Preview(Visible(db, ctx), ctx, p, clock)
    BY DEF HiddenRowsLeaveNoTrace
  <2>2. PICK v : v = Visible(db, ctx)
    OBVIOUS
  <2>3. PICK verdict : verdict = build_preview(db, ctx, p, clock)
    OBVIOUS
  <2>4. verdict = build_preview(v, ctx, p, clock)
    BY <1>1, <2>2, <2>3, SameVerdicts DEF DirectoryInv
  <2>5. /\ missing_records(v, ctx, p, DOMAIN verdict) = missing_records(db, ctx, p, DOMAIN verdict)
        /\ Details(v, p, verdict, clock) = Details(db, p, verdict, clock)
    BY <1>1, <2>2, <2>3, SameDetails DEF DirectoryInv
  <2> QED
    BY ZenonT(60), <2>2, <2>3, <2>4, <2>5, PreviewAssembled
<1>2. Init => DirectoryInv
  BY ShapeInit
<1>3. DirectoryInv /\ [Next]_vars => DirectoryInv'
  BY DirectoryNext
<1> QED
  BY <1>1, <1>2, <1>3, PTL DEF Spec
=============================================================================
