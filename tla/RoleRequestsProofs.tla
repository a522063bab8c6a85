-------------------------- MODULE RoleRequestsProofs --------------------------
(***************************************************************************)
(* Machine-checked proofs about RoleRequests, for every number of workers, *)
(* users, requests and departments.                                        *)
(***************************************************************************)
EXTENDS RoleRequests, FiniteSetTheorems, TLAPS

-----------------------------------------------------------------------------
(* The inductive invariant                                                 *)

RequestRow ==
    [status : {"none", "pending", "approved", "rejected"},
     requester : Users \cup {NoUser}, role : Role, scope : Scopes \cup {NoScope},
     key : Scopes \cup {NoScope}, by : Users \cup {NoUser}]

Handler ==
    [pc : {"idle", "queued", "locked", "writing"},
     kind : {"none", "create", "approve", "reject"}, user : Users \cup {NoUser},
     req : Requests \cup {"none"}, role : Role, scope : Scopes \cup {NoScope}]

RowLock == Users \X {RequesterLock}

\* Every variable has its type.
RoleTypeOK ==
    /\ request \in [Requests -> RequestRow]
    /\ user \in [Users -> AppUser]
    /\ scopes \subseteq Scopes
    /\ audit \in [Requests -> Nat]
    /\ held \in [Workers -> SUBSET RowLock]
    /\ session \in [Workers -> Handler]
    /\ changes \in Nat

\* A handler between its first statement and its commit
Holding(w) == session[w].pc \in {"locked", "writing"}

\* What a handler is about is there and stays there.
WellFormed(w) ==
    LET s == session[w]
    IN  s.pc # "idle" =>
          /\ s.user \in Users
          /\ \/ s.kind = "create" /\ s.role \in ROLE_UPGRADE_TARGETS
             \/ /\ s.kind \in {"approve", "reject"} /\ s.req \in Requests
                /\ request[s.req].status # "none"

\* A handler holds its requester's row, and nothing else, from its first
\* statement to its commit.
HoldsSubject(w) == held[w] = IF Holding(w) THEN {<<Subject(w), RequesterLock>>} ELSE {}

\* What a handler has checked under the lock still holds when it writes.
CheckedStillHolds(w) ==
    LET s == session[w]
        q == request[s.req]
    IN  s.pc = "writing" =>
          /\ s.kind = "create" => PendingOf(s.user) = {} /\ ValidScope(s.scope, s.role)
          /\ s.kind # "create" => q.status = "pending"
          /\ s.kind = "approve" =>
                /\ user[q.requester].active
                /\ _is_upward_role_request(user[q.requester].role, q.role)
                /\ s.scope = IF q.role = "admin" THEN Global ELSE q.key

\* The row of a request that was made
RequestSound(r) ==
    LET q == request[r]
    IN  /\ q.status # "none" => q.requester \in Users /\ q.role \in ROLE_UPGRADE_TARGETS
        /\ q.status = "pending" /\ q.role # "admin" => q.key \in Departments
        /\ audit[r] = IF q.status \in {"approved", "rejected"} THEN 1 ELSE 0

\* Two handlers under way are about different users.
SubjectsDiffer ==
    \A w, v \in Workers : w # v /\ Holding(w) /\ Holding(v) => Subject(w) # Subject(v)

RoleInv ==
    /\ RoleTypeOK
    /\ \A r \in Requests : RequestSound(r)
    /\ \A w \in Workers : WellFormed(w) /\ HoldsSubject(w) /\ CheckedStillHolds(w)
    /\ SubjectsDiffer
    /\ OnePending

-----------------------------------------------------------------------------
(* Constants                                                               *)

\* Departments are numbered from one, the global scope comes after them and
\* "no scope" before them.
LEMMA ScopeFacts ==
    /\ Global \in Scopes /\ NoScope \notin Scopes /\ Departments \subseteq Scopes
    /\ Global \notin Departments /\ NoScope # Global
<1>1. Cardinality(Departments) \in Nat
  BY RoleAssumption, FS_CardinalityType
<1> QED
  BY <1>1, RoleAssumption DEF Global, Scopes, NoScope

\* A scope that is valid for a role is a scope, or none.
LEMMA ValidScopeType ==
    ASSUME NEW s, NEW role, ValidScope(s, role)
    PROVE  s \in Scopes \cup {NoScope}
BY ScopeFacts DEF ValidScope

\* A worker without a request is well typed, and so is a request not made yet.
LEMMA IdleType == Idle \in Handler /\ Idle.pc = "idle"
BY DEF Idle, Handler, Role

\* A row that does not exist has the fields of one.
LEMMA NoRequestType == NoRequest \in RequestRow /\ NoRequest.status = "none"
BY DEF NoRequest, RequestRow, Role

-----------------------------------------------------------------------------
(* The initial state                                                       *)

\* Nobody has asked for anything.
LEMMA RoleInvInit == Init => RoleInv
<1> SUFFICES ASSUME Init PROVE RoleInv
  OBVIOUS
<1> USE DEF Init
<1>1. RoleTypeOK
  BY IdleType, NoRequestType, RoleAssumption DEF RoleTypeOK
<1>2. \A r \in Requests : RequestSound(r)
  BY NoRequestType DEF RequestSound
<1>3. \A w \in Workers : WellFormed(w) /\ HoldsSubject(w) /\ CheckedStillHolds(w)
  BY IdleType DEF WellFormed, HoldsSubject, CheckedStillHolds, Holding
<1>4. SubjectsDiffer
  BY IdleType DEF SubjectsDiffer, Holding
<1>5. OnePending
  BY NoRequestType DEF OnePending
<1> QED
  BY <1>1, <1>2, <1>3, <1>4, <1>5 DEF RoleInv

-----------------------------------------------------------------------------
(* Steps that leave the tables alone                                       *)

\* The part of the invariant about the workers and what it says of one worker
Sound(w) == WellFormed(w) /\ HoldsSubject(w) /\ CheckedStillHolds(w)

\* A worker that is not the one that moves keeps what it has, as long as the
\* requests and the users stay.
LEMMA Bystander ==
    ASSUME RoleInv, NEW v \in Workers, session'[v] = session[v], held'[v] = held[v],
           request' = request, user' = user
    PROVE  Sound(v)' /\ Subject(v)' = Subject(v) /\ Holding(v)' = Holding(v)
BY SMTT(30) DEF RoleInv, Sound, WellFormed, HoldsSubject, CheckedStillHolds, Subject, Holding,
       PendingOf, RoleTypeOK

\* Only the session and the locks of one worker change: what has to be shown
\* is about that worker.
LEMMA LocalStep ==
    ASSUME RoleInv, NEW w \in Workers,
           UNCHANGED <<request, user, scopes, audit, changes>>,
           session' \in [Workers -> Handler], held' \in [Workers -> SUBSET RowLock],
           \A v \in Workers \ {w} : session'[v] = session[v] /\ held'[v] = held[v],
           WellFormed(w)', HoldsSubject(w)', CheckedStillHolds(w)',
           \A v \in Workers \ {w} :
               Holding(w)' /\ Holding(v) => Subject(w)' # Subject(v)
    PROVE  RoleInv'
<1>1. RoleTypeOK'
  BY DEF RoleInv, RoleTypeOK
<1>2. \A r \in Requests : RequestSound(r)'
  BY DEF RoleInv, RequestSound
<1>3. \A v \in Workers \ {w} :
          Sound(v)' /\ Subject(v)' = Subject(v) /\ Holding(v)' = Holding(v)
  BY Bystander
<1>4. \A v \in Workers : Sound(v)'
  BY <1>3 DEF Sound
<1>5. SubjectsDiffer'
  <2> SUFFICES ASSUME NEW x \in Workers, NEW y \in Workers, x # y,
                      Holding(x)', Holding(y)'
               PROVE  Subject(x)' # Subject(y)'
    BY DEF SubjectsDiffer
  <2>1. CASE x = w
    BY <2>1, <1>3
  <2>2. CASE y = w
    BY <2>2, <1>3
  <2>3. CASE x # w /\ y # w
    BY <2>3, <1>3 DEF RoleInv, SubjectsDiffer
  <2> QED BY <2>1, <2>2, <2>3
<1>6. OnePending'
  BY DEF RoleInv, OnePending
<1> QED
  BY <1>1, <1>2, <1>4, <1>5, <1>6 DEF RoleInv, Sound

\* A transaction that wrote nothing ends.
LEMMA NoWriteInv ==
    ASSUME RoleInv, NEW w \in Workers, NoWrite(w)
    PROVE  RoleInv'
<1>1. /\ session' \in [Workers -> Handler] /\ held' \in [Workers -> SUBSET RowLock]
      /\ \A v \in Workers \ {w} : session'[v] = session[v] /\ held'[v] = held[v]
      /\ session'[w] = Idle /\ held'[w] = {}
  BY IdleType DEF NoWrite, EndTransaction, Continue, RoleInv, RoleTypeOK
<1>2. /\ ~ Holding(w)' /\ WellFormed(w)' /\ HoldsSubject(w)' /\ CheckedStillHolds(w)'
      /\ UNCHANGED <<request, user, scopes, audit, changes>>
  BY <1>1, IdleType DEF Holding, WellFormed, HoldsSubject, CheckedStillHolds, NoWrite
<1> QED
  BY <1>1, <1>2, LocalStep

\* A handler begins: it is in the queue and holds nothing.
LEMMA StartInv ==
    ASSUME RoleInv, NEW w \in Workers, Begin(w)
    PROVE  RoleInv'
<1>1. /\ UNCHANGED <<request, user, scopes, audit, held, changes>>
      /\ session[w] = Idle
  BY DEF Begin, StartCreate, StartDecision
<1>2. held[w] = {}
  BY <1>1, IdleType DEF RoleInv, HoldsSubject, Holding
<1>3. /\ session' \in [Workers -> Handler]
      /\ \A v \in Workers \ {w} : session'[v] = session[v]
      /\ session'[w].pc = "queued" /\ WellFormed(w)'
  <2>1. ASSUME NEW a \in Asks, StartCreate(w, a[1], a[2], a[3])
        PROVE  <1>3
    <3>1. a[1] \in Users /\ a[2] \in ROLE_UPGRADE_TARGETS /\ a[3] \in Scopes \cup {NoScope}
      BY RoleAssumption
    <3> QED
      BY <2>1, <3>1, <1>1 DEF StartCreate, Continue, RoleInv, RoleTypeOK, Handler, Idle,
                        Role, ROLE_UPGRADE_TARGETS, WellFormed
  <2>2. ASSUME NEW u \in Users, NEW r \in Requests, NEW k \in {"approve", "reject"},
               StartDecision(w, k, u, r)
        PROVE  <1>3
    BY <2>2, <1>1 DEF StartDecision, Continue, RoleInv, RoleTypeOK, Handler, Idle, Role,
                      WellFormed
  <2> QED BY <2>1, <2>2 DEF Begin
<1>4. ~ Holding(w)' /\ HoldsSubject(w)' /\ CheckedStillHolds(w)'
  BY <1>1, <1>2, <1>3 DEF Holding, HoldsSubject, CheckedStillHolds
<1>5. held' \in [Workers -> SUBSET RowLock] /\ held' = held
  BY <1>1 DEF RoleInv, RoleTypeOK
<1> QED
  BY <1>1, <1>3, <1>4, <1>5, LocalStep

\* The requester's row is locked: nobody else holds it.
LEMMA LockRequesterInv ==
    ASSUME RoleInv, NEW w \in Workers, LockRequester(w)
    PROVE  RoleInv'
<1> DEFINE u == Subject(w)
<1>1. session[w].pc = "queued" /\ WellFormed(w) /\ held[w] = {} /\ session[w] \in Handler
  BY DEF LockRequester, RoleInv, RoleTypeOK, HoldsSubject, Holding
<1>2. u \in Users
  BY <1>1 DEF WellFormed, Subject, RoleInv, RequestSound
<1>3. /\ session' \in [Workers -> Handler]
      /\ \A v \in Workers \ {w} : session'[v] = session[v] /\ held'[v] = held[v]
      /\ session'[w] = [session[w] EXCEPT !.pc = "locked"]
      /\ held'[w] = {<<u, RequesterLock>>}
      /\ UNCHANGED <<request, user, scopes, audit, changes>>
  BY <1>1 DEF LockRequester, Continue, RoleInv, RoleTypeOK, Handler
<1>4. held' \in [Workers -> SUBSET RowLock]
  <2>1. {<<u, RequesterLock>>} \in SUBSET RowLock
    BY <1>2 DEF RowLock
  <2> HIDE DEF u
  <2>2. held' = [held EXCEPT ![w] = {<<u, RequesterLock>>}]
    BY <1>1 DEF LockRequester, u
  <2> QED BY <2>1, <2>2 DEF RoleInv, RoleTypeOK
<1>5. Subject(w)' = u
  BY <1>1, <1>3 DEF Subject, Handler
<1>6. Holding(w)' /\ WellFormed(w)' /\ CheckedStillHolds(w)'
  BY <1>1, <1>3 DEF Holding, WellFormed, CheckedStillHolds, Handler
<1>7. HoldsSubject(w)'
  BY <1>3, <1>5, <1>6 DEF HoldsSubject
<1>8. ASSUME NEW v \in Workers \ {w}, Holding(v)
      PROVE  u # Subject(v)
  <2>1. <<Subject(v), RequesterLock>> \in held[v]
    BY <1>8 DEF RoleInv, HoldsSubject
  <2>2. \A q \in held[v] : q[1] = u => ~ Conflict(RequesterLock, q[2])
    BY DEF LockRequester, Grantable
  <2>3. Conflict(RequesterLock, RequesterLock)
    BY DEF Conflict, RequesterLock
  <2> QED BY <2>1, <2>2, <2>3
<1> QED
  BY <1>3, <1>4, <1>5, <1>6, <1>7, <1>8, LocalStep

\* A handler that stays under its lock while it checks
LEMMA CheckStep ==
    ASSUME RoleInv, NEW w \in Workers, NEW c \in Scopes \cup {NoScope},
           session[w].pc = "locked",
           session' = [session EXCEPT ![w] = [session[w] EXCEPT !.pc = "writing", !.scope = c]],
           UNCHANGED <<request, user, scopes, audit, held, changes>>,
           CheckedStillHolds(w)'
    PROVE  RoleInv'
<1>1. /\ session' \in [Workers -> Handler] /\ held' \in [Workers -> SUBSET RowLock]
      /\ \A v \in Workers \ {w} : session'[v] = session[v] /\ held'[v] = held[v]
      /\ session'[w] = [session[w] EXCEPT !.pc = "writing", !.scope = c]
      /\ session[w] \in Handler
  BY ZenonT(60) DEF RoleInv, RoleTypeOK, Handler
<1>2. Holding(w) /\ Holding(w)' /\ Subject(w)' = Subject(w)
  BY <1>1 DEF Holding, Subject, Handler
<1>3. WellFormed(w)'
  BY <1>1 DEF RoleInv, WellFormed, Handler
<1>4. HoldsSubject(w)'
  BY <1>1, <1>2 DEF RoleInv, HoldsSubject
<1>5. \A v \in Workers \ {w} : Holding(v) => Subject(w)' # Subject(v)
  BY <1>2 DEF RoleInv, SubjectsDiffer
<1> QED
  BY <1>1, <1>3, <1>4, <1>5, LocalStep

\* A handler that creates has found, under the requester's lock, no pending request
\* of the user, and a scope that fits.
LEMMA CreateCheckInv ==
    ASSUME RoleInv, NEW w \in Workers, CreateCheck(w)
    PROVE  RoleInv'
<1> DEFINE s == session[w]
           c == RequestedScope(s.user, s.role, s.scope)
<1>1. ValidScope(c, s.role) /\ PendingOf(s.user) = {} /\ s.kind = "create" /\ s \in Handler
  BY DEF CreateCheck, Creatable, RoleInv, RoleTypeOK
<1>2. c \in Scopes \cup {NoScope}
  BY <1>1, ValidScopeType
<1>3. /\ session[w].pc = "locked"
      /\ session' = [session EXCEPT ![w] = [session[w] EXCEPT !.pc = "writing", !.scope = c]]
      /\ UNCHANGED <<request, user, scopes, audit, held, changes>>
  BY DEF CreateCheck, Continue
<1> HIDE DEF c
<1>4. session'[w] = [session[w] EXCEPT !.pc = "writing", !.scope = c]
  BY <1>3 DEF RoleInv, RoleTypeOK
<1>5. CheckedStillHolds(w)'
  BY <1>1, <1>3, <1>4 DEF CheckedStillHolds, Handler, PendingOf
<1> QED
  BY <1>2, <1>3, <1>5, CheckStep

\* A handler that decides has found, under the requester's lock, the request pending.
LEMMA DecideCheckInv ==
    ASSUME RoleInv, NEW w \in Workers, DecideCheck(w)
    PROVE  RoleInv'
<1> DEFINE s == session[w]
           r == s.req
           q == request[r]
           c == IF s.kind = "approve" THEN _scope_for_approval(r) ELSE NoScope
<1>1. /\ s.kind \in {"approve", "reject"} /\ s \in Handler /\ s.pc = "locked"
      /\ q.status = "pending" /\ r \in Requests
      /\ s.kind = "approve" => StillValid(r)
  BY DEF DecideCheck, Processable, RoleInv, RoleTypeOK, WellFormed
<1>2. s.kind = "approve" =>
          /\ c = IF q.role = "admin" THEN Global ELSE q.key
          /\ c \in Scopes
  <2> SUFFICES ASSUME s.kind = "approve"
               PROVE  c = (IF q.role = "admin" THEN Global ELSE q.key) /\ c \in Scopes
    OBVIOUS
  <2>1. c # NoScope /\ ValidScope(c, q.role) /\ c = _scope_for_approval(r)
        /\ q.key = (IF q.scope = NoScope THEN NoScope ELSE c)
    BY <1>1 DEF StillValid
  <2>2. c \in Scopes
    BY <2>1, ValidScopeType
  <2>3. CASE q.role = "admin"
    BY <2>1, <2>2, <2>3 DEF _scope_for_approval
  <2>4. CASE q.role # "admin"
    <3>1. q.key \in Departments
      BY <1>1, <2>4 DEF RoleInv, RequestSound
    <3> QED BY <3>1, <2>1, <2>2, <2>4, ScopeFacts
  <2> QED BY <2>3, <2>4
<1>3. c \in Scopes \cup {NoScope}
  BY <1>2
<1>4. /\ session' = [session EXCEPT ![w] = [session[w] EXCEPT !.pc = "writing", !.scope = c]]
      /\ UNCHANGED <<request, user, scopes, audit, held, changes>>
  BY DEF DecideCheck, Continue
<1> HIDE DEF c
<1>5. session'[w] = [session[w] EXCEPT !.pc = "writing", !.scope = c]
  BY <1>4 DEF RoleInv, RoleTypeOK
<1>6. CheckedStillHolds(w)'
  BY SMTT(30), <1>1, <1>2, <1>4, <1>5 DEF CheckedStillHolds, Handler, StillValid
<1> QED
  BY <1>1, <1>3, <1>4, <1>6, CheckStep

-----------------------------------------------------------------------------
(* Commits                                                                 *)

\* A commit ends the transaction of its worker; the invariant follows if the
\* tables are sound and nobody else's request or user was touched.
LEMMA CommitStep ==
    ASSUME RoleInv, NEW w \in Workers, EndTransaction(w), changes' = changes,
           request' \in [Requests -> RequestRow], user' \in [Users -> AppUser],
           scopes' = scopes, audit' \in [Requests -> Nat],
           \A r \in Requests : RequestSound(r)', OnePending',
           \A v \in Workers \ {w} : session[v].pc # "idle" =>
               WellFormed(v)' /\ CheckedStillHolds(v)' /\ Subject(v)' = Subject(v)
    PROVE  RoleInv'
<1>1. /\ session' \in [Workers -> Handler] /\ held' \in [Workers -> SUBSET RowLock]
      /\ \A v \in Workers \ {w} : session'[v] = session[v] /\ held'[v] = held[v]
      /\ session'[w] = Idle /\ held'[w] = {}
  BY IdleType DEF EndTransaction, Continue, RoleInv, RoleTypeOK
<1>2. RoleTypeOK'
  BY <1>1 DEF RoleInv, RoleTypeOK
<1>3. WellFormed(w)' /\ HoldsSubject(w)' /\ CheckedStillHolds(w)' /\ ~ Holding(w)'
  BY <1>1, IdleType DEF WellFormed, HoldsSubject, CheckedStillHolds, Holding
<1>4. \A v \in Workers \ {w} :
          /\ WellFormed(v)' /\ HoldsSubject(v)' /\ CheckedStillHolds(v)'
          /\ Holding(v)' = Holding(v) /\ (Holding(v) => Subject(v)' = Subject(v))
  <2> SUFFICES ASSUME NEW v \in Workers \ {w}
               PROVE  /\ WellFormed(v)' /\ HoldsSubject(v)' /\ CheckedStillHolds(v)'
                      /\ Holding(v)' = Holding(v) /\ (Holding(v) => Subject(v)' = Subject(v))
    OBVIOUS
  <2>1. Holding(v)' = Holding(v) /\ (Holding(v) => session[v].pc # "idle")
    BY <1>1 DEF Holding
  <2>2. CASE session[v].pc = "idle"
    BY <1>1, <2>1, <2>2 DEF WellFormed, CheckedStillHolds, HoldsSubject, RoleInv
  <2>3. CASE session[v].pc # "idle"
    BY <1>1, <2>1, <2>3 DEF HoldsSubject, RoleInv
  <2> QED BY <2>2, <2>3
<1>5. SubjectsDiffer'
  BY <1>3, <1>4 DEF RoleInv, SubjectsDiffer
<1> QED
  BY <1>2, <1>3, <1>4, <1>5 DEF RoleInv

\* A request is created.
LEMMA CreateCommitInv ==
    ASSUME RoleInv, NEW w \in Workers, CreateCommit(w)
    PROVE  RoleInv'
<1> DEFINE s == session[w]
<1>1. /\ s.pc = "writing" /\ s.kind = "create" /\ s \in Handler /\ s.user \in Users
      /\ s.role \in ROLE_UPGRADE_TARGETS /\ PendingOf(s.user) = {}
      /\ ValidScope(s.scope, s.role)
  BY DEF CreateCommit, RoleInv, RoleTypeOK, WellFormed, CheckedStillHolds
<1>2. PICK r \in Requests :
          /\ request[r].status = "none"
          /\ request' = [request EXCEPT ![r] =
                [status |-> "pending", requester |-> s.user, role |-> s.role,
                 scope |-> s.scope, key |-> s.scope, by |-> NoUser]]
  BY DEF CreateCommit
<1>3. /\ EndTransaction(w) /\ UNCHANGED <<user, scopes, audit, changes>>
  BY DEF CreateCommit
<1>4. request \in [Requests -> RequestRow]
  BY DEF RoleInv, RoleTypeOK
<1>5. request' \in [Requests -> RequestRow]
  BY <1>1, <1>2, <1>4 DEF RequestRow, Handler
<1>6. \A q \in Requests \ {r} : request'[q] = request[q]
  BY <1>2, <1>4
<1>7. /\ request'[r].status = "pending" /\ request'[r].requester = s.user
      /\ request'[r].role = s.role /\ request'[r].key = s.scope
  BY <1>2, <1>4
<1>8. \A q \in Requests : RequestSound(q)'
  <2>1. \A q \in Requests \ {r} : RequestSound(q)'
    BY <1>3, <1>6 DEF RoleInv, RequestSound
  <2>2. RequestSound(r)'
    BY <1>1, <1>2, <1>3, <1>7 DEF RoleInv, RequestSound, ValidScope
  <2> QED BY <2>1, <2>2
<1>9. OnePending'
  <2>1. \A q \in Requests \ {r} : request[q].status = "pending" => request[q].requester # s.user
    BY <1>1 DEF PendingOf
  <2> QED BY <2>1, <1>6, <1>7 DEF RoleInv, OnePending
<1>10. ASSUME NEW v \in Workers \ {w}, session[v].pc # "idle"
       PROVE  WellFormed(v)' /\ CheckedStillHolds(v)' /\ Subject(v)' = Subject(v)
  <2>1. session'[v] = session[v] /\ session[v] \in Handler /\ WellFormed(v) /\ CheckedStillHolds(v)
    BY <1>3 DEF EndTransaction, Continue, RoleInv, RoleTypeOK
  <2>2. session[v].kind # "create" =>
            session[v].req \in Requests \ {r} /\ request'[session[v].req] = request[session[v].req]
    BY <1>2, <1>6, <1>10, <2>1 DEF WellFormed
  <2>3. WellFormed(v)' /\ Subject(v)' = Subject(v)
    BY <2>1, <2>2, <1>10 DEF WellFormed, Subject
  <2>4. CASE session[v].kind = "create" /\ session[v].pc = "writing"
    <3>1. Subject(v) # Subject(w)
      BY <1>1, <2>4 DEF RoleInv, SubjectsDiffer, Holding
    <3>2. session[v].user # s.user
      BY <3>1, <1>1, <2>4 DEF Subject
    <3>3. PendingOf(session[v].user)' = {}
      BY <3>2, <1>6, <1>7, <2>1, <2>4 DEF PendingOf, CheckedStillHolds
    <3> QED BY <3>3, <2>1, <2>3, <2>4 DEF CheckedStillHolds
  <2>5. CASE session[v].kind # "create" \/ session[v].pc # "writing"
    BY <2>1, <2>2, <2>3, <2>5, <1>3 DEF CheckedStillHolds
  <2> QED BY <2>4, <2>5
<1> HIDE DEF s
<1> QED
  BY <1>3, <1>5, <1>8, <1>9, <1>10, CommitStep DEF RoleInv, RoleTypeOK

\* What the two decisions have in common: the request of the worker gets an
\* outcome and one audit row, and no user but its requester changes.
LEMMA DecisionStep ==
    ASSUME RoleInv, NEW w \in Workers, EndTransaction(w), AuditRow(w),
           session[w].pc = "writing", session[w].kind \in {"approve", "reject"},
           UNCHANGED <<scopes, changes>>,
           request' \in [Requests -> RequestRow], user' \in [Users -> AppUser],
           \A q \in Requests \ {session[w].req} : request'[q] = request[q],
           request'[session[w].req].status \in {"approved", "rejected"},
           request'[session[w].req].requester = request[session[w].req].requester,
           request'[session[w].req].role = request[session[w].req].role,
           \A u \in Users \ {request[session[w].req].requester} : user'[u] = user[u]
    PROVE  RoleInv'
<1>1. PICK r \in Requests :
          /\ r = session[w].req /\ request[r].status = "pending"
          /\ Subject(w) = request[r].requester
  BY DEF RoleInv, WellFormed, CheckedStillHolds, Subject
<1>2. /\ audit' \in [Requests -> Nat] /\ audit'[r] = audit[r] + 1
      /\ \A q \in Requests \ {r} : audit'[q] = audit[q]
  BY <1>1 DEF AuditRow, RoleInv, RoleTypeOK
<1>3. \A q \in Requests : RequestSound(q)'
  <2>1. \A q \in Requests \ {r} : RequestSound(q)'
    BY <1>1, <1>2 DEF RoleInv, RequestSound
  <2>2. RequestSound(r)'
    BY <1>1, <1>2 DEF RoleInv, RequestSound
  <2> QED BY <2>1, <2>2
<1>4. OnePending'
  BY <1>1 DEF RoleInv, OnePending
<1>5. ASSUME NEW v \in Workers \ {w}, session[v].pc # "idle"
      PROVE  WellFormed(v)' /\ CheckedStillHolds(v)' /\ Subject(v)' = Subject(v)
  <2>1. session'[v] = session[v] /\ session[v] \in Handler /\ WellFormed(v) /\ CheckedStillHolds(v)
    BY DEF EndTransaction, Continue, RoleInv, RoleTypeOK
  <2>2. WellFormed(v)' /\ Subject(v)' = Subject(v)
    BY <1>1, <1>5, <2>1 DEF WellFormed, Subject
  <2>3. CASE session[v].pc # "writing"
    BY <2>1, <2>2, <2>3 DEF CheckedStillHolds
  <2>4. CASE session[v].pc = "writing" /\ session[v].kind = "create"
    <3>1. PendingOf(session[v].user)' \subseteq PendingOf(session[v].user)
      BY <1>1, <2>1 DEF PendingOf
    <3> QED BY <3>1, <2>1, <2>2, <2>4 DEF CheckedStillHolds
  <2>5. CASE session[v].pc = "writing" /\ session[v].kind # "create"
    <3> DEFINE q == session[v].req
    <3>1. Subject(v) # Subject(w) /\ Subject(v) = request[q].requester
      <4>1. Holding(v) /\ Holding(w)
        BY <2>5 DEF Holding
      <4> QED BY <4>1, <2>5 DEF RoleInv, SubjectsDiffer, Subject
    <3>2. q \in Requests \ {r} /\ request[q].requester \in Users
      BY <3>1, <1>1, <2>1, <2>5 DEF WellFormed, RoleInv, RequestSound
    <3>3. request'[q] = request[q] /\ user'[request[q].requester] = user[request[q].requester]
      BY <3>1, <3>2, <1>1
    <3> QED BY SMTT(30), <3>3, <2>1, <2>2, <2>5 DEF CheckedStillHolds
  <2> QED BY <2>2, <2>3, <2>4, <2>5
<1> QED
  BY <1>2, <1>3, <1>4, <1>5, CommitStep

\* The row an approval writes
LEMMA ApproveEffect ==
    ASSUME RoleInv, NEW w \in Workers, ApproveCommit(w)
    PROVE  LET r == session[w].req
               u == request[r].requester
           IN  /\ r \in Requests /\ u \in Users
               /\ request' \in [Requests -> RequestRow] /\ user' \in [Users -> AppUser]
               /\ \A q \in Requests \ {r} : request'[q] = request[q]
               /\ request'[r].status = "approved" /\ request'[r].requester = u
               /\ request'[r].role = request[r].role
               /\ \A x \in Users \ {u} : user'[x] = user[x]
               /\ user'[u].role = request[r].role
               /\ user'[u].defaults = {session[w].scope}
               /\ user'[u].level[session[w].scope] = _access_level_for_role(request[r].role)
<1> DEFINE s == session[w]
           r == s.req
           u == request[r].requester
           level == _access_level_for_role(request[r].role)
<1>1. /\ r \in Requests /\ u \in Users /\ request[r] \in RequestRow /\ user[u] \in AppUser
      /\ s \in Handler /\ s.user \in Users
      /\ request \in [Requests -> RequestRow] /\ user \in [Users -> AppUser]
  BY DEF ApproveCommit, RoleInv, RoleTypeOK, WellFormed, RequestSound
<1>2. s.scope \in Scopes /\ level \in {"none", "read", "manage"}
  BY DEF ApproveCommit, RoleInv, RoleTypeOK, _access_level_for_role
<1>3. user' = [user EXCEPT ![u] =
          [_assign_user_scope(@, s.scope, level) EXCEPT !.role = request[r].role]]
  BY DEF ApproveCommit
<1> HIDE DEF level
<1>4. /\ request' \in [Requests -> RequestRow]
      /\ \A q \in Requests \ {r} : request'[q] = request[q]
      /\ request'[r].status = "approved" /\ request'[r].requester = u
      /\ request'[r].role = request[r].role
  <2>1. request' = [request EXCEPT ![r] =
            [request[r] EXCEPT
                !.status = "approved", !.by = s.user,
                !.scope = IF request[r].scope = NoScope THEN s.scope ELSE request[r].scope,
                !.key = IF request[r].scope = NoScope THEN s.scope ELSE request[r].key]]
    BY DEF ApproveCommit
  <2> QED BY <2>1, <1>1, <1>2 DEF RequestRow
<1>5. LET given == _assign_user_scope(user[u], s.scope, level)
      IN  given \in AppUser /\ given.defaults = {s.scope} /\ given.level[s.scope] = level
  BY <1>1, <1>2 DEF _assign_user_scope, AppUser
<1> DEFINE given == _assign_user_scope(user[u], s.scope, level)
<1>6. user' = [user EXCEPT ![u] = [given EXCEPT !.role = request[r].role]]
  BY <1>3
<1>7. /\ user' \in [Users -> AppUser] /\ \A x \in Users \ {u} : user'[x] = user[x]
      /\ user'[u].role = request[r].role
      /\ user'[u].defaults = {s.scope} /\ user'[u].level[s.scope] = level
  <2> HIDE DEF given, u
  <2>1. given \in AppUser /\ given.defaults = {s.scope} /\ given.level[s.scope] = level
    BY <1>5 DEF given, u
  <2>2. request[r].role \in Role /\ u \in Users
    BY <1>1 DEF RequestRow, u
  <2> QED BY <2>1, <2>2, <1>1, <1>6 DEF AppUser
<1> QED
  BY <1>1, <1>4, <1>7 DEF level

\* A request is approved.
LEMMA ApproveCommitInv ==
    ASSUME RoleInv, NEW w \in Workers, ApproveCommit(w)
    PROVE  RoleInv'
<1>1. /\ EndTransaction(w) /\ AuditRow(w) /\ session[w].pc = "writing"
      /\ session[w].kind \in {"approve", "reject"} /\ UNCHANGED <<scopes, changes>>
  BY DEF ApproveCommit
<1> QED
  BY <1>1, ApproveEffect, DecisionStep

\* A request is rejected.
LEMMA RejectCommitInv ==
    ASSUME RoleInv, NEW w \in Workers, RejectCommit(w)
    PROVE  RoleInv'
<1> DEFINE s == session[w]
           r == s.req
<1>1. /\ EndTransaction(w) /\ AuditRow(w) /\ s.pc = "writing"
      /\ s.kind \in {"approve", "reject"} /\ UNCHANGED <<user, scopes, changes>>
  BY DEF RejectCommit
<1>2. /\ r \in Requests /\ s.user \in Users /\ user \in [Users -> AppUser]
      /\ request \in [Requests -> RequestRow]
  BY DEF RejectCommit, RoleInv, RoleTypeOK, WellFormed
<1>3. /\ request' \in [Requests -> RequestRow]
      /\ \A q \in Requests \ {r} : request'[q] = request[q]
      /\ request'[r].status = "rejected" /\ request'[r].requester = request[r].requester
      /\ request'[r].role = request[r].role
  BY ZenonT(60), <1>2 DEF RequestRow, RejectCommit
<1>4. UNCHANGED <<scopes, changes>> /\ user' \in [Users -> AppUser]
      /\ \A u \in Users \ {request[r].requester} : user'[u] = user[u]
  BY <1>1, <1>2
<1> QED
  BY <1>1, <1>3, <1>4, DecisionStep

-----------------------------------------------------------------------------
(* Operators                                                               *)

\* What an approval has checked of a request and its requester, field by field
MayBeGiven(scope, status, active, current, role, key) ==
    /\ status = "pending" /\ active
    /\ _is_upward_role_request(current, role)
    /\ scope = IF role = "admin" THEN Global ELSE key

\* A change by the operators: no request changes in what was asked, and the
\* user a handler under way is about keeps status and role.
LEMMA OperatorStep ==
    ASSUME RoleInv, UNCHANGED <<audit, held, session>>, changes' \in Nat,
           request' \in [Requests -> RequestRow], user' \in [Users -> AppUser],
           scopes' \subseteq Scopes,
           \A r \in Requests : /\ request'[r].status = request[r].status
                               /\ request'[r].requester = request[r].requester
                               /\ request'[r].role = request[r].role
                               /\ request'[r].key = request[r].key,
           \A w \in Workers : Holding(w) =>
               /\ user'[Subject(w)].active = user[Subject(w)].active
               /\ user'[Subject(w)].role = user[Subject(w)].role
    PROVE  RoleInv'
<1>1. RoleTypeOK'
  BY DEF RoleInv, RoleTypeOK
<1>2. \A r \in Requests : RequestSound(r)'
  BY DEF RoleInv, RequestSound
<1>3. OnePending'
  BY DEF RoleInv, OnePending
<1>4. ASSUME NEW w \in Workers
      PROVE  /\ WellFormed(w)' /\ Holding(w)' = Holding(w)
             /\ Holding(w) => Subject(w)' = Subject(w)
  BY DEF RoleInv, WellFormed, Holding, Subject
<1>5. ASSUME NEW w \in Workers
      PROVE  HoldsSubject(w)'
  BY <1>4 DEF RoleInv, HoldsSubject
<1>6. ASSUME NEW w \in Workers
      PROVE  CheckedStillHolds(w)'
  <2>1. WellFormed(w) /\ CheckedStillHolds(w)
    BY DEF RoleInv
  <2>2. PendingOf(session[w].user)' = PendingOf(session[w].user)
    BY DEF PendingOf
  <2>3. CASE session[w].pc = "writing" /\ session[w].kind = "approve"
    <3>1. Holding(w) /\ Subject(w) = request[session[w].req].requester
          /\ session[w].req \in Requests
      BY <2>1, <2>3 DEF Holding, Subject, WellFormed
    <3>2. PICK asked : asked = session[w].req /\ session'[w] = session[w]
      OBVIOUS
    <3>3. /\ request'[asked].status = request[asked].status
          /\ request'[asked].requester = request[asked].requester
          /\ request'[asked].role = request[asked].role
          /\ request'[asked].key = request[asked].key
      BY <3>1, <3>2
    <3>4. PICK of : of = request[asked].requester /\ of = request'[asked].requester
      BY <3>3
    <3>5. user'[of].active = user[of].active /\ user'[of].role = user[of].role
      BY <3>1, <3>2, <3>4
    <3>6. MayBeGiven(session[w].scope, request[asked].status, user[of].active, user[of].role,
                     request[asked].role, request[asked].key)
      BY <2>1, <2>3, <3>2, <3>4 DEF CheckedStillHolds, MayBeGiven
    <3>7. MayBeGiven(session'[w].scope, request'[asked].status, user'[of].active, user'[of].role,
                     request'[asked].role, request'[asked].key)
      BY <3>2, <3>3, <3>5, <3>6
    <3> QED
      BY <2>3, <3>2, <3>4, <3>7 DEF CheckedStillHolds, MayBeGiven
  <2>4. CASE session[w].pc # "writing" \/ session[w].kind # "approve"
    BY <2>1, <2>2, <2>4 DEF CheckedStillHolds, WellFormed
  <2> QED BY <2>3, <2>4
<1>7. SubjectsDiffer'
  BY <1>4 DEF RoleInv, SubjectsDiffer
<1> QED
  BY <1>1, <1>2, <1>3, <1>4, <1>5, <1>6, <1>7 DEF RoleInv

\* The row of a user whom a handler is about is locked.
LEMMA AdministerUserInv ==
    ASSUME RoleInv, NEW u \in Users, AdministerUser(u)
    PROVE  RoleInv'
<1>1. PICK c \in UserChoices[u] :
          user' = [user EXCEPT ![u] = [@ EXCEPT !.active = c.active, !.role = c.role]]
  BY DEF AdministerUser
<1>2. c \in [active : BOOLEAN, role : Role]
  BY RoleAssumption
<1>3. user' \in [Users -> AppUser] /\ \A x \in Users \ {u} : user'[x] = user[x]
  BY ZenonT(60), <1>1, <1>2 DEF RoleInv, RoleTypeOK, AppUser
<1>4. \A w \in Workers : Holding(w) => Subject(w) \in Users \ {u}
  <2> SUFFICES ASSUME NEW w \in Workers, Holding(w)
               PROVE  Subject(w) \in Users \ {u}
    OBVIOUS
  <2>1. <<Subject(w), RequesterLock>> \in held[w] /\ held[w] \in SUBSET RowLock
    BY DEF RoleInv, HoldsSubject, RoleTypeOK
  <2>2. \A q \in held[w] : q[1] # u
    BY DEF AdministerUser
  <2> QED BY <2>1, <2>2 DEF RowLock
<1>5. /\ UNCHANGED <<audit, held, session>> /\ changes' \in Nat /\ request' = request
      /\ scopes' \subseteq Scopes /\ request' \in [Requests -> RequestRow]
  BY DEF AdministerUser, RoleInv, RoleTypeOK
<1>6. \A w \in Workers : Holding(w) => user'[Subject(w)] = user[Subject(w)]
  BY <1>3, <1>4
<1> QED
  BY <1>3, <1>5, <1>6, OperatorStep

\* A grant is neither status nor role.
LEMMA ChangeGrantInv ==
    ASSUME RoleInv, NEW u \in Users, ChangeGrant(u)
    PROVE  RoleInv'
<1>1. PICK e \in Effect : user' = [user EXCEPT ![u] = [@ EXCEPT !.effect = e]]
  BY DEF ChangeGrant
<1>2. /\ user' \in [Users -> AppUser]
      /\ \A x \in Users : user'[x].active = user[x].active /\ user'[x].role = user[x].role
  BY <1>1 DEF RoleInv, RoleTypeOK, AppUser
<1>3. /\ UNCHANGED <<audit, held, session>> /\ changes' \in Nat /\ request' = request
      /\ scopes' \subseteq Scopes /\ request' \in [Requests -> RequestRow]
  BY DEF ChangeGrant, RoleInv, RoleTypeOK
<1>4. \A w \in Workers : Holding(w) => Subject(w) \in Users
  BY DEF RoleInv, RoleTypeOK, WellFormed, Subject, Holding, RequestSound
<1> QED
  BY <1>2, <1>3, <1>4, OperatorStep

\* A scope row that goes takes references to it away, never what was asked.
LEMMA DropScopeInv ==
    ASSUME RoleInv, NEW s \in Scopes, DropScope(s)
    PROVE  RoleInv'
<1>1. /\ request' = [r \in Requests |->
            [request[r] EXCEPT !.scope = IF @ = s THEN NoScope ELSE @]]
  BY DEF DropScope
<1>2. user' = [u \in Users |->
          [user[u] EXCEPT !.level[s] = "none", !.defaults = @ \ {s}]]
  BY DEF DropScope
<1>3. /\ request' \in [Requests -> RequestRow]
      /\ \A r \in Requests : /\ request'[r].status = request[r].status
                             /\ request'[r].requester = request[r].requester
                             /\ request'[r].role = request[r].role
                             /\ request'[r].key = request[r].key
  BY ZenonT(60), <1>1 DEF RoleInv, RoleTypeOK, RequestRow
<1>4. /\ user' \in [Users -> AppUser]
      /\ \A x \in Users : user'[x].active = user[x].active /\ user'[x].role = user[x].role
  <2>1. ASSUME NEW x \in AppUser
        PROVE  LET y == [x EXCEPT !.level[s] = "none", !.defaults = @ \ {s}]
               IN  y \in AppUser /\ y.active = x.active /\ y.role = x.role
    BY DEF AppUser
  <2>2. \A u \in Users : user[u] \in AppUser
    BY DEF RoleInv, RoleTypeOK
  <2>3. ASSUME NEW u \in Users
        PROVE  user'[u] \in AppUser /\ user'[u].active = user[u].active
               /\ user'[u].role = user[u].role
    <3>1. user'[u] = [user[u] EXCEPT !.level[s] = "none", !.defaults = @ \ {s}]
      BY <1>2, Zenon
    <3> QED BY <2>1, <2>2, <3>1, Zenon
  <2>4. user' = [u \in Users |-> user'[u]]
    BY <1>2, Zenon
  <2> QED BY <2>3, <2>4
<1>5. UNCHANGED <<audit, held, session>> /\ changes' \in Nat /\ scopes' \subseteq Scopes
  <2>1. /\ UNCHANGED <<audit, held, session>> /\ changes' = changes + 1
        /\ scopes' = scopes \ {s}
    BY Zenon DEF DropScope
  <2> QED BY <2>1 DEF RoleInv, RoleTypeOK
<1>6. \A w \in Workers : Holding(w) => Subject(w) \in Users
  BY DEF RoleInv, RoleTypeOK, WellFormed, Subject, Holding, RequestSound
<1> QED
  BY <1>3, <1>4, <1>5, <1>6, OperatorStep

-----------------------------------------------------------------------------
(* The invariant                                                           *)

\* Every step keeps the invariant.
LEMMA RoleInvNext == RoleInv /\ [Next]_rvars => RoleInv'
<1> SUFFICES ASSUME RoleInv, [Next]_rvars PROVE RoleInv'
  OBVIOUS
<1>1. CASE UNCHANGED rvars
  BY SMTT(30), <1>1 DEF rvars, RoleInv, RoleTypeOK, RequestSound, WellFormed, HoldsSubject, Holding,
              CheckedStillHolds, SubjectsDiffer, Subject, PendingOf, OnePending
<1>2. ASSUME NEW w \in Workers, Begin(w) PROVE RoleInv'
  BY <1>2, StartInv
<1>3. ASSUME NEW w \in Workers, LockRequester(w) PROVE RoleInv'
  BY <1>3, LockRequesterInv
<1>4. ASSUME NEW w \in Workers, Handle(w) PROVE RoleInv'
  BY <1>4, CreateCheckInv, CreateCommitInv, DecideCheckInv, ApproveCommitInv, RejectCommitInv,
     NoWriteInv DEF Handle, Refuse
<1>5. ASSUME NEW w \in Workers, Crash(w) PROVE RoleInv'
  BY <1>5, NoWriteInv DEF Crash
<1>6. ASSUME NEW u \in Users, AdministerUser(u) \/ ChangeGrant(u) PROVE RoleInv'
  BY <1>6, AdministerUserInv, ChangeGrantInv
<1>7. ASSUME NEW s \in Scopes, DropScope(s) PROVE RoleInv'
  BY <1>7, DropScopeInv
<1> QED
  BY <1>1, <1>2, <1>3, <1>4, <1>5, <1>6, <1>7 DEF Next

\* The invariant holds in every reachable state.
THEOREM RoleInvHolds == Spec => []RoleInv
BY RoleInvInit, RoleInvNext, PTL DEF Spec

\* At most one request of a user is pending, however many creates of that user
\* run at the same time (create_role_request).
THEOREM OnePendingHolds == Spec => []OnePending
<1>1. RoleInv => OnePending
  BY DEF RoleInv
<1> QED BY <1>1, RoleInvHolds, PTL

\* A worker that waits for another is in the queue, and holds nothing: the
\* key-share lock of an audit row conflicts with no lock a handler holds.
LEMMA OnlyQueuedWait ==
    ASSUME RoleInv, NEW w \in Workers, NEW v \in Workers, WaitsFor(w, v)
    PROVE  session[w].pc = "queued" /\ Holding(v)
<1>1. PICK q \in Wants(w), h \in held[v] : q[1] = h[1] /\ Conflict(q[2], h[2])
  BY DEF WaitsFor
<1>2. Holding(v) /\ h[2] = "no_key_update"
  <2>1. HoldsSubject(v) /\ h \in held[v]
    BY <1>1 DEF RoleInv
  <2>2. Holding(v) /\ h = <<Subject(v), RequesterLock>>
    BY <2>1 DEF HoldsSubject, Holding
  <2> QED BY <2>2 DEF RequesterLock
<1>3. q[2] # "key_share"
  BY <1>1, <1>2 DEF Conflict
<1> QED
  BY <1>2, <1>3 DEF Wants

\* Handlers never wait for each other in a circle, whoever decides whose
\* request (models/product.py: the audit row's foreign key; role_requests.py:
\* with_for_update(key_share=True), which is FOR NO KEY UPDATE).
THEOREM NoWaitCycleHolds == Spec => []NoWaitCycle
<1>1. RoleInv => NoWaitCycle
  <2> SUFFICES ASSUME RoleInv, NEW S \in SUBSET Workers, S # {}
               PROVE  \E w \in S : \A v \in S \ {w} : ~ WaitsFor(w, v)
    BY DEF NoWaitCycle
  <2>1. CASE \E w \in S : session[w].pc # "queued"
    BY <2>1, OnlyQueuedWait
  <2>2. CASE \A w \in S : session[w].pc = "queued"
    <3>1. \A v \in S : ~ Holding(v)
      BY <2>2 DEF Holding
    <3> QED BY <3>1, OnlyQueuedWait
  <2> QED BY <2>1, <2>2
<1> QED BY <1>1, RoleInvHolds, PTL

-----------------------------------------------------------------------------
(* Decisions                                                               *)

\* A step that changes the outcome of a request is the commit of a decision
\* about it; every other step leaves status, decider and audit rows.
LEMMA WhoDecides ==
    ASSUME RoleInv, [Next]_rvars, NEW r \in Requests, request[r].status # "none"
    PROVE  \/ /\ request'[r].status = request[r].status
              /\ request'[r].by = request[r].by /\ audit'[r] = audit[r]
           \/ \E w \in Workers :
                 /\ ApproveCommit(w) \/ RejectCommit(w)
                 /\ session[w].req = r /\ request[r].status = "pending"
                 /\ audit'[r] = audit[r] + 1
                 /\ RejectCommit(w) => request'[r].status = "rejected"
<1> DEFINE Same == /\ request'[r].status = request[r].status
                   /\ request'[r].by = request[r].by /\ audit'[r] = audit[r]
<1>1. ASSUME UNCHANGED <<request, audit>> PROVE Same
  BY <1>1
<1>2. ASSUME NEW w \in Workers, CreateCommit(w) PROVE Same
  BY <1>2 DEF CreateCommit, RoleInv, RoleTypeOK
<1>3. ASSUME NEW s \in Scopes, DropScope(s) PROVE Same
  <2>1. request' = [q \in Requests |->
            [request[q] EXCEPT !.scope = IF @ = s THEN NoScope ELSE @]]
        /\ audit' = audit
    BY <1>3, Zenon DEF DropScope
  <2> QED BY <2>1 DEF RoleInv, RoleTypeOK, RequestRow
<1>4. ASSUME NEW w \in Workers, ApproveCommit(w) \/ RejectCommit(w)
      PROVE  \/ Same
             \/ /\ session[w].req = r /\ request[r].status = "pending"
                /\ audit'[r] = audit[r] + 1
                /\ RejectCommit(w) => request'[r].status = "rejected"
  <2> DEFINE q == session[w].req
  <2>1. q \in Requests /\ request[q].status = "pending" /\ AuditRow(w)
    BY <1>4 DEF ApproveCommit, RejectCommit, RoleInv, WellFormed, CheckedStillHolds
  <2>2. audit' = [audit EXCEPT ![q] = @ + 1]
    BY <2>1 DEF AuditRow
  <2>3. /\ \A x \in Requests \ {q} : request'[x] = request[x]
        /\ RejectCommit(w) => request'[q].status = "rejected"
    <3>1. CASE ApproveCommit(w)
      <4>1. ~ RejectCommit(w)
        BY <3>1 DEF ApproveCommit, RejectCommit
      <4> QED BY <3>1, <4>1, ApproveEffect
    <3>2. CASE RejectCommit(w)
      BY <3>2, <2>1 DEF RejectCommit, RoleInv, RoleTypeOK, RequestRow
    <3> QED BY <1>4, <3>1, <3>2
  <2>4. CASE q = r
    BY <2>1, <2>2, <2>3, <2>4 DEF RoleInv, RoleTypeOK
  <2>5. CASE q # r
    BY <2>1, <2>2, <2>3, <2>5 DEF RoleInv, RoleTypeOK
  <2> QED BY <2>4, <2>5
<1>5. \/ UNCHANGED <<request, audit>>
      \/ \E w \in Workers : CreateCommit(w) \/ ApproveCommit(w) \/ RejectCommit(w)
      \/ \E s \in Scopes : DropScope(s)
  BY DEF Next, Begin, Handle, StartCreate, StartDecision, LockRequester, CreateCheck,
         DecideCheck, Refuse, Crash, NoWrite, AdministerUser, ChangeGrant, rvars
<1> QED
  BY <1>1, <1>2, <1>3, <1>4, <1>5

\* One winner: a decided request keeps its outcome, its decider and its single
\* audit row (approve_role_request, reject_role_request).
THEOREM OneDecisionHolds == Spec => OneDecision
<1> DEFINE Final ==
      \A r \in Requests :
          /\ request[r].status \in {"approved", "rejected"} =>
                /\ request'[r].status = request[r].status
                /\ request'[r].by = request[r].by
                /\ audit'[r] = audit[r]
          /\ request[r].status = "pending" /\ request'[r].status # "pending" =>
                audit'[r] = 1
<1>1. RoleInv /\ [Next]_rvars => Final
  <2> SUFFICES ASSUME RoleInv, [Next]_rvars, NEW r \in Requests
               PROVE  /\ request[r].status \in {"approved", "rejected"} =>
                            /\ request'[r].status = request[r].status
                            /\ request'[r].by = request[r].by
                            /\ audit'[r] = audit[r]
                      /\ request[r].status = "pending" /\ request'[r].status # "pending" =>
                            audit'[r] = 1
    OBVIOUS
  <2>1. request[r].status = "pending" => audit[r] = 0
    BY DEF RoleInv, RequestSound
  <2> QED BY <2>1, WhoDecides
<1>2. RoleInv /\ [Next]_rvars => [Final]_rvars
  BY <1>1
<1> QED
  BY <1>2, RoleInvHolds, PTL DEF Spec, OneDecision

\* An approval gives the requester exactly what the request says, although
\* roles, status and scope rows may have changed since it was made
\* (approve_role_request checks again under the lock of the requester).
THEOREM ApprovalGrantsHolds == Spec => ApprovalGrantsRequest
<1> DEFINE Grants ==
      \A r \in Requests :
          request[r].status = "pending" /\ request'[r].status = "approved" =>
              LET u == request[r].requester
                  scope == IF request[r].role = "admin" THEN Global
                                                        ELSE request[r].key
              IN  /\ user[u].active
                  /\ user'[u].role = request[r].role
                  /\ _is_upward_role_request(user[u].role, user'[u].role)
                  /\ user'[u].defaults = {scope}
                  /\ user'[u].level[scope] = _access_level_for_role(user'[u].role)
<1>1. RoleInv /\ [Next]_rvars => Grants
  <2> SUFFICES ASSUME RoleInv, [Next]_rvars, NEW r \in Requests,
                      request[r].status = "pending", request'[r].status = "approved"
               PROVE  LET u == request[r].requester
                          scope == IF request[r].role = "admin" THEN Global
                                                                ELSE request[r].key
                      IN  /\ user[u].active
                          /\ user'[u].role = request[r].role
                          /\ _is_upward_role_request(user[u].role, user'[u].role)
                          /\ user'[u].defaults = {scope}
                          /\ user'[u].level[scope] = _access_level_for_role(user'[u].role)
    OBVIOUS
  <2>1. PICK w \in Workers : ApproveCommit(w) /\ session[w].req = r
    BY WhoDecides
  <2>2. session[w].pc = "writing" /\ session[w].kind = "approve" /\ CheckedStillHolds(w)
    BY <2>1 DEF ApproveCommit, RoleInv
  <2> QED BY <2>1, <2>2, ApproveEffect DEF CheckedStillHolds
<1>2. RoleInv /\ [Next]_rvars => [Grants]_rvars
  BY <1>1
<1> QED
  BY <1>2, RoleInvHolds, PTL DEF Spec, ApprovalGrantsRequest
=============================================================================
