---------------------------- MODULE DashboardEditor ----------------------------
(***************************************************************************)
(* Dashboards and their cards under concurrent editors                     *)
(* (api/routes/dashboards.py).                                             *)
(*                                                                         *)
(* A handler authenticates and reads the access context, may read the      *)
(* card, its dashboard and the dashboard's other cards without a lock      *)
(* (Begin), and then locks the dashboard row, checks, writes and commits   *)
(* (one action: nobody else writes a dashboard whose row is locked).       *)
(*                                                                         *)
(* The database session keeps every object it has loaded.  A later SELECT  *)
(* ... FOR UPDATE finds the current rows but does not refresh objects the  *)
(* session already has, and a commit writes only the columns whose new     *)
(* value differs from the value loaded.  "seen" are the loaded objects.    *)
(***************************************************************************)
EXTENDS DashboardLayout

CONSTANTS
    Workers, Users, Dashboards, Departments,
    MaxCards,       \* bound on cards ever created
    MaxRequests,    \* bound on handlers begun
    Runs,           \* successful query runs
    RunOwner,       \* RunOwner[q]: the user who ran q
    InitialAccess,  \* InitialAccess[u]: access context at the start
    AccessChoices,  \* AccessChoices[u]: what it may become
    InitialDashboards, InitialCards,
    Ops,            \* handlers that run in this instance
    Types,          \* visualization types a card may be given
    LayoutChoices,  \* layouts an editor may submit for a card
    None

Permissions == {"can_create_personal_dashboard", "can_create_department_dashboard",
                "can_manage_department_dashboard", "can_create_global_dashboard",
                "can_manage_global_dashboard", "can_create_card"}

Context == [permissions : SUBSET Permissions, departments : SUBSET Departments,
            global : BOOLEAN]

Row == [state : {"none", "live", "archived"}, owner : Users \cup {None},
        scope : {"personal", "department", "global"},
        department : Departments \cup {None}, version : Nat, title : {"old", "new"}]

NoRow == [state |-> "none", owner |-> None, scope |-> "personal", department |-> None,
          version |-> 1, title |-> "old"]

CardFields == {"dash", "run", "position", "card_type", "config", "layout"}

\* Cards are numbered in the order of their creation.
ASSUME EditorAssumption ==
    /\ InitialAccess \in [Users -> Context]
    /\ AccessChoices \in [Users -> SUBSET Context]
    /\ InitialDashboards \in [Dashboards -> Row]
    /\ RunOwner \in [Runs -> Users]
    /\ MaxCards \in Nat /\ MaxRequests \in Nat
    /\ \E n \in 0..MaxCards : DOMAIN InitialCards = 1..n
    /\ \A c \in DOMAIN InitialCards : /\ DOMAIN InitialCards[c] = CardFields
                                     /\ InitialCards[c].dash \in Dashboards
                                     /\ CardData(InitialCards[c])
    /\ Types \subseteq VISUALIZATION_TYPES
    /\ LayoutChoices \subseteq [Breakpoints -> Box]

VARIABLES
    dash,       \* dashboards
    card,       \* dashboard_cards: a function on the cards that exist
    created,    \* number of cards ever created
    saved,      \* saved_queries rows made from a query run
    access,     \* what build_user_access_context returns for a user now
    session,    \* local state of each handler
    begun,      \* handlers begun so far
    draft,      \* layout drafts open in the users' browsers
    overtaken   \* history: "stale" once a handler has written objects that were
                \* no longer current, "reordered" once an order was stored, which
                \* leaves the version alone

dvars == <<dash, card, created, saved, access, session, begun, draft, overtaken>>

Idle == [op |-> "idle", user |-> None, ctx |-> None, dash |-> None, card |-> 0,
         version |-> 0, seen |-> <<>>]

NoDraft == [dash |-> None, version |-> 0, layouts |-> <<>>]

CardsOf(d) == [c \in {x \in DOMAIN card : card[x].dash = d} |-> card[c]]

Served(d) == normalize_card_layouts(CardsOf(d))

-----------------------------------------------------------------------------
(* Who may do what (dashboards/policy.py)                                  *)

department_scope_is_assigned(dep, ctx) == dep # None /\ (ctx.global \/ dep \in ctx.departments)

dashboard_is_visible(row, u, ctx) ==
    CASE row.scope = "personal"   -> row.owner = u
      [] row.scope = "global"     -> ctx.global
      [] row.scope = "department" -> department_scope_is_assigned(row.department, ctx)

dashboard_is_manageable(row, u, ctx) ==
    /\ row.state # "archived"
    /\ CASE row.scope = "personal" ->
              row.owner = u /\ "can_create_personal_dashboard" \in ctx.permissions
         [] row.scope = "department" ->
              /\ dashboard_is_visible(row, u, ctx)
              /\ "can_manage_department_dashboard" \in ctx.permissions
         [] row.scope = "global" ->
              ctx.global /\ "can_manage_global_dashboard" \in ctx.permissions

_may_create(scope, dep, ctx) ==
    CASE scope = "personal" -> "can_create_personal_dashboard" \in ctx.permissions
      [] scope = "department" ->
           /\ ctx.permissions \cap {"can_create_department_dashboard",
                                    "can_manage_department_dashboard"} # {}
           /\ department_scope_is_assigned(dep, ctx)
      [] scope = "global" ->
           /\ ctx.global
           /\ ctx.permissions \cap {"can_create_global_dashboard",
                                    "can_manage_global_dashboard"} # {}

_can_save_card_to_dashboard(row, u, ctx) ==
    IF row.scope = "personal" THEN row.owner = u
    ELSE _may_create(row.scope, row.department, ctx)

\* _dashboard_management_error returns None
Managed(row, u, ctx) == /\ row.state = "live"
                        /\ dashboard_is_visible(row, u, ctx)
                        /\ dashboard_is_manageable(row, u, ctx)

-----------------------------------------------------------------------------
(* The database session                                                    *)

\* What the session holds of the cards now in dashboard d
View(s) == [c \in DOMAIN CardsOf(s.dash) |-> IF c \in DOMAIN s.seen THEN s.seen[c] ELSE card[c]]

Column(s, c, new, f) ==
    IF c \in DOMAIN s.seen /\ c \in DOMAIN card /\ new[c][f] = s.seen[c][f]
    THEN card[c][f] ELSE new[c][f]

\* The card table after a commit of the objects "new"
Flush(s, new) ==
    [c \in DOMAIN card \cup DOMAIN new |->
        IF c \notin DOMAIN new THEN card[c]
        ELSE [dash |-> new[c].dash, run |-> new[c].run,
              position |-> Column(s, c, new, "position"),
              card_type |-> Column(s, c, new, "card_type"),
              config |-> Column(s, c, new, "config"),
              layout |-> Column(s, c, new, "layout")]]

Done(w) == session' = [session EXCEPT ![w] = Idle]

-----------------------------------------------------------------------------
(* A handler begins                                                        *)

Begin(w, u, op, d, c, v, seen) ==
    /\ session[w] = Idle /\ op \in Ops
    /\ begun < MaxRequests /\ begun' = begun + 1
    /\ session' = [session EXCEPT ![w] =
          [op |-> op, user |-> u, ctx |-> access[u], dash |-> d, card |-> c,
           version |-> v, seen |-> seen]]
    /\ UNCHANGED <<dash, card, created, saved, access, draft>>

\* The card, its dashboard and its neighbours are loaded without a lock;
\* update and duplicate check the permissions here, remove only later.
BeginCard(w, u, op, c) ==
    LET d == card[c].dash
    IN  /\ op \in {"update_card", "duplicate_card"} => Managed(dash[d], u, access[u])
        /\ op = "duplicate_card" => "can_create_card" \in access[u].permissions
        /\ Begin(w, u, op, d, c, dash[d].version, CardsOf(d))

\* Only the submitted cards are loaded.
BeginReorder(w, u, d) ==
    /\ dash[d].state = "live" /\ dash[d].scope = "personal" /\ dash[d].owner = u
    /\ CardsOf(d) # <<>>
    /\ Begin(w, u, "reorder", d, 0, 0, CardsOf(d))

BeginDashboard(w, u, op, d) ==
    /\ IF op = "duplicate_dashboard"
       THEN /\ dash[d].state = "live" /\ dashboard_is_visible(dash[d], u, access[u])
            /\ "can_create_personal_dashboard" \in access[u].permissions
       ELSE Managed(dash[d], u, access[u])
    /\ Begin(w, u, op, d, 0, 0, IF op = "duplicate_dashboard" THEN CardsOf(d) ELSE <<>>)

\* dashboard_detail: the editor opens with what is served.
OpenEditor(u, d) ==
    /\ dash[d].state = "live" /\ dashboard_is_visible(dash[d], u, access[u])
    /\ draft' = [draft EXCEPT ![u] =
          [dash |-> d, version |-> dash[d].version, layouts |-> Served(d)]]
    /\ UNCHANGED <<dash, card, created, saved, access, session, begun>>

\* The draft is submitted; nothing is loaded but the access context.
BeginSave(w, u) ==
    /\ draft[u].dash # None
    /\ Begin(w, u, "save_layout", draft[u].dash, 0, draft[u].version, draft[u].layouts)

-----------------------------------------------------------------------------
(* Under the lock of the dashboard row                                     *)

\* One dashboard row is written.
Write(d, row) == dash' = [dash EXCEPT ![d] = row]
Bump(d, v) == Write(d, [dash[d] EXCEPT !.version = v + 1])

\* Mutant: the expected version is not compared.
ExpectedAny(s) == TRUE

\* expected_layout_version
Expected(s) == dash[s.dash].version = s.version

Accepted(layouts) ==
    /\ \A c \in DOMAIN layouts : parse_layout(layouts[c], visualization_type_for_card(card[c]))
    /\ layouts_do_not_overlap(layouts)

\* update_dashboard_editor_layout: the dashboard and its cards are first loaded
\* under the lock.
SaveLayout(w) ==
    LET s == session[w]
        ids == DOMAIN CardsOf(s.dash)
    IN  /\ s.op = "save_layout"
        /\ Managed(dash[s.dash], s.user, s.ctx)
        /\ Expected(s) /\ ids = DOMAIN s.seen
        /\ \E layouts \in [ids -> LayoutChoices] :
              /\ Accepted(layouts)
              /\ card' = [c \in DOMAIN card |-> IF c \notin ids THEN card[c]
                    ELSE [card[c] EXCEPT !.layout = layouts[c],
                                         !.position = derive_positions(layouts)[c]]]
        /\ Bump(s.dash, dash[s.dash].version)
        /\ Done(w)
        /\ UNCHANGED <<created, saved, access, draft, begun>>

\* Mutant: what was checked before the lock is not checked again.
StillThereAsSeen(s) == s.card \in DOMAIN CardsOf(s.dash)

\* The card and a dashboard that is not archived are found again under the lock.
StillThere(s) == dash[s.dash].state = "live" /\ s.card \in DOMAIN CardsOf(s.dash)

\* update_card with a new visualization; the dashboard object is the one loaded
\* before the lock, so its version may be old.
UpdateCard(w) ==
    LET s == session[w]
    IN  /\ s.op = "update_card"
        /\ StillThere(s)
        /\ \E t \in Types :
              card' = Flush(s, Rearranged([View(s) EXCEPT ![s.card] =
                  [View(s)[s.card] EXCEPT !.config = t, !.card_type = t, !.layout = NoLayout]]))
        /\ Bump(s.dash, s.version)
        /\ Done(w)
        /\ UNCHANGED <<created, saved, access, draft, begun>>

Next_position(cards) ==
    IF cards = <<>> THEN 0
    ELSE 1 + CHOOSE p \in {cards[c].position : c \in DOMAIN cards} :
                \A c \in DOMAIN cards : cards[c].position <= p

NewCard(d, position, type, q) ==
    [dash |-> d, position |-> position, card_type |-> type, config |-> type,
     layout |-> NoLayout, run |-> q]

\* duplicate_card
DuplicateCard(w) ==
    LET s == session[w]
        type == visualization_type_for_card(View(s)[s.card])
        copy == NewCard(s.dash, Next_position(View(s)), type, card[s.card].run)
    IN  /\ s.op = "duplicate_card" /\ created < MaxCards
        /\ StillThere(s)
        /\ card' = Flush(s, Rearranged(Put(View(s), created + 1, copy)))
        /\ created' = created + 1
        /\ Bump(s.dash, s.version)
        /\ Done(w)
        /\ UNCHANGED <<saved, access, draft, begun>>

\* remove_card: the rest is renumbered in the order of the rows.
RemoveCard(w) ==
    LET s == session[w]
        rest == [c \in DOMAIN CardsOf(s.dash) \ {s.card} |-> card[c]]
        rank(c) == Cardinality({x \in DOMAIN rest : Earlier(rest, x, c)})
        new == [c \in DOMAIN rest |-> [View(s)[c] EXCEPT !.position = rank(c)]]
        table == Flush(s, new)
    IN  /\ s.op = "remove_card"
        /\ Managed(dash[s.dash], s.user, s.ctx) /\ s.card \in DOMAIN CardsOf(s.dash)
        /\ card' = [c \in DOMAIN table \ {s.card} |-> table[c]]
        /\ Bump(s.dash, s.version)
        /\ Done(w)
        /\ UNCHANGED <<created, saved, access, draft, begun>>

\* update_my_dashboard_layout: an order of exactly the cards that exist
Reorder(w) ==
    LET s == session[w]
        ids == DOMAIN CardsOf(s.dash)
        view == View(s)
    IN  /\ s.op = "reorder"
        /\ dash[s.dash].state = "live" /\ ids # {} /\ ids \subseteq DOMAIN s.seen
        /\ \E order \in [ids -> 0..(Cardinality(ids) - 1)] :
              /\ \A c, d \in ids : order[c] = order[d] => c = d
              /\ card' = Flush(s, [c \in ids |-> [view[c] EXCEPT !.position = order[c]]])
        /\ Done(w)
        /\ UNCHANGED <<dash, created, saved, access, draft, begun>>

\* A successful run of the user's own that has no saved query yet
_query_run_can_be_saved(q, u) == RunOwner[q] = u /\ saved[q] = 0

\* save_query_run_as_card: query run and dashboard are first loaded under locks.
SaveCard(w, d, q) ==
    LET s == session[w]
    IN  /\ s.op = "save_card" /\ s.dash = d /\ created < MaxCards
        /\ _query_run_can_be_saved(q, s.user)
        /\ dash[d].state = "live" /\ _can_save_card_to_dashboard(dash[d], s.user, s.ctx)
        /\ card' = Put(card, created + 1,
                       NewCard(d, Next_position(CardsOf(d)), "table", q))
        /\ created' = created + 1
        /\ saved' = [saved EXCEPT ![q] = @ + 1]
        /\ Bump(d, dash[d].version)
        /\ Done(w)
        /\ UNCHANGED <<access, draft, begun>>

-----------------------------------------------------------------------------
(* Handlers that lock nothing                                              *)

\* update_dashboard
RenameDashboard(w) ==
    /\ session[w].op = "rename"
    /\ Write(session[w].dash, [dash[session[w].dash] EXCEPT !.title = "new"])
    /\ Done(w)
    /\ UNCHANGED <<card, created, saved, access, draft, begun>>

\* archive_dashboard
ArchiveDashboard(w) ==
    /\ session[w].op = "archive"
    /\ Write(session[w].dash, [dash[session[w].dash] EXCEPT !.state = "archived"])
    /\ Done(w)
    /\ UNCHANGED <<card, created, saved, access, draft, begun>>

\* duplicate_dashboard: a personal copy of the cards that were read
DuplicateDashboard(w, d) ==
    LET s == session[w]
        source == Ordered(s.seen)
        n == Len(source)
        copies == [c \in (created + 1)..(created + n) |->
            LET original == s.seen[source[c - created]]
            IN  NewCard(d, c - created - 1, visualization_type_for_card(original), original.run)]
        layouts == normalize_card_layouts(copies)
    IN  /\ s.op = "duplicate_dashboard" /\ dash[d].state = "none"
        /\ created + n <= MaxCards
        /\ Write(d, [NoRow EXCEPT !.state = "live", !.owner = s.user])
        /\ card' = [c \in DOMAIN card \cup DOMAIN copies |-> IF c \in DOMAIN card THEN card[c]
                       ELSE [copies[c] EXCEPT !.layout = layouts[c]]]
        /\ created' = created + n
        /\ Done(w)
        /\ UNCHANGED <<saved, access, draft, begun>>

\* create_dashboard: nothing is read but the access context.
CreateDashboard(u, d, scope, dep) ==
    /\ "create" \in Ops /\ dash[d].state = "none"
    /\ _may_create(scope, dep, access[u])
    /\ Write(d, [NoRow EXCEPT !.state = "live", !.owner = u, !.scope = scope,
                              !.department = IF scope = "department" THEN dep ELSE None])
    /\ UNCHANGED <<card, created, saved, access, session, draft, begun>>

\* Refused under the lock, commit failed, connection lost: nothing is written.
Abandon(w) ==
    /\ session[w] # Idle /\ Done(w)
    /\ UNCHANGED <<dash, card, created, saved, access, draft, begun>>

\* Administration of users, roles and scopes
ChangeAccess(u) ==
    /\ \E a \in AccessChoices[u] : access' = [access EXCEPT ![u] = a]
    /\ UNCHANGED <<dash, card, created, saved, session, draft, begun>>

-----------------------------------------------------------------------------
Init ==
    /\ dash = InitialDashboards /\ card = InitialCards
    /\ created = Cardinality(DOMAIN InitialCards)
    /\ saved = [q \in Runs |-> 0]
    /\ access = InitialAccess
    /\ session = [w \in Workers |-> Idle]
    /\ begun = 0
    /\ draft = [u \in Users |-> NoDraft]
    /\ overtaken = {}

BeginAny(w, u) ==
    \/ \E op \in {"update_card", "duplicate_card", "remove_card"} \cap Ops, c \in DOMAIN card :
          BeginCard(w, u, op, c)
    \/ \E d \in Dashboards : \/ BeginReorder(w, u, d)
                             \/ \E op \in {"rename", "archive", "duplicate_dashboard"} \cap Ops :
                                   BeginDashboard(w, u, op, d)
                             \/ /\ "can_create_card" \in access[u].permissions
                                /\ Begin(w, u, "save_card", d, 0, 0, <<>>)
    \/ BeginSave(w, u)

Finish(w) ==
    \/ SaveLayout(w) \/ UpdateCard(w) \/ DuplicateCard(w) \/ RemoveCard(w) \/ Reorder(w)
    \/ RenameDashboard(w) \/ ArchiveDashboard(w)
    \/ \E d \in Dashboards : DuplicateDashboard(w, d) \/ (\E q \in Runs : SaveCard(w, d, q))
    \/ Abandon(w)

\* The handler's objects, loaded before its lock, are not what the rows say now.
Stale(w) ==
    LET s == session[w]
    IN  \/ s.op \in {"update_card", "duplicate_card", "remove_card", "reorder"}
             /\ s.seen # CardsOf(s.dash)
        \/ s.op \in {"update_card", "duplicate_card", "remove_card"}
             /\ s.version # dash[s.dash].version

Remember(w) ==
    overtaken' = IF <<card', dash'>> = <<card, dash>> THEN overtaken
                 ELSE overtaken \cup (IF Stale(w) THEN {"stale"} ELSE {})
                                \cup (IF session[w].op = "reorder" THEN {"reordered"} ELSE {})

Next ==
    \/ \E w \in Workers, u \in Users : BeginAny(w, u) /\ UNCHANGED overtaken
    \/ \E w \in Workers : Finish(w) /\ Remember(w)
    \/ \E u \in Users, d \in Dashboards :
          /\ UNCHANGED overtaken
          /\ \/ "save_layout" \in Ops /\ OpenEditor(u, d)
             \/ \E dep \in Departments : CreateDashboard(u, d, "department", dep)
             \/ \E scope \in {"personal", "global"} : CreateDashboard(u, d, scope, None)
    \/ \E u \in Users : ChangeAccess(u) /\ UNCHANGED overtaken

Spec == Init /\ [][Next]_dvars

-----------------------------------------------------------------------------
(* Properties                                                              *)

\* Whatever a race of handlers has stored, what is served is a layout in which
\* every card has a size its type allows and no two cards overlap.
ServedProper ==
    \A d \in Dashboards : Proper(CardsOf(d), Served(d))

\* A dashboard that was archived while handlers were under way keeps its cards,
\* its order and its version for good.
ArchivedFrozen ==
    [][\A d \in Dashboards : dash[d].state = "archived" =>
          /\ dash'[d].state = "archived" /\ dash'[d].version = dash[d].version
          /\ CardsOf(d)' = CardsOf(d)]_dvars

\* A draft is only accepted while the dashboard is still what the editor showed
\* when the draft was opened: a save never overwrites work it has not seen
\* (update_dashboard_editor_layout compares expected_layout_version).
SaveSeesCurrent ==
    [][\A w \in Workers : SaveLayout(w) => session[w].seen = Served(session[w].dash)]_dvars

\* The same as long as nobody has written stale objects or used the endpoint that
\* stores an order: every other handler that changes what is served, of whatever
\* cards, moves the version so that no draft opened before it is accepted.
DraftsExpire ==
    [][\A w \in Workers : SaveLayout(w) /\ overtaken = {} =>
          session[w].seen = Served(session[w].dash)]_dvars

=============================================================================
