------------------------ MODULE DashboardEditorProofs ------------------------
(***************************************************************************)
(* Machine-checked proofs about DashboardEditor, for every number of       *)
(* handlers, users, dashboards and cards and every layout and access.      *)
(***************************************************************************)
EXTENDS DashboardEditor, FiniteSetTheorems, FunctionTheorems, WellFoundedInduction, TLAPS

-----------------------------------------------------------------------------
(* The inductive invariant.  Its parts are about a card table, a handler   *)
(* and a draft, so that they can be said of the next state too.            *)

\* The cards of a dashboard in a card table
CardsIn(table, d) == [c \in {x \in DOMAIN table : table[x].dash = d} |-> table[c]]

CardOK(x) == DOMAIN x = CardFields /\ x.dash \in Dashboards

TableOK(table, n) ==
    n \in Nat /\ DOMAIN table \subseteq 1..n /\ \A c \in DOMAIN table : CardOK(table[c])

\* Handlers that load cards before their lock: those of one dashboard
Loads == {"update_card", "duplicate_card", "remove_card", "reorder", "duplicate_dashboard"}

Loaded(s) == /\ IsFiniteSet(DOMAIN s.seen)
             /\ \A c \in DOMAIN s.seen : CardOK(s.seen[c]) /\ s.seen[c].dash = s.dash

SessionOK(s) ==
    s # Idle => /\ s.user \in Users /\ s.dash \in Dashboards /\ s.version \in Nat
                /\ s.op \in Loads => Loaded(s)

DraftOK(x) == x.dash # None => x.dash \in Dashboards /\ x.version \in Nat

\* A draft of version v is older than the dashboard, or shows what is served.
Fresh(d, v, layouts, ds, table) ==
    /\ ds[d].state # "none" /\ v <= ds[d].version
    /\ v = ds[d].version => layouts = normalize_card_layouts(CardsIn(table, d))

\* So do all the drafts that are open, and those that have been submitted.
AllFresh(ds, table, ss, drafts) ==
    /\ \A u \in Users : drafts[u].dash # None =>
          Fresh(drafts[u].dash, drafts[u].version, drafts[u].layouts, ds, table)
    /\ \A w \in Workers : ss[w].op = "save_layout" =>
          Fresh(ss[w].dash, ss[w].version, ss[w].seen, ds, table)

EditorInv ==
    /\ dash \in [Dashboards -> Row] /\ TableOK(card, created)
    /\ DOMAIN session = Workers /\ \A w \in Workers : SessionOK(session[w])
    /\ DOMAIN draft = Users /\ \A u \in Users : DraftOK(draft[u])
    /\ overtaken = {} => AllFresh(dash, card, session, draft)

-----------------------------------------------------------------------------
(* What a handler may do to a dashboard                                    *)

\* Two card tables differ in the cards of dashboard e only.
OnlyAt(e, table, next) ==
    /\ \A c \in DOMAIN table : table[c].dash # e => c \in DOMAIN next /\ next[c] = table[c]
    /\ \A c \in DOMAIN next : next[c].dash # e => c \in DOMAIN table /\ next[c] = table[c]

\* What is served is the same, and so is the version.
SameServed(e) ==
    /\ dash'[e].version = dash[e].version
    /\ CardsIn(card', e) = CardsIn(card, e)
    /\ dash[e].state = "archived" => dash'[e].state = "archived"

\* A step at dashboard e: an archived one is kept, and any other is kept or gets
\* the next version unless the handler's objects were stale.
Effect(e) ==
    /\ dash' \in [Dashboards -> Row] /\ TableOK(card', created')
    /\ OnlyAt(e, card, card') /\ \A d \in Dashboards \ {e} : dash'[d] = dash[d]
    /\ dash[e].state = "archived" => SameServed(e)
    /\ dash[e].state # "none" => dash'[e].state # "none"
    /\ dash[e].state # "none" /\ overtaken' = {} =>
          SameServed(e) \/ dash'[e].version = dash[e].version + 1

\* The cards of other dashboards are the same.
LEMMA OthersKept ==
    ASSUME NEW table, NEW next, NEW e, OnlyAt(e, table, next), NEW d, d # e
    PROVE  CardsIn(next, d) = CardsIn(table, d)
<1>1. {x \in DOMAIN next : next[x].dash = d} = {x \in DOMAIN table : table[x].dash = d}
  BY DEF OnlyAt
<1>2. \A c \in {x \in DOMAIN table : table[x].dash = d} : next[c] = table[c]
  BY DEF OnlyAt
<1> QED
  BY <1>1, <1>2 DEF CardsIn

\* The cards of a dashboard, of the table now,
LEMMA CardsAre ==
    \A d : CardsOf(d) = CardsIn(card, d)
BY DEF CardsOf, CardsIn

\* and of the table after the step.
LEMMA CardsWillBe ==
    \A d : CardsOf(d)' = CardsIn(card', d)
BY DEF CardsOf, CardsIn

\* A draft stays fresh, or gets old.
LEMMA FreshKept ==
    ASSUME EditorInv, NEW e \in Dashboards, Effect(e), overtaken' = {},
           NEW d \in Dashboards, NEW v \in Nat, NEW layouts, Fresh(d, v, layouts, dash, card)
    PROVE  Fresh(d, v, layouts, dash', card')
<1>1. CASE d # e
  <2>1. CardsIn(card', d) = CardsIn(card, d) /\ dash'[d] = dash[d]
    BY <1>1, OthersKept DEF Effect
  <2> QED
    BY <2>1 DEF Fresh
<1>2. CASE d = e /\ SameServed(e)
  BY <1>2 DEF Fresh, SameServed, Effect
<1>3. CASE d = e /\ dash'[e].version = dash[e].version + 1
  <2>1. dash[e].version \in Nat
    BY DEF EditorInv, Row
  <2> QED
    BY <1>3, <2>1 DEF Fresh, Effect
<1> QED
  BY <1>1, <1>2, <1>3 DEF Effect, Fresh

\* A dashboard that is archived is kept by every step.
LEMMA ArchivedKept ==
    ASSUME EditorInv, NEW e \in Dashboards, Effect(e), NEW d \in Dashboards,
           dash[d].state = "archived"
    PROVE  SameServed(d)
<1>1. CASE d # e
  BY <1>1, OthersKept DEF Effect, SameServed
<1>2. CASE d = e
  BY <1>2 DEF Effect
<1> QED
  BY <1>1, <1>2

-----------------------------------------------------------------------------
(* Card tables                                                             *)

\* Objects of one dashboard, with new ones up to number n
ObjectsOf(new, e, n) ==
    /\ e \in Dashboards /\ n \in Nat /\ created <= n
    /\ DOMAIN new \subseteq DOMAIN card \cup (created + 1)..n
    /\ \A c \in DOMAIN new : new[c].dash = e
    /\ \A c \in DOMAIN new \cap DOMAIN card : card[c].dash = e

\* A commit writes the objects of one dashboard.
LEMMA FlushIsAt ==
    ASSUME TableOK(card, created), NEW s, NEW new, NEW e, NEW n, ObjectsOf(new, e, n)
    PROVE  /\ OnlyAt(e, card, Flush(s, new)) /\ TableOK(Flush(s, new), n)
           /\ DOMAIN Flush(s, new) = DOMAIN card \cup DOMAIN new
<1> USE DEF ObjectsOf
<1>1. PICK next : next = Flush(s, new)
  OBVIOUS
<1>2. DOMAIN next = DOMAIN card \cup DOMAIN new
  BY <1>1 DEF Flush
<1>3. \A c \in DOMAIN card \ DOMAIN new : next[c] = card[c]
  BY <1>1 DEF Flush
<1>4. ASSUME NEW c \in DOMAIN new PROVE CardOK(next[c]) /\ next[c].dash = e
  <2>1. next[c] = [dash |-> new[c].dash, run |-> new[c].run,
                   position |-> Column(s, c, new, "position"),
                   card_type |-> Column(s, c, new, "card_type"),
                   config |-> Column(s, c, new, "config"),
                   layout |-> Column(s, c, new, "layout")]
    BY <1>1, <1>4 DEF Flush
  <2> QED
    BY <2>1 DEF CardOK, CardFields
<1>5. DOMAIN next \subseteq 1..n
  BY <1>2 DEF TableOK
<1>6. TableOK(next, n)
  BY <1>2, <1>3, <1>4, <1>5 DEF TableOK
<1>7. OnlyAt(e, card, next)
  BY <1>2, <1>3, <1>4 DEF OnlyAt
<1> QED
  BY <1>1, <1>2, <1>6, <1>7

\* What a handler holds of its dashboard is of its dashboard.
LEMMA ViewIsOf ==
    ASSUME TableOK(card, created), NEW s, Loaded(s), s.dash \in Dashboards
    PROVE  /\ DOMAIN View(s) = {x \in DOMAIN card : card[x].dash = s.dash}
           /\ \A c \in DOMAIN View(s) : CardOK(View(s)[c]) /\ View(s)[c].dash = s.dash
<1>1. PICK view : view = View(s)
  OBVIOUS
<1>2. DOMAIN CardsOf(s.dash) = {x \in DOMAIN card : card[x].dash = s.dash}
  BY DEF CardsOf
<1>3. DOMAIN view = {x \in DOMAIN card : card[x].dash = s.dash}
  BY <1>1, <1>2 DEF View
<1>4. \A c \in DOMAIN view : view[c] = IF c \in DOMAIN s.seen THEN s.seen[c] ELSE card[c]
  BY <1>1 DEF View
<1>5. \A c \in DOMAIN view : CardOK(view[c]) /\ view[c].dash = s.dash
  BY <1>3, <1>4 DEF Loaded, TableOK
<1> QED
  BY <1>1, <1>3, <1>5

\* A new arrangement leaves the cards where they are.
LEMMA RearrangedCards ==
    ASSUME NEW cards, \A c \in DOMAIN cards : CardOK(cards[c])
    PROVE  /\ DOMAIN Rearranged(cards) = DOMAIN cards
           /\ \A c \in DOMAIN cards : Rearranged(cards)[c].dash = cards[c].dash
<1>1. PICK layouts : layouts = normalize_card_layouts(cards)
  OBVIOUS
<1>2. PICK positions : positions = derive_positions(layouts)
  OBVIOUS
<1>3. Rearranged(cards) = [c \in DOMAIN cards |-> [cards[c] EXCEPT !.layout = layouts[c],
                                                                 !.position = positions[c]]]
  BY <1>1, <1>2 DEF Rearranged
<1> QED
  BY <1>3 DEF CardOK, CardFields

\* The cards of a dashboard are finitely many, and each of them is one.
LEMMA CardsLoaded ==
    ASSUME TableOK(card, created), NEW d
    PROVE  /\ IsFiniteSet(DOMAIN CardsOf(d))
           /\ \A c \in DOMAIN CardsOf(d) : CardOK(CardsOf(d)[c]) /\ CardsOf(d)[c].dash = d
           /\ DOMAIN CardsOf(d) = {x \in DOMAIN card : card[x].dash = d}
<1>1. IsFiniteSet(1..created)
  BY FS_Interval DEF TableOK
<1>2. DOMAIN CardsOf(d) \subseteq 1..created
  BY DEF CardsOf, TableOK
<1>3. IsFiniteSet(DOMAIN CardsOf(d))
  BY <1>1, <1>2, FS_Subset
<1> QED
  BY <1>3 DEF CardsOf, TableOK

-----------------------------------------------------------------------------
(* The steps of a handler                                                  *)

\* A dashboard row that is written is a row.
LEMMA Written ==
    ASSUME dash \in [Dashboards -> Row], NEW e \in Dashboards, NEW row \in Row, Write(e, row)
    PROVE  /\ dash' \in [Dashboards -> Row] /\ dash'[e] = row
           /\ \A d \in Dashboards \ {e} : dash'[d] = dash[d]
BY DEF Write

\* The row with its next version, and the rows that only its owner's other
\* handlers write
LEMMA RowFields ==
    ASSUME NEW row \in Row
    PROVE  /\ \A v \in Nat : /\ [row EXCEPT !.version = v] \in Row
                             /\ [row EXCEPT !.version = v].version = v
                             /\ [row EXCEPT !.version = v].state = row.state
           /\ [row EXCEPT !.title = "new"] \in Row
           /\ [row EXCEPT !.title = "new"].version = row.version
           /\ [row EXCEPT !.title = "new"].state = row.state
           /\ [row EXCEPT !.state = "archived"] \in Row
           /\ [row EXCEPT !.state = "archived"].version = row.version
           /\ [row EXCEPT !.state = "archived"].state = "archived"
           /\ row.version \in Nat
<1>1. ASSUME NEW v \in Nat
      PROVE  /\ [row EXCEPT !.version = v] \in Row
             /\ [row EXCEPT !.version = v].version = v
             /\ [row EXCEPT !.version = v].state = row.state
  BY <1>1 DEF Row
<1>2. /\ [row EXCEPT !.title = "new"] \in Row
      /\ [row EXCEPT !.title = "new"].version = row.version
      /\ [row EXCEPT !.title = "new"].state = row.state
  BY DEF Row
<1>3. /\ [row EXCEPT !.state = "archived"] \in Row
      /\ [row EXCEPT !.state = "archived"].version = row.version
      /\ [row EXCEPT !.state = "archived"].state = "archived"
  BY DEF Row
<1>4. row.version \in Nat
  BY DEF Row
<1> QED
  BY <1>1, <1>2, <1>3, <1>4

\* The cards of a dashboard that is not archived are written and its version is
\* moved on, from what the handler holds.
LEMMA MovedOn ==
    ASSUME EditorInv, NEW e \in Dashboards, dash[e].state = "live", NEW v \in Nat, Bump(e, v),
           OnlyAt(e, card, card'), TableOK(card', created'),
           overtaken' = {} => UNCHANGED <<card, dash>> \/ v = dash[e].version
    PROVE  Effect(e)
<1>1. dash[e] \in Row
  BY DEF EditorInv
<1>2. v + 1 \in Nat
  OBVIOUS
<1>3. PICK row : row = [dash[e] EXCEPT !.version = v + 1]
  OBVIOUS
<1>4. row \in Row /\ row.version = v + 1 /\ row.state = "live"
  BY <1>1, <1>2, <1>3, RowFields
<1>5. /\ dash' \in [Dashboards -> Row] /\ dash'[e] = row
      /\ \A d \in Dashboards \ {e} : dash'[d] = dash[d]
  BY <1>3, <1>4, Written DEF EditorInv, Bump
<1> QED
  BY <1>4, <1>5 DEF Effect, SameServed

\* A handler that loaded the cards before its lock leaves a mark when they were
\* no longer current.
LEMMA StaleIsMarked ==
    ASSUME NEW w, Remember(w), overtaken' = {},
           session[w].op \in {"update_card", "duplicate_card", "remove_card"}
    PROVE  UNCHANGED <<card, dash>> \/ session[w].version = dash[session[w].dash].version
BY DEF Remember, Stale

\* The handler that takes a step
LEMMA HandlerOf ==
    ASSUME EditorInv, NEW w \in Workers, NEW s, s = session[w], s.op # "idle"
    PROVE  /\ s.user \in Users /\ s.dash \in Dashboards /\ s.version \in Nat
           /\ (s.op \in Loads => Loaded(s))
           /\ dash[s.dash] \in Row
BY DEF EditorInv, SessionOK, Idle

\* save_layout writes the cards under the lock, from the current version.
LEMMA SaveLayoutEffect ==
    ASSUME EditorInv, NEW w \in Workers, SaveLayout(w) PROVE Effect(session[w].dash)
<1>1. PICK s : s = session[w]
  OBVIOUS
<1>2. PICK ids : ids = DOMAIN CardsOf(s.dash)
  OBVIOUS
<1>3. s.op = "save_layout" /\ dash[s.dash].state = "live" /\ created' = created
      /\ Bump(s.dash, dash[s.dash].version)
  BY <1>1 DEF SaveLayout, Managed
<1>4. PICK layouts, positions :
          card' = [c \in DOMAIN card |-> IF c \notin ids THEN card[c]
                    ELSE [card[c] EXCEPT !.layout = layouts[c], !.position = positions[c]]]
  <2>1. PICK layouts : card' = [c \in DOMAIN card |-> IF c \notin ids THEN card[c]
                    ELSE [card[c] EXCEPT !.layout = layouts[c],
                                         !.position = derive_positions(layouts)[c]]]
    BY <1>1, <1>2 DEF SaveLayout
  <2> QED
    BY <2>1
<1>5. s.dash \in Dashboards /\ dash[s.dash] \in Row
  BY <1>1, <1>3, HandlerOf
<1>6. TableOK(card, created)
  BY DEF EditorInv
<1>7. ids = {x \in DOMAIN card : card[x].dash = s.dash}
  BY <1>2 DEF CardsOf
<1>8. DOMAIN card' = DOMAIN card
  BY <1>4
<1>9. \A c \in DOMAIN card \ ids : card'[c] = card[c]
  BY <1>4
<1>10. ASSUME NEW c \in ids PROVE CardOK(card'[c]) /\ card'[c].dash = s.dash
  <2>1. c \in DOMAIN card /\ CardOK(card[c]) /\ card[c].dash = s.dash
    BY <1>6, <1>7, <1>10 DEF TableOK
  <2>2. card'[c] = [card[c] EXCEPT !.layout = layouts[c], !.position = positions[c]]
    BY <1>4, <1>10, <2>1
  <2> QED
    BY <2>1, <2>2 DEF CardOK, CardFields
<1>11. TableOK(card', created')
  BY <1>3, <1>6, <1>8, <1>9, <1>10 DEF TableOK
<1>12. OnlyAt(s.dash, card, card')
  BY <1>7, <1>8, <1>9, <1>10 DEF OnlyAt
<1>13. dash[s.dash].version \in Nat
  BY <1>5, RowFields
<1> QED
  BY <1>1, <1>3, <1>5, <1>11, <1>12, <1>13, MovedOn

\* The objects of a handler, with one card changed, and rearranged
LEMMA UpdateCardEffect ==
    ASSUME EditorInv, NEW w \in Workers, UpdateCard(w), Remember(w)
    PROVE  Effect(session[w].dash)
<1>1. PICK s : s = session[w]
  OBVIOUS
<1>2. s.op = "update_card" /\ dash[s.dash].state = "live" /\ created' = created
      /\ Bump(s.dash, s.version) /\ s.card \in DOMAIN CardsOf(s.dash)
  BY <1>1 DEF UpdateCard, StillThere
<1>3. s.dash \in Dashboards /\ s.version \in Nat /\ Loaded(s)
  BY <1>1, <1>2, HandlerOf DEF Loads
<1>4. TableOK(card, created) /\ created \in Nat
  BY DEF EditorInv, TableOK
<1>5. PICK view : view = View(s)
  OBVIOUS
<1>6. /\ DOMAIN view = {x \in DOMAIN card : card[x].dash = s.dash}
      /\ \A c \in DOMAIN view : CardOK(view[c]) /\ view[c].dash = s.dash
  BY <1>3, <1>4, <1>5, ViewIsOf
<1>7. PICK t : card' = Flush(s, Rearranged([view EXCEPT ![s.card] =
                  [view[s.card] EXCEPT !.config = t, !.card_type = t, !.layout = NoLayout]]))
  BY <1>1, <1>5 DEF UpdateCard
<1>8. PICK new : new = [view[s.card] EXCEPT !.config = t, !.card_type = t, !.layout = NoLayout]
  OBVIOUS
<1>9. s.card \in DOMAIN view
  BY <1>2, <1>6 DEF CardsOf
<1>10. CardOK(new) /\ new.dash = s.dash
  BY <1>6, <1>8, <1>9 DEF CardOK, CardFields
<1>11. PICK cards : cards = [view EXCEPT ![s.card] = new]
  OBVIOUS
<1>12. DOMAIN cards = DOMAIN view
       /\ \A c \in DOMAIN cards : CardOK(cards[c]) /\ cards[c].dash = s.dash
  <2>1. DOMAIN cards = DOMAIN view
        /\ \A c \in DOMAIN cards : cards[c] = IF c = s.card THEN new ELSE view[c]
    BY <1>11
  <2> QED
    BY <1>6, <1>10, <2>1
<1>13. PICK put : put = Rearranged(cards)
  OBVIOUS
<1>14. DOMAIN put = DOMAIN view /\ \A c \in DOMAIN put : put[c].dash = s.dash
  BY <1>12, <1>13, RearrangedCards
<1>15. card' = Flush(s, put)
  BY <1>7, <1>8, <1>11, <1>13
<1>16. OnlyAt(s.dash, card, card') /\ TableOK(card', created')
  <2>1. DOMAIN put \subseteq DOMAIN card \cup (created + 1)..created
    BY <1>6, <1>14
  <2>2. \A c \in DOMAIN put \cap DOMAIN card : card[c].dash = s.dash
    BY <1>6, <1>14
  <2>3. ObjectsOf(put, s.dash, created)
    BY <1>3, <1>4, <1>14, <2>1, <2>2 DEF ObjectsOf
  <2> QED
    BY <1>2, <1>4, <1>15, <2>3, FlushIsAt
<1>17. overtaken' = {} => UNCHANGED <<card, dash>> \/ s.version = dash[s.dash].version
  BY <1>1, <1>2, StaleIsMarked
<1> QED
  BY <1>1, <1>2, <1>3, <1>16, <1>17, MovedOn

\* A card that is made has the columns of a card.
LEMMA NewCardOK ==
    ASSUME NEW d \in Dashboards, NEW position, NEW type, NEW q
    PROVE  CardOK(NewCard(d, position, type, q)) /\ NewCard(d, position, type, q).dash = d
BY DEF NewCard, CardOK, CardFields

\* A copy is the next card of the dashboard.
LEMMA DuplicateCardEffect ==
    ASSUME EditorInv, NEW w \in Workers, DuplicateCard(w), Remember(w)
    PROVE  Effect(session[w].dash)
<1>1. PICK s : s = session[w]
  OBVIOUS
<1>2. s.op = "duplicate_card" /\ dash[s.dash].state = "live" /\ created' = created + 1
      /\ Bump(s.dash, s.version)
  BY <1>1 DEF DuplicateCard, StillThere
<1>3. s.dash \in Dashboards /\ s.version \in Nat /\ Loaded(s)
  BY <1>1, <1>2, HandlerOf DEF Loads
<1>4. TableOK(card, created) /\ created \in Nat
  BY DEF EditorInv, TableOK
<1>5. PICK view : view = View(s)
  OBVIOUS
<1>6. /\ DOMAIN view = {x \in DOMAIN card : card[x].dash = s.dash}
      /\ \A c \in DOMAIN view : CardOK(view[c]) /\ view[c].dash = s.dash
  BY <1>3, <1>4, <1>5, ViewIsOf
<1>7. PICK copy : copy = NewCard(s.dash, Next_position(view),
                                visualization_type_for_card(view[s.card]), card[s.card].run)
  OBVIOUS
<1>8. card' = Flush(s, Rearranged(Put(view, created + 1, copy)))
  BY <1>1, <1>5, <1>7 DEF DuplicateCard
<1>9. CardOK(copy) /\ copy.dash = s.dash
  BY <1>3, <1>7, NewCardOK
<1>10. PICK cards : cards = Put(view, created + 1, copy)
  OBVIOUS
<1>11. DOMAIN cards = DOMAIN view \cup {created + 1}
       /\ \A c \in DOMAIN cards : CardOK(cards[c]) /\ cards[c].dash = s.dash
  <2>1. DOMAIN cards = DOMAIN view \cup {created + 1}
        /\ \A c \in DOMAIN cards : cards[c] = IF c = created + 1 THEN copy ELSE view[c]
    BY <1>10 DEF Put
  <2> QED
    BY <1>6, <1>9, <2>1
<1>12. PICK put : put = Rearranged(cards)
  OBVIOUS
<1>13. DOMAIN put = DOMAIN cards /\ \A c \in DOMAIN put : put[c].dash = s.dash
  BY <1>11, <1>12, RearrangedCards
<1>14. OnlyAt(s.dash, card, card') /\ TableOK(card', created')
  <2>1. DOMAIN put \subseteq DOMAIN card \cup (created + 1)..(created + 1)
    BY <1>4, <1>6, <1>11, <1>13
  <2>2. created + 1 \notin DOMAIN card
    BY <1>4 DEF TableOK
  <2>3. \A c \in DOMAIN put \cap DOMAIN card : card[c].dash = s.dash
    BY <1>6, <1>11, <1>13, <2>2
  <2>4. created + 1 \in Nat /\ created <= created + 1
    BY <1>4
  <2>5. ObjectsOf(put, s.dash, created + 1)
    BY <1>3, <1>13, <2>1, <2>3, <2>4 DEF ObjectsOf
  <2> QED
    BY <1>2, <1>4, <1>8, <1>10, <1>12, <2>5, FlushIsAt
<1>15. overtaken' = {} => UNCHANGED <<card, dash>> \/ s.version = dash[s.dash].version
  BY <1>1, <1>2, StaleIsMarked
<1> QED
  BY <1>1, <1>2, <1>3, <1>14, <1>15, MovedOn

\* The cards that stay are renumbered.
LEMMA RemoveCardEffect ==
    ASSUME EditorInv, NEW w \in Workers, RemoveCard(w), Remember(w)
    PROVE  Effect(session[w].dash)
<1>1. PICK s : s = session[w]
  OBVIOUS
<1>2. s.op = "remove_card" /\ dash[s.dash].state = "live" /\ created' = created
      /\ Bump(s.dash, s.version) /\ s.card \in DOMAIN CardsOf(s.dash)
  BY <1>1 DEF RemoveCard, Managed
<1>3. s.dash \in Dashboards /\ s.version \in Nat /\ Loaded(s)
  BY <1>1, <1>2, HandlerOf DEF Loads
<1>4. TableOK(card, created) /\ created \in Nat
  BY DEF EditorInv, TableOK
<1>5. PICK view : view = View(s)
  OBVIOUS
<1>6. /\ DOMAIN view = {x \in DOMAIN card : card[x].dash = s.dash}
      /\ \A c \in DOMAIN view : CardOK(view[c]) /\ view[c].dash = s.dash
  BY <1>3, <1>4, <1>5, ViewIsOf
<1>7. PICK rest : rest = [c \in DOMAIN CardsOf(s.dash) \ {s.card} |-> card[c]]
  OBVIOUS
<1>8. PICK new : new = [c \in DOMAIN rest |-> [view[c] EXCEPT
                            !.position = Cardinality({x \in DOMAIN rest : Earlier(rest, x, c)})]]
  OBVIOUS
<1>9. PICK table : table = Flush(s, new)
  OBVIOUS
<1>10. card' = [c \in DOMAIN table \ {s.card} |-> table[c]]
  BY SMTT(30), <1>1, <1>5, <1>7, <1>8, <1>9 DEF RemoveCard
<1>11. DOMAIN rest \subseteq DOMAIN view /\ DOMAIN new = DOMAIN rest
  BY <1>6, <1>7, <1>8 DEF CardsOf
<1>12. \A c \in DOMAIN new : new[c].dash = s.dash
  BY <1>6, <1>8, <1>11 DEF CardOK, CardFields
<1>13. OnlyAt(s.dash, card, table) /\ TableOK(table, created)
  <2>1. DOMAIN new \subseteq DOMAIN card \cup (created + 1)..created
    BY <1>6, <1>11
  <2>2. \A c \in DOMAIN new \cap DOMAIN card : card[c].dash = s.dash
    BY <1>6, <1>11
  <2>3. ObjectsOf(new, s.dash, created)
    BY <1>3, <1>4, <1>12, <2>1, <2>2 DEF ObjectsOf
  <2> QED
    BY <1>4, <1>9, <2>3, FlushIsAt
<1>14. card[s.card].dash = s.dash
  BY <1>2 DEF CardsOf
<1>15. DOMAIN card' = DOMAIN table \ {s.card} /\ \A c \in DOMAIN card' : card'[c] = table[c]
  BY <1>10
<1>16. TableOK(card', created')
  BY <1>2, <1>13, <1>15 DEF TableOK
<1>17. OnlyAt(s.dash, card, card')
  BY <1>13, <1>14, <1>15 DEF OnlyAt
<1>18. overtaken' = {} => UNCHANGED <<card, dash>> \/ s.version = dash[s.dash].version
  BY <1>1, <1>2, StaleIsMarked
<1> QED
  BY <1>1, <1>2, <1>3, <1>16, <1>17, <1>18, MovedOn

\* An order leaves the version alone, and a mark.
LEMMA ReorderEffect ==
    ASSUME EditorInv, NEW w \in Workers, Reorder(w), Remember(w)
    PROVE  Effect(session[w].dash)
<1>1. PICK s : s = session[w]
  OBVIOUS
<1>2. s.op = "reorder" /\ dash[s.dash].state = "live" /\ UNCHANGED <<dash, created>>
  BY <1>1 DEF Reorder
<1>3. s.dash \in Dashboards /\ Loaded(s)
  BY <1>1, <1>2, HandlerOf DEF Loads
<1>4. TableOK(card, created) /\ created \in Nat
  BY DEF EditorInv, TableOK
<1>5. PICK view : view = View(s)
  OBVIOUS
<1>6. /\ DOMAIN view = {x \in DOMAIN card : card[x].dash = s.dash}
      /\ \A c \in DOMAIN view : CardOK(view[c]) /\ view[c].dash = s.dash
  BY <1>3, <1>4, <1>5, ViewIsOf
<1>7. PICK ids : ids = DOMAIN CardsOf(s.dash)
  OBVIOUS
<1>8. PICK order : card' = Flush(s, [c \in ids |-> [view[c] EXCEPT !.position = order[c]]])
  BY <1>1, <1>5, <1>7 DEF Reorder
<1>9. PICK new : new = [c \in ids |-> [view[c] EXCEPT !.position = order[c]]]
  OBVIOUS
<1>10. DOMAIN new = DOMAIN view
  BY <1>6, <1>7, <1>9 DEF CardsOf
<1>11. \A c \in DOMAIN new : new[c].dash = s.dash
  BY <1>6, <1>9, <1>10 DEF CardOK, CardFields
<1>12. OnlyAt(s.dash, card, card') /\ TableOK(card', created')
  <2>1. DOMAIN new \subseteq DOMAIN card \cup (created + 1)..created
    BY <1>6, <1>10
  <2>2. \A c \in DOMAIN new \cap DOMAIN card : card[c].dash = s.dash
    BY <1>6, <1>10
  <2>3. ObjectsOf(new, s.dash, created)
    BY <1>3, <1>4, <1>11, <2>1, <2>2 DEF ObjectsOf
  <2> QED
    BY <1>2, <1>4, <1>8, <1>9, <2>3, FlushIsAt
<1>13. overtaken' = {} => UNCHANGED <<card, dash>>
  BY <1>1, <1>2 DEF Remember
<1>14. dash' \in [Dashboards -> Row]
  BY <1>2 DEF EditorInv
<1> QED
  BY <1>1, <1>2, <1>12, <1>13, <1>14 DEF Effect, SameServed

\* A card is saved at the end of a dashboard, from its current version.
LEMMA SaveCardEffect ==
    ASSUME EditorInv, NEW w \in Workers, NEW d \in Dashboards, NEW q, SaveCard(w, d, q)
    PROVE  Effect(d)
<1>1. dash[d].state = "live" /\ created' = created + 1 /\ Bump(d, dash[d].version)
  BY DEF SaveCard
<1>2. TableOK(card, created) /\ created \in Nat
  BY DEF EditorInv, TableOK
<1>3. PICK new : new = NewCard(d, Next_position(CardsOf(d)), "table", q)
  OBVIOUS
<1>4. CardOK(new) /\ new.dash = d
  BY <1>3, NewCardOK
<1>5. card' = Put(card, created + 1, new)
  BY <1>3 DEF SaveCard
<1>6. DOMAIN card' = DOMAIN card \cup {created + 1}
      /\ \A c \in DOMAIN card' : card'[c] = IF c = created + 1 THEN new ELSE card[c]
  BY <1>5 DEF Put
<1>7. created + 1 \notin DOMAIN card /\ created + 1 \in Nat /\ DOMAIN card' \subseteq 1..(created + 1)
  BY <1>2, <1>6 DEF TableOK
<1>8. TableOK(card', created')
  BY <1>1, <1>2, <1>4, <1>6, <1>7 DEF TableOK
<1>9. OnlyAt(d, card, card')
  BY <1>4, <1>6, <1>7 DEF OnlyAt
<1>10. dash[d].version \in Nat
  BY RowFields DEF EditorInv
<1> QED
  BY <1>1, <1>8, <1>9, <1>10, MovedOn

\* A title does not matter to what is served, and an archived dashboard stays one.
LEMMA RenameEffect ==
    ASSUME EditorInv, NEW w \in Workers, RenameDashboard(w) PROVE Effect(session[w].dash)
<1>1. PICK s : s = session[w]
  OBVIOUS
<1>2. s.op = "rename" /\ UNCHANGED <<card, created>>
      /\ Write(s.dash, [dash[s.dash] EXCEPT !.title = "new"])
  BY <1>1 DEF RenameDashboard
<1>3. s.dash \in Dashboards /\ dash[s.dash] \in Row
  BY <1>1, <1>2, HandlerOf
<1>4. PICK row : row = [dash[s.dash] EXCEPT !.title = "new"]
  OBVIOUS
<1>5. row \in Row /\ row.version = dash[s.dash].version /\ row.state = dash[s.dash].state
  BY <1>3, <1>4, RowFields
<1>6. /\ dash' \in [Dashboards -> Row] /\ dash'[s.dash] = row
      /\ \A d \in Dashboards \ {s.dash} : dash'[d] = dash[d]
  BY <1>2, <1>3, <1>4, <1>5, Written DEF EditorInv
<1>7. OnlyAt(s.dash, card, card') /\ TableOK(card', created')
  BY <1>2 DEF OnlyAt, EditorInv
<1> QED
  BY <1>1, <1>2, <1>5, <1>6, <1>7 DEF Effect, SameServed

\* An archived dashboard has the cards and the version it had.
LEMMA ArchiveEffect ==
    ASSUME EditorInv, NEW w \in Workers, ArchiveDashboard(w) PROVE Effect(session[w].dash)
<1>1. PICK s : s = session[w]
  OBVIOUS
<1>2. s.op = "archive" /\ UNCHANGED <<card, created>>
      /\ Write(s.dash, [dash[s.dash] EXCEPT !.state = "archived"])
  BY <1>1 DEF ArchiveDashboard
<1>3. s.dash \in Dashboards /\ dash[s.dash] \in Row
  BY <1>1, <1>2, HandlerOf
<1>4. PICK row : row = [dash[s.dash] EXCEPT !.state = "archived"]
  OBVIOUS
<1>5. row \in Row /\ row.version = dash[s.dash].version /\ row.state = "archived"
  BY <1>3, <1>4, RowFields
<1>6. /\ dash' \in [Dashboards -> Row] /\ dash'[s.dash] = row
      /\ \A d \in Dashboards \ {s.dash} : dash'[d] = dash[d]
  BY <1>2, <1>3, <1>4, <1>5, Written DEF EditorInv
<1>7. OnlyAt(s.dash, card, card') /\ TableOK(card', created')
  BY <1>2 DEF OnlyAt, EditorInv
<1> QED
  BY <1>1, <1>2, <1>5, <1>6, <1>7 DEF Effect, SameServed

\* A dashboard that is made is a row.
LEMMA NewRow ==
    ASSUME NEW u \in Users
    PROVE  /\ [NoRow EXCEPT !.state = "live", !.owner = u] \in Row
           /\ \A scope \in {"personal", "department", "global"}, dep \in Departments \cup {None} :
                [NoRow EXCEPT !.state = "live", !.owner = u, !.scope = scope,
                    !.department = IF scope = "department" THEN dep ELSE None] \in Row
<1>1. 1 \in Nat
  OBVIOUS
<1>2. NoRow \in Row
  BY <1>1 DEF NoRow, Row
<1>3. [NoRow EXCEPT !.state = "live", !.owner = u] \in Row
  BY <1>2 DEF Row
<1>4. ASSUME NEW scope \in {"personal", "department", "global"}, NEW dep \in Departments \cup {None}
      PROVE  [NoRow EXCEPT !.state = "live", !.owner = u, !.scope = scope,
                  !.department = IF scope = "department" THEN dep ELSE None] \in Row
  BY <1>2, <1>4 DEF Row
<1> QED
  BY <1>3, <1>4

\* A dashboard that is created is a new one.
LEMMA CreateEffect ==
    ASSUME EditorInv, NEW u \in Users, NEW d \in Dashboards,
           NEW scope \in {"personal", "department", "global"},
           NEW dep \in Departments \cup {None}, CreateDashboard(u, d, scope, dep)
    PROVE  Effect(d)
<1>1. PICK row : row = [NoRow EXCEPT !.state = "live", !.owner = u, !.scope = scope,
                           !.department = IF scope = "department" THEN dep ELSE None]
  OBVIOUS
<1>2. row \in Row
  BY <1>1, NewRow
<1>3. dash[d].state = "none" /\ Write(d, row) /\ UNCHANGED <<card, created>>
  BY <1>1 DEF CreateDashboard
<1>4. /\ dash' \in [Dashboards -> Row] /\ \A x \in Dashboards \ {d} : dash'[x] = dash[x]
  BY <1>2, <1>3, Written DEF EditorInv
<1>5. OnlyAt(d, card, card') /\ TableOK(card', created')
  BY <1>3 DEF OnlyAt, EditorInv
<1> QED
  BY <1>3, <1>4, <1>5 DEF Effect

\* As many cards are copied as were read.
LEMMA LengthOfOrder ==
    ASSUME NEW cards, IsFiniteSet(DOMAIN cards) PROVE Len(Ordered(cards)) \in Nat
<1>1. PICK n : n = Cardinality(DOMAIN cards)
  OBVIOUS
<1>2. n \in Nat
  BY <1>1, FS_CardinalityType
<1> DEFINE nth(i) == CHOOSE c \in DOMAIN cards :
              Cardinality({d \in DOMAIN cards : Earlier(cards, d, c)}) = i - 1
<1>3. Ordered(cards) = [i \in 1..Cardinality(DOMAIN cards) |-> nth(i)]
  BY DEF Ordered
<1> HIDE DEF nth
<1>4. Ordered(cards) = [i \in 1..n |-> nth(i)]
  BY <1>1, <1>3, Zenon
<1>5. PICK order : order = Ordered(cards)
  OBVIOUS
<1>6. order = [i \in 1..n |-> nth(i)]
  BY <1>4, <1>5, Zenon
<1>7. order \in Seq({order[i] : i \in 1..n})
  BY <1>2, <1>6
<1> QED
  BY <1>5, <1>7

\* A copy of a dashboard is a new one, and its cards are new.
LEMMA DuplicateDashboardEffect ==
    ASSUME EditorInv, NEW w \in Workers, NEW d \in Dashboards, DuplicateDashboard(w, d)
    PROVE  Effect(d)
<1>1. PICK s : s = session[w]
  OBVIOUS
<1>2. s.op = "duplicate_dashboard"
  BY <1>1 DEF DuplicateDashboard
<1>3. s.user \in Users /\ Loaded(s)
  BY <1>1, <1>2, HandlerOf DEF Loads
<1>4. PICK source : source = Ordered(s.seen)
  OBVIOUS
<1>5. PICK n : n = Len(source)
  OBVIOUS
<1>6. n \in Nat
  BY <1>3, <1>4, <1>5, LengthOfOrder DEF Loaded
<1>7. PICK copies : copies = [c \in (created + 1)..(created + n) |->
            LET original == s.seen[source[c - created]]
            IN  NewCard(d, c - created - 1, visualization_type_for_card(original), original.run)]
  OBVIOUS
<1>8. PICK layouts : layouts = normalize_card_layouts(copies)
  OBVIOUS
<1>9. dash[d].state = "none" /\ created' = created + n
      /\ Write(d, [NoRow EXCEPT !.state = "live", !.owner = s.user])
  BY <1>1, <1>4, <1>5 DEF DuplicateDashboard
<1>10. card' = [c \in DOMAIN card \cup DOMAIN copies |-> IF c \in DOMAIN card THEN card[c]
                   ELSE [copies[c] EXCEPT !.layout = layouts[c]]]
  BY <1>1, <1>4, <1>5, <1>7, <1>8 DEF DuplicateDashboard
<1>11. TableOK(card, created) /\ created \in Nat
  BY DEF EditorInv, TableOK
<1>12. DOMAIN copies = (created + 1)..(created + n)
       /\ \A c \in DOMAIN copies : CardOK(copies[c]) /\ copies[c].dash = d
  <2>1. DOMAIN copies = (created + 1)..(created + n)
    BY <1>7
  <2>2. ASSUME NEW c \in DOMAIN copies PROVE CardOK(copies[c]) /\ copies[c].dash = d
    <3>1. PICK original : original = s.seen[source[c - created]]
      OBVIOUS
    <3>2. copies[c] = NewCard(d, c - created - 1, visualization_type_for_card(original), original.run)
      BY <1>7, <2>1, <2>2, <3>1
    <3> QED
      BY <3>2, NewCardOK
  <2> QED
    BY <2>1, <2>2
<1>13. DOMAIN card' = DOMAIN card \cup DOMAIN copies /\ DOMAIN card \cap DOMAIN copies = {}
  BY <1>10, <1>11, <1>12 DEF TableOK
<1>14. \A c \in DOMAIN card : card'[c] = card[c]
  BY <1>10
<1>15. ASSUME NEW c \in DOMAIN copies PROVE CardOK(card'[c]) /\ card'[c].dash = d
  <2>1. card'[c] = [copies[c] EXCEPT !.layout = layouts[c]]
    BY <1>10, <1>13, <1>15
  <2> QED
    BY <1>12, <2>1 DEF CardOK, CardFields
<1>16. DOMAIN card' \subseteq 1..(created + n) /\ created + n \in Nat
  BY <1>6, <1>11, <1>12, <1>13 DEF TableOK
<1>17. TableOK(card', created')
  BY <1>9, <1>11, <1>13, <1>14, <1>15, <1>16 DEF TableOK
<1>18. OnlyAt(d, card, card')
  BY <1>13, <1>14, <1>15 DEF OnlyAt
<1>19. [NoRow EXCEPT !.state = "live", !.owner = s.user] \in Row
  BY <1>3, NewRow
<1>20. /\ dash' \in [Dashboards -> Row] /\ \A x \in Dashboards \ {d} : dash'[x] = dash[x]
  BY <1>9, <1>19, Written DEF EditorInv
<1> QED
  BY <1>9, <1>17, <1>18, <1>20 DEF Effect

-----------------------------------------------------------------------------
(* The invariant holds                                                     *)

\* What every step does to dashboards and cards
SomeEffect == (\E e \in Dashboards : Effect(e)) \/ UNCHANGED <<dash, card, created>>

\* A handler's last step
LEMMA FinishEffect ==
    ASSUME EditorInv, NEW w \in Workers, Finish(w), Remember(w)
    PROVE  SomeEffect /\ Done(w) /\ UNCHANGED draft
<1>1. CASE SaveLayout(w)
  BY <1>1, SaveLayoutEffect, HandlerOf DEF SomeEffect, SaveLayout
<1>2. CASE UpdateCard(w)
  BY <1>2, UpdateCardEffect, HandlerOf DEF SomeEffect, UpdateCard
<1>3. CASE DuplicateCard(w)
  BY <1>3, DuplicateCardEffect, HandlerOf DEF SomeEffect, DuplicateCard
<1>4. CASE RemoveCard(w)
  BY <1>4, RemoveCardEffect, HandlerOf DEF SomeEffect, RemoveCard
<1>5. CASE Reorder(w)
  BY <1>5, ReorderEffect, HandlerOf DEF SomeEffect, Reorder
<1>6. CASE RenameDashboard(w)
  BY <1>6, RenameEffect, HandlerOf DEF SomeEffect, RenameDashboard
<1>7. CASE ArchiveDashboard(w)
  BY <1>7, ArchiveEffect, HandlerOf DEF SomeEffect, ArchiveDashboard
<1>8. CASE \E d \in Dashboards : DuplicateDashboard(w, d)
  BY <1>8, DuplicateDashboardEffect DEF SomeEffect, DuplicateDashboard
<1>9. CASE \E d \in Dashboards, q \in Runs : SaveCard(w, d, q)
  BY <1>9, SaveCardEffect DEF SomeEffect, SaveCard
<1>10. CASE Abandon(w)
  BY <1>10 DEF SomeEffect, Abandon
<1> QED
  BY <1>1, <1>2, <1>3, <1>4, <1>5, <1>6, <1>7, <1>8, <1>9, <1>10 DEF Finish

\* What holds of the tables after any step, and what it keeps
LEMMA TablesKept ==
    ASSUME EditorInv, SomeEffect
    PROVE  /\ dash' \in [Dashboards -> Row] /\ TableOK(card', created')
           /\ overtaken' = {} =>
                 \A d \in Dashboards : \A v \in Nat : \A layouts :
                    Fresh(d, v, layouts, dash, card) => Fresh(d, v, layouts, dash', card')
           /\ \A d \in Dashboards : dash[d].state = "archived" => SameServed(d)
<1>1. CASE UNCHANGED <<dash, card, created>>
  BY <1>1 DEF EditorInv, SameServed
<1>2. ASSUME NEW e \in Dashboards, Effect(e)
      PROVE  /\ dash' \in [Dashboards -> Row] /\ TableOK(card', created')
             /\ overtaken' = {} =>
                   \A d \in Dashboards : \A v \in Nat : \A layouts :
                      Fresh(d, v, layouts, dash, card) => Fresh(d, v, layouts, dash', card')
             /\ \A d \in Dashboards : dash[d].state = "archived" => SameServed(d)
  BY <1>2, FreshKept, ArchivedKept DEF Effect
<1> QED
  BY <1>1, <1>2 DEF SomeEffect

\* The drafts and submissions that were fresh are so, or old.
LEMMA AllFreshKept ==
    ASSUME EditorInv, SomeEffect, overtaken' = {}, overtaken = {}
    PROVE  AllFresh(dash', card', session, draft)
<1>1. AllFresh(dash, card, session, draft)
  BY DEF EditorInv
<1>2. \A d \in Dashboards : \A v \in Nat : \A layouts :
          Fresh(d, v, layouts, dash, card) => Fresh(d, v, layouts, dash', card')
  BY TablesKept
<1>3. \A u \in Users : draft[u].dash # None => draft[u].dash \in Dashboards /\ draft[u].version \in Nat
  BY DEF EditorInv, DraftOK
<1>4. \A w \in Workers : session[w].op = "save_layout" =>
          session[w].dash \in Dashboards /\ session[w].version \in Nat
  BY HandlerOf
<1> QED
  BY <1>1, <1>2, <1>3, <1>4 DEF AllFresh

\* A handler that ends
LEMMA FinishInv ==
    ASSUME EditorInv, NEW w \in Workers, Finish(w), Remember(w) PROVE EditorInv'
<1>1. SomeEffect /\ Done(w) /\ UNCHANGED draft
  BY FinishEffect
<1>2. dash' \in [Dashboards -> Row] /\ TableOK(card', created')
  BY <1>1, TablesKept
<1>3. DOMAIN session' = Workers
      /\ \A v \in Workers : session'[v] = IF v = w THEN Idle ELSE session[v]
  BY <1>1 DEF Done, EditorInv
<1>4. \A v \in Workers : SessionOK(session'[v])
  BY <1>3 DEF EditorInv, SessionOK
<1>5. overtaken \subseteq overtaken'
  BY DEF Remember
<1>6. ASSUME overtaken' = {} PROVE AllFresh(dash', card', session', draft')
  <2>1. AllFresh(dash', card', session, draft)
    BY <1>1, <1>5, <1>6, AllFreshKept
  <2>2. Idle.op # "save_layout"
    BY DEF Idle
  <2> QED
    BY <1>1, <1>3, <2>1, <2>2 DEF AllFresh
<1> QED
  BY <1>1, <1>2, <1>3, <1>4, <1>6 DEF EditorInv

\* A dashboard that is created
LEMMA CreateInv ==
    ASSUME EditorInv, NEW u \in Users, NEW d \in Dashboards,
           NEW scope \in {"personal", "department", "global"},
           NEW dep \in Departments \cup {None}, CreateDashboard(u, d, scope, dep),
           UNCHANGED overtaken
    PROVE  EditorInv'
<1>1. SomeEffect
  BY CreateEffect DEF SomeEffect
<1>2. dash' \in [Dashboards -> Row] /\ TableOK(card', created')
  BY <1>1, TablesKept
<1>3. UNCHANGED <<session, draft>>
  BY DEF CreateDashboard
<1>4. overtaken' = {} => AllFresh(dash', card', session, draft)
  BY <1>1, AllFreshKept
<1> QED
  BY <1>2, <1>3, <1>4 DEF EditorInv

\* A handler that begins, with what it has loaded
LEMMA BeginInv ==
    ASSUME EditorInv, NEW w \in Workers, NEW u \in Users, NEW op, NEW d \in Dashboards,
           NEW c, NEW v \in Nat, NEW seen, Begin(w, u, op, d, c, v, seen), UNCHANGED overtaken,
           (op \in Loads => seen = CardsOf(d)),
           (op = "save_layout" => (overtaken = {} => Fresh(d, v, seen, dash, card)))
    PROVE  EditorInv'
<1>1. PICK s : s = [op |-> op, user |-> u, ctx |-> access[u], dash |-> d, card |-> c,
                    version |-> v, seen |-> seen]
  OBVIOUS
<1>2. s.op = op /\ s.user = u /\ s.dash = d /\ s.version = v /\ s.seen = seen
  BY <1>1
<1>3. DOMAIN session' = Workers
      /\ \A x \in Workers : session'[x] = IF x = w THEN s ELSE session[x]
  BY <1>1 DEF Begin, EditorInv
<1>4. UNCHANGED <<dash, card, created, draft>>
  BY DEF Begin
<1>5. op \in Loads => Loaded(s)
  <2> SUFFICES ASSUME op \in Loads PROVE Loaded(s)
    OBVIOUS
  <2>1. seen = CardsOf(d) /\ TableOK(card, created)
    BY DEF EditorInv
  <2>2. /\ IsFiniteSet(DOMAIN CardsOf(d))
        /\ \A x \in DOMAIN CardsOf(d) : CardOK(CardsOf(d)[x]) /\ CardsOf(d)[x].dash = d
    BY <2>1, CardsLoaded
  <2> QED
    BY <1>2, <2>1, <2>2 DEF Loaded
<1>6. SessionOK(s)
  BY <1>2, <1>5 DEF SessionOK
<1>7. overtaken = {} => AllFresh(dash, card, session', draft)
  BY <1>2, <1>3 DEF EditorInv, AllFresh
<1> QED
  BY <1>3, <1>4, <1>6, <1>7 DEF EditorInv

\* An editor that is opened
LEMMA OpenInv ==
    ASSUME EditorInv, NEW u \in Users, NEW d \in Dashboards, OpenEditor(u, d), UNCHANGED overtaken
    PROVE  EditorInv'
<1>1. PICK x : x = [dash |-> d, version |-> dash[d].version, layouts |-> Served(d)]
  OBVIOUS
<1>2. x.dash = d /\ x.version = dash[d].version /\ x.layouts = Served(d)
  BY <1>1
<1>3. DOMAIN draft' = Users /\ \A y \in Users : draft'[y] = IF y = u THEN x ELSE draft[y]
  BY <1>1 DEF OpenEditor, EditorInv
<1>4. UNCHANGED <<dash, card, created, session>> /\ dash[d].state = "live"
  BY DEF OpenEditor
<1>5. x.version \in Nat
  BY <1>2, RowFields DEF EditorInv
<1>6. Served(d) = normalize_card_layouts(CardsIn(card, d))
  BY CardsAre DEF Served
<1>7. Fresh(d, x.version, x.layouts, dash, card)
  BY <1>2, <1>4, <1>5, <1>6 DEF Fresh
<1>8. overtaken = {} => AllFresh(dash, card, session, draft')
  BY <1>2, <1>3, <1>7 DEF EditorInv, AllFresh
<1>9. \A y \in Users : DraftOK(draft'[y])
  BY <1>2, <1>3, <1>5 DEF EditorInv, DraftOK
<1> QED
  BY <1>3, <1>4, <1>8, <1>9 DEF EditorInv

\* A handler of a card loads its dashboard and the cards of that.
LEMMA BeginCardInv ==
    ASSUME EditorInv, NEW w \in Workers, NEW u \in Users,
           NEW op \in {"update_card", "duplicate_card", "remove_card"}, NEW c \in DOMAIN card,
           BeginCard(w, u, op, c), UNCHANGED overtaken
    PROVE  EditorInv'
<1>1. PICK d : d = card[c].dash
  OBVIOUS
<1>2. d \in Dashboards
  BY <1>1 DEF EditorInv, TableOK, CardOK
<1>3. PICK v : v = dash[d].version
  OBVIOUS
<1>4. v \in Nat
  BY <1>2, <1>3, RowFields DEF EditorInv
<1>5. Begin(w, u, op, d, c, v, CardsOf(d))
  BY <1>1, <1>3 DEF BeginCard
<1>6. op # "save_layout"
  OBVIOUS
<1> QED
  BY <1>2, <1>4, <1>5, <1>6, BeginInv

\* A handler of an order loads the cards.
LEMMA BeginReorderInv ==
    ASSUME EditorInv, NEW w \in Workers, NEW u \in Users, NEW d \in Dashboards,
           BeginReorder(w, u, d), UNCHANGED overtaken
    PROVE  EditorInv'
<1>1. Begin(w, u, "reorder", d, 0, 0, CardsOf(d)) /\ 0 \in Nat
  BY DEF BeginReorder
<1> QED
  BY <1>1, BeginInv

\* A handler of a dashboard loads its cards to copy them, and no others.
LEMMA BeginDashboardInv ==
    ASSUME EditorInv, NEW w \in Workers, NEW u \in Users, NEW d \in Dashboards,
           NEW op \in {"rename", "archive", "duplicate_dashboard"},
           BeginDashboard(w, u, op, d), UNCHANGED overtaken
    PROVE  EditorInv'
<1>1. PICK seen : seen = IF op = "duplicate_dashboard" THEN CardsOf(d) ELSE <<>>
  OBVIOUS
<1>2. Begin(w, u, op, d, 0, 0, seen) /\ 0 \in Nat
  BY <1>1 DEF BeginDashboard
<1>3. op \in Loads => seen = CardsOf(d)
  BY <1>1 DEF Loads
<1>4. op # "save_layout"
  OBVIOUS
<1> QED
  BY <1>2, <1>3, <1>4, BeginInv

\* A handler that saves a card loads nothing before its locks.
LEMMA BeginSaveCardInv ==
    ASSUME EditorInv, NEW w \in Workers, NEW u \in Users, NEW d \in Dashboards,
           Begin(w, u, "save_card", d, 0, 0, <<>>), UNCHANGED overtaken
    PROVE  EditorInv'
<1>1. 0 \in Nat /\ "save_card" \notin Loads
  BY DEF Loads
<1> QED
  BY <1>1, BeginInv

\* A draft is submitted as it is.
LEMMA BeginSaveInv ==
    ASSUME EditorInv, NEW w \in Workers, NEW u \in Users, BeginSave(w, u), UNCHANGED overtaken
    PROVE  EditorInv'
<1>1. PICK x : x = draft[u]
  OBVIOUS
<1>2. x.dash # None /\ Begin(w, u, "save_layout", x.dash, 0, x.version, x.layouts)
  BY <1>1 DEF BeginSave
<1>3. x.dash \in Dashboards /\ x.version \in Nat
  BY <1>1, <1>2 DEF EditorInv, DraftOK
<1>4. overtaken = {} => Fresh(x.dash, x.version, x.layouts, dash, card)
  BY <1>1, <1>2 DEF EditorInv, AllFresh
<1>5. "save_layout" \notin Loads
  BY DEF Loads
<1> QED
  BY <1>2, <1>3, <1>4, <1>5, BeginInv

\* A handler begins.
LEMMA BeginAnyInv ==
    ASSUME EditorInv, NEW w \in Workers, NEW u \in Users, BeginAny(w, u), UNCHANGED overtaken
    PROVE  EditorInv'
<1>1. CASE \E op \in {"update_card", "duplicate_card", "remove_card"}, c \in DOMAIN card :
              BeginCard(w, u, op, c)
  BY <1>1, BeginCardInv
<1>2. CASE \E d \in Dashboards : BeginReorder(w, u, d)
  BY <1>2, BeginReorderInv
<1>3. CASE \E d \in Dashboards : \E op \in {"rename", "archive", "duplicate_dashboard"} :
              BeginDashboard(w, u, op, d)
  BY <1>3, BeginDashboardInv
<1>4. CASE \E d \in Dashboards : Begin(w, u, "save_card", d, 0, 0, <<>>)
  BY <1>4, BeginSaveCardInv
<1>5. CASE BeginSave(w, u)
  BY <1>5, BeginSaveInv
<1> QED
  BY <1>1, <1>2, <1>3, <1>4, <1>5 DEF BeginAny

\* Nobody has begun anything, and no draft is open.
LEMMA EditorInvInit == Init => EditorInv
<1> SUFFICES ASSUME Init PROVE EditorInv
  OBVIOUS
<1>1. PICK n \in 0..MaxCards : DOMAIN InitialCards = 1..n
  BY EditorAssumption
<1>2. n \in Nat
  BY <1>1, EditorAssumption
<1>3. Cardinality(1..n) = n
  BY <1>2, FS_Interval
<1>4. TableOK(card, created)
  BY <1>1, <1>2, <1>3, EditorAssumption DEF Init, TableOK, CardOK
<1>5. \A w \in Workers : session[w] = Idle /\ SessionOK(session[w])
  BY DEF Init, SessionOK
<1>6. \A u \in Users : draft[u].dash = None
  BY DEF Init, NoDraft
<1>7. Idle.op # "save_layout"
  BY DEF Idle
<1>8. AllFresh(dash, card, session, draft)
  BY <1>5, <1>6, <1>7 DEF AllFresh
<1>9. dash \in [Dashboards -> Row]
  BY EditorAssumption DEF Init
<1>10. DOMAIN session = Workers /\ DOMAIN draft = Users
  BY DEF Init
<1> QED
  BY <1>4, <1>5, <1>6, <1>8, <1>9, <1>10 DEF EditorInv, DraftOK

\* Every step keeps the invariant, and has an effect on one dashboard at most.
LEMMA EditorStep == EditorInv /\ [Next]_dvars => EditorInv' /\ SomeEffect
<1> SUFFICES ASSUME EditorInv, [Next]_dvars PROVE EditorInv' /\ SomeEffect
  OBVIOUS
<1>1. ASSUME NEW w \in Workers, NEW u \in Users, BeginAny(w, u), UNCHANGED overtaken
      PROVE  EditorInv' /\ SomeEffect
  <2>1. UNCHANGED <<dash, card, created>>
    BY <1>1 DEF BeginAny, BeginCard, BeginReorder, BeginDashboard, BeginSave, Begin
  <2> QED
    BY <1>1, <2>1, BeginAnyInv DEF SomeEffect
<1>2. ASSUME NEW w \in Workers, Finish(w), Remember(w) PROVE EditorInv' /\ SomeEffect
  BY <1>2, FinishInv, FinishEffect
<1>3. ASSUME NEW u \in Users, NEW d \in Dashboards, OpenEditor(u, d), UNCHANGED overtaken
      PROVE  EditorInv' /\ SomeEffect
  <2>1. UNCHANGED <<dash, card, created>>
    BY <1>3 DEF OpenEditor
  <2> QED
    BY <1>3, <2>1, OpenInv DEF SomeEffect
<1>4. ASSUME NEW u \in Users, NEW d \in Dashboards,
             NEW scope \in {"personal", "department", "global"},
             NEW dep \in Departments \cup {None}, CreateDashboard(u, d, scope, dep),
             UNCHANGED overtaken
      PROVE  EditorInv' /\ SomeEffect
  BY <1>4, CreateInv, CreateEffect DEF SomeEffect
<1>5. ASSUME NEW u \in Users, ChangeAccess(u), UNCHANGED overtaken
      PROVE  EditorInv' /\ SomeEffect
  BY <1>5 DEF ChangeAccess, EditorInv, SomeEffect
<1>6. CASE UNCHANGED dvars
  BY <1>6 DEF dvars, EditorInv, SomeEffect
<1> QED
  BY <1>1, <1>2, <1>3, <1>4, <1>5, <1>6 DEF Next

\* The invariant holds in every state of the editors and handlers.
THEOREM EditorInvHolds == Spec => []EditorInv
<1>1. EditorInv /\ [Next]_dvars => EditorInv'
  BY EditorStep
<1> QED
  BY EditorInvInit, <1>1, PTL DEF Spec

-----------------------------------------------------------------------------
(* The properties                                                          *)

\* A dashboard that was archived while handlers were under way keeps its cards,
\* its order and its version: every write of a card is made under the lock of a
\* dashboard that was found there not archived.
THEOREM ArchivedStaysFrozen == Spec => ArchivedFrozen
<1> DEFINE Frozen == \A d \in Dashboards : dash[d].state = "archived" =>
                        /\ dash'[d].state = "archived" /\ dash'[d].version = dash[d].version
                        /\ CardsOf(d)' = CardsOf(d)
<1>1. EditorInv /\ [Next]_dvars => Frozen
  <2> SUFFICES ASSUME EditorInv, [Next]_dvars, NEW d \in Dashboards, dash[d].state = "archived"
               PROVE  /\ dash'[d].state = "archived" /\ dash'[d].version = dash[d].version
                      /\ CardsOf(d)' = CardsOf(d)
    OBVIOUS
  <2>1. SameServed(d)
    BY EditorStep, TablesKept
  <2>2. CardsOf(d) = CardsIn(card, d) /\ CardsOf(d)' = CardsIn(card', d)
    BY CardsAre, CardsWillBe
  <2> QED
    BY <2>1, <2>2 DEF SameServed
<1>2. EditorInv /\ [Next]_dvars => [Frozen]_dvars
  BY <1>1
<1> QED
  BY <1>2, EditorInvHolds, PTL DEF Spec, ArchivedFrozen

\* As long as nobody has written stale objects or stored an order, a draft is
\* only accepted while the dashboard is what the editor showed: every other
\* handler that changes what is served moves the version
\* (update_dashboard_editor_layout compares expected_layout_version).
THEOREM DraftsAreCurrent == Spec => DraftsExpire
<1> DEFINE Current == \A w \in Workers : SaveLayout(w) /\ overtaken = {} =>
                         session[w].seen = Served(session[w].dash)
<1>1. EditorInv /\ [Next]_dvars => Current
  <2> SUFFICES ASSUME EditorInv, NEW w \in Workers, SaveLayout(w), overtaken = {}
               PROVE  session[w].seen = Served(session[w].dash)
    OBVIOUS
  <2>1. PICK s : s = session[w]
    OBVIOUS
  <2>2. s.op = "save_layout" /\ s.version = dash[s.dash].version
    BY <2>1 DEF SaveLayout, Expected
  <2>3. Fresh(s.dash, s.version, s.seen, dash, card)
    BY <2>1, <2>2 DEF EditorInv, AllFresh
  <2>4. s.seen = normalize_card_layouts(CardsIn(card, s.dash))
    BY <2>2, <2>3 DEF Fresh
  <2> QED
    BY <2>1, <2>4, CardsAre DEF Served
<1>2. EditorInv /\ [Next]_dvars => [Current]_dvars
  BY <1>1
<1> QED
  BY <1>2, EditorInvHolds, PTL DEF Spec, DraftsExpire
-----------------------------------------------------------------------------
(* The order of cards                                                      *)

\* A set of naturals with an element has a least one.
LEMMA LeastNatural ==
    ASSUME NEW T, T \subseteq Nat, T # {}
    PROVE  \E x \in T : \A y \in T : x <= y
<1>1. PICK x \in T : \A y \in T : ~ (<<y, x>> \in OpToRel(<, Nat))
  BY NatLessThanWellFounded, WFMin
<1>2. \A y \in T : ~ (y < x)
  BY <1>1 DEF OpToRel
<1> QED
  BY <1>2

\* Cards as the algorithms are given them
Cards(cards) ==
    /\ IsFiniteSet(DOMAIN cards) /\ DOMAIN cards \subseteq Nat
    /\ \A c \in DOMAIN cards : CardData(cards[c])

\* The cards before c, and how many they are
Before(cards, c) == {d \in DOMAIN cards : Earlier(cards, d, c)}
RankOf(cards, c) == Cardinality(Before(cards, c))

\* Earlier orders the cards.
LEMMA EarlierOrders ==
    ASSUME NEW cards, Cards(cards)
    PROVE  /\ \A c \in DOMAIN cards : ~ Earlier(cards, c, c)
           /\ \A c, d \in DOMAIN cards : c # d => Earlier(cards, c, d) \/ Earlier(cards, d, c)
           /\ \A c, d, e \in DOMAIN cards :
                 Earlier(cards, c, d) /\ Earlier(cards, d, e) => Earlier(cards, c, e)
<1>1. \A c \in DOMAIN cards : c \in Nat /\ cards[c].position \in Int
  BY DEF Cards, CardData
<1> QED
  BY <1>1 DEF Earlier

\* A card has more before it than those before it have.
LEMMA RanksGrow ==
    ASSUME NEW cards, Cards(cards)
    PROVE  /\ \A c \in DOMAIN cards : RankOf(cards, c) \in 0..(Cardinality(DOMAIN cards) - 1)
           /\ \A c, d \in DOMAIN cards :
                 Earlier(cards, c, d) => RankOf(cards, c) < RankOf(cards, d)
<1>1. ASSUME NEW c \in DOMAIN cards
      PROVE  /\ IsFiniteSet(Before(cards, c)) /\ RankOf(cards, c) \in Nat
             /\ RankOf(cards, c) < Cardinality(DOMAIN cards)
  <2>1. Before(cards, c) \in SUBSET DOMAIN cards /\ c \in DOMAIN cards \ Before(cards, c)
    BY <1>1, EarlierOrders DEF Before
  <2>2. IsFiniteSet(DOMAIN cards)
    BY DEF Cards
  <2>3. /\ IsFiniteSet(Before(cards, c))
        /\ Cardinality(Before(cards, c)) <= Cardinality(DOMAIN cards)
        /\ Cardinality(Before(cards, c)) # Cardinality(DOMAIN cards)
    BY <2>1, <2>2, FS_Subset
  <2>4. Cardinality(Before(cards, c)) \in Nat /\ Cardinality(DOMAIN cards) \in Nat
    BY <2>2, <2>3, FS_CardinalityType
  <2> QED
    BY <2>3, <2>4 DEF RankOf
<1>2. Cardinality(DOMAIN cards) \in Nat
  BY FS_CardinalityType DEF Cards
<1>3. ASSUME NEW c \in DOMAIN cards, NEW d \in DOMAIN cards, Earlier(cards, c, d)
      PROVE  RankOf(cards, c) < RankOf(cards, d)
  <2>1. /\ Before(cards, c) \in SUBSET Before(cards, d)
        /\ c \in Before(cards, d) \ Before(cards, c)
    BY <1>3, EarlierOrders DEF Before
  <2>2. IsFiniteSet(Before(cards, d))
    BY <1>1
  <2>3. /\ Cardinality(Before(cards, c)) <= Cardinality(Before(cards, d))
        /\ Cardinality(Before(cards, c)) # Cardinality(Before(cards, d))
    BY <2>1, <2>2, FS_Subset
  <2> QED
    BY <1>1, <2>3 DEF RankOf
<1> QED
  BY <1>1, <1>2, <1>3

\* The order names every card, and nothing else.
LEMMA OrderedIs ==
    ASSUME NEW cards, Cards(cards), NEW n, n = Cardinality(DOMAIN cards)
    PROVE  /\ n \in Nat /\ Len(Ordered(cards)) = n
           /\ \A i \in 1..n : Ordered(cards)[i] \in DOMAIN cards
           /\ \A c \in DOMAIN cards : \E i \in 1..n : Ordered(cards)[i] = c
           /\ \A i, j \in 1..n : Ordered(cards)[i] = Ordered(cards)[j] => i = j
<1>1. n \in Nat
  BY FS_CardinalityType DEF Cards
<1> DEFINE S == DOMAIN cards
           r == [c \in S |-> RankOf(cards, c)]
<1>2. r \in [S -> 0..(n - 1)]
  BY RanksGrow
<1>3. \A c, d \in S : c # d => r[c] # r[d]
  <2>1. \A c \in S : r[c] \in Int
    BY <1>2
  <2>2. \A c, d \in S : Earlier(cards, c, d) => r[c] < r[d]
    BY RanksGrow
  <2> QED
    BY <2>1, <2>2, EarlierOrders
<1>4. r \in Injection(S, 0..(n - 1))
  BY <1>2, <1>3 DEF Injection, IsInjective
<1>5. IsFiniteSet(0..(n - 1)) /\ Cardinality(0..(n - 1)) = n
  <2>1. 0 \in Int /\ n - 1 \in Int
    BY <1>1
  <2>2. /\ IsFiniteSet(0..(n - 1))
        /\ Cardinality(0..(n - 1)) = IF 0 > n - 1 THEN 0 ELSE (n - 1) - 0 + 1
    BY <2>1, FS_Interval
  <2> QED
    BY <1>1, <2>2
<1>6. r \in Surjection(S, 0..(n - 1))
  BY <1>4, <1>5, FS_Injection
<1>7. \A k \in 0..(n - 1) : \E c \in S : r[c] = k
  BY <1>6 DEF Surjection
<1>8. PICK order : order = Ordered(cards)
  OBVIOUS
<1>9. order = [i \in 1..n |-> CHOOSE c \in S : RankOf(cards, c) = i - 1]
  BY <1>8 DEF Ordered, RankOf, Before
<1>10. ASSUME NEW i \in 1..n PROVE order[i] \in S /\ r[order[i]] = i - 1
  <2>1. \E c \in S : RankOf(cards, c) = i - 1
    BY <1>1, <1>7, <1>10
  <2>2. order[i] = CHOOSE c \in S : RankOf(cards, c) = i - 1
    BY <1>9, <1>10
  <2> QED
    BY <2>1, <2>2
<1>11. ASSUME NEW c \in S PROVE \E i \in 1..n : order[i] = c
  <2>1. r[c] \in 0..(n - 1)
    BY <1>2, <1>11
  <2>2. r[c] + 1 \in 1..n /\ r[c] + 1 - 1 = r[c]
    BY <1>1, <2>1
  <2>3. PICK i \in 1..n : i = r[c] + 1
    BY <2>2
  <2> HIDE DEF r
  <2>4. order[i] \in S /\ r[order[i]] = r[c]
    BY <1>10, <2>1, <2>3
  <2>5. order[i] = c
    BY <1>3, <1>11, <2>4
  <2> QED
    BY <2>5
<1>12. \A i, j \in 1..n : order[i] = order[j] => i = j
  <2>1. \A i \in 1..n : i = r[order[i]] + 1
    BY <1>1, <1>10
  <2> QED
    BY <2>1
<1>13. Len(order) = n
  BY <1>1, <1>9
<1> QED
  BY <1>1, <1>8, <1>10, <1>11, <1>12, <1>13

-----------------------------------------------------------------------------
(* Sizes and boxes                                                         *)

\* The type of a card has a size policy.
LEMMA TypeOfCard ==
    ASSUME NEW c, CardData(c)
    PROVE  visualization_type_for_card(c) \in VISUALIZATION_TYPES
<1>1. "table" \in VISUALIZATION_TYPES
  BY DEF VISUALIZATION_TYPES, SIZE_POLICY
<1> QED
  BY <1>1 DEF CardData, visualization_type_for_card

Types9 == {"kpi", "donut", "semicircle_gauge", "bar", "line", "area", "stacked_bar", "table",
           "status_list"}

\* The types by their names
LEMMA TypesAre == VISUALIZATION_TYPES = Types9
BY DEF VISUALIZATION_TYPES, SIZE_POLICY, Types9

\* The breakpoints and their columns
LEMMA BreakpointsAre ==
    /\ Breakpoints \subseteq {"desktop", "tablet", "mobile"}
    /\ BREAKPOINT_COLUMNS["desktop"] = 12 /\ BREAKPOINT_COLUMNS["tablet"] = 6
    /\ BREAKPOINT_COLUMNS["mobile"] = 1
BY BreakpointAssumption DEF BREAKPOINT_COLUMNS

\* No card is higher than four rows.
LEMMA Heights ==
    ASSUME NEW t \in VISUALIZATION_TYPES, NEW bp \in Breakpoints, NEW w, NEW h,
           <<w, h>> \in SIZE_POLICY[t][bp]
    PROVE  h \in 1..4
<1>1. bp \in {"desktop", "tablet", "mobile"} /\ t \in Types9
  BY BreakpointsAre, TypesAre
<1>2. \A s \in Kpi \cup Round \cup CartesianDesktop \cup CartesianTablet \cup Short : s[2] \in 1..4
  BY DEF Kpi, Round, CartesianDesktop, CartesianTablet, Short
<1> DEFINE s == <<w, h>>
<1>3. s \in SIZE_POLICY[t][bp] /\ s[2] = h
  OBVIOUS
<1> HIDE DEF s
<1>4. CASE t = "kpi"
  <2>1. SIZE_POLICY[t] = [desktop |-> Kpi, tablet |-> Kpi, mobile |-> {1} \X {1, 2}]
    BY <1>4 DEF SIZE_POLICY
  <2>2. s \in Kpi \/ s \in {1} \X {1, 2}
    BY <1>1, <1>3, <2>1
  <2> QED
    BY <1>2, <1>3, <2>2
<1>5. CASE t \in {"donut", "semicircle_gauge"}
  <2>1. SIZE_POLICY[t] = [desktop |-> Round, tablet |-> Round, mobile |-> Short]
    BY <1>5 DEF SIZE_POLICY
  <2>2. s \in Round \/ s \in Short
    BY <1>1, <1>3, <2>1
  <2> QED
    BY <1>2, <1>3, <2>2
<1>6. CASE t \in {"bar", "line", "area", "stacked_bar"}
  <2>1. SIZE_POLICY[t] = [desktop |-> CartesianDesktop, tablet |-> CartesianTablet,
                          mobile |-> Short]
    BY <1>6 DEF SIZE_POLICY
  <2>2. s \in CartesianDesktop \/ s \in CartesianTablet \/ s \in Short
    BY <1>1, <1>3, <2>1
  <2> QED
    BY <1>2, <1>3, <2>2
<1>7. CASE t = "table"
  <2>1. SIZE_POLICY[t] = [desktop |-> {4, 6, 8, 12} \X {2, 3, 4},
                          tablet |-> {3, 4, 6} \X {2, 3, 4}, mobile |-> {1} \X {2, 3, 4}]
    BY <1>7 DEF SIZE_POLICY
  <2>2. \/ s \in {4, 6, 8, 12} \X {2, 3, 4} \/ s \in {3, 4, 6} \X {2, 3, 4}
        \/ s \in {1} \X {2, 3, 4}
    BY <1>1, <1>3, <2>1
  <2> QED
    BY <1>3, <2>2
<1>8. CASE t = "status_list"
  <2>1. SIZE_POLICY[t] = [desktop |-> {<<8, 4>>, <<12, 4>>} \cup ({4, 6, 8} \X {2, 3}),
                          tablet |-> {<<6, 4>>} \cup ({4, 6} \X {2, 3}), mobile |-> Short]
    BY <1>8 DEF SIZE_POLICY
  <2>2. \/ s \in {<<8, 4>>, <<12, 4>>} \/ s \in {4, 6, 8} \X {2, 3} \/ s \in {<<6, 4>>}
        \/ s \in {4, 6} \X {2, 3} \/ s \in Short
    BY <1>1, <1>3, <2>1
  <2>3. \A x \in {<<8, 4>>, <<12, 4>>} \cup {<<6, 4>>} : x[2] \in 1..4
    OBVIOUS
  <2> QED
    BY <1>2, <1>3, <2>2, <2>3
<1> QED
  BY <1>1, <1>4, <1>5, <1>6, <1>7, <1>8 DEF Types9

\* At breakpoint bp the default size of type t is that of w columns and h rows.
DefaultIs(t, bp, w, h) ==
    /\ w > 0 /\ h \in 1..3 /\ w <= 6
    /\ DEFAULT_SIZES[t][bp] = IF bp = "mobile" THEN <<1, h>> ELSE <<w, h>>
    /\ (IF bp = "mobile" THEN <<1, h>> ELSE <<w, h>>) \in SIZE_POLICY[t][bp]

\* The default size of a type is one it may have.
LEMMA DefaultOfType ==
    ASSUME NEW t \in VISUALIZATION_TYPES, NEW bp \in Breakpoints
    PROVE  \E w, h \in Int : DefaultIs(t, bp, w, h)
<1>1. bp \in {"desktop", "tablet", "mobile"} /\ t \in Types9
  BY BreakpointsAre, TypesAre
<1>3. CASE t = "kpi"
  <2>1. SIZE_POLICY[t] = [desktop |-> Kpi, tablet |-> Kpi, mobile |-> {1} \X {1, 2}]
    BY <1>3 DEF SIZE_POLICY
  <2>2. DEFAULT_SIZES[t] = [desktop |-> <<3, 1>>, tablet |-> <<3, 1>>, mobile |-> <<1, 1>>]
    BY <1>3, TypesAre DEF DEFAULT_SIZES, Types9
  <2>3. DefaultIs(t, bp, 3, 1)
    BY <1>1, <2>1, <2>2 DEF DefaultIs, Kpi
  <2> QED
    BY <2>3
<1>4. CASE t \in {"donut", "semicircle_gauge"}
  <2>1. SIZE_POLICY[t] = [desktop |-> Round, tablet |-> Round, mobile |-> Short]
    BY <1>4 DEF SIZE_POLICY
  <2>2. DEFAULT_SIZES[t] = [desktop |-> <<3, 2>>, tablet |-> <<3, 2>>, mobile |-> <<1, 2>>]
    BY <1>4, TypesAre DEF DEFAULT_SIZES, Types9
  <2>3. DefaultIs(t, bp, 3, 2)
    BY <1>1, <2>1, <2>2 DEF DefaultIs, Round, Short
  <2> QED
    BY <2>3
<1>5. CASE t \in {"bar", "line", "area", "stacked_bar"}
  <2>1. SIZE_POLICY[t] = [desktop |-> CartesianDesktop, tablet |-> CartesianTablet,
                          mobile |-> Short]
    BY <1>5 DEF SIZE_POLICY
  <2>2. DEFAULT_SIZES[t] = [desktop |-> <<6, 2>>, tablet |-> <<6, 2>>, mobile |-> <<1, 2>>]
    BY <1>5, TypesAre DEF DEFAULT_SIZES, Types9
  <2>3. DefaultIs(t, bp, 6, 2)
    BY <1>1, <2>1, <2>2 DEF DefaultIs, CartesianDesktop, CartesianTablet, Short
  <2> QED
    BY <2>3
<1>6. CASE t = "table"
  <2>1. SIZE_POLICY[t] = [desktop |-> {4, 6, 8, 12} \X {2, 3, 4},
                          tablet |-> {3, 4, 6} \X {2, 3, 4}, mobile |-> {1} \X {2, 3, 4}]
    BY <1>6 DEF SIZE_POLICY
  <2>2. DEFAULT_SIZES[t] = [desktop |-> <<6, 3>>, tablet |-> <<6, 3>>, mobile |-> <<1, 3>>]
    BY <1>6, TypesAre DEF DEFAULT_SIZES, Types9
  <2>3. DefaultIs(t, bp, 6, 3)
    BY <1>1, <2>1, <2>2 DEF DefaultIs
  <2> QED
    BY <2>3
<1>7. CASE t = "status_list"
  <2>1. SIZE_POLICY[t] = [desktop |-> {<<8, 4>>, <<12, 4>>} \cup ({4, 6, 8} \X {2, 3}),
                          tablet |-> {<<6, 4>>} \cup ({4, 6} \X {2, 3}), mobile |-> Short]
    BY <1>7 DEF SIZE_POLICY
  <2>2. DEFAULT_SIZES[t] = [desktop |-> <<4, 2>>, tablet |-> <<4, 2>>, mobile |-> <<1, 2>>]
    BY <1>7, TypesAre DEF DEFAULT_SIZES, Types9
  <2>3. DefaultIs(t, bp, 4, 2)
    BY <1>1, <2>1, <2>2 DEF DefaultIs, Short
  <2> QED
    BY <2>3
<1> QED
  BY <1>1, <1>3, <1>4, <1>5, <1>6, <1>7 DEF Types9

\* It fits the columns and is at most three rows high.
LEMMA DefaultSize ==
    ASSUME NEW t \in VISUALIZATION_TYPES, NEW bp \in Breakpoints
    PROVE  \E w, h \in Int :
              /\ DEFAULT_SIZES[t][bp] = <<w, h>> /\ <<w, h>> \in SIZE_POLICY[t][bp]
              /\ w > 0 /\ w <= BREAKPOINT_COLUMNS[bp] /\ h \in 1..3
              /\ bp = "mobile" => w = 1
<1>1. PICK v, k \in Int : DefaultIs(t, bp, v, k)
  BY DefaultOfType
<1>2. CASE bp = "mobile"
  <2>1. /\ DEFAULT_SIZES[t][bp] = <<1, k>> /\ <<1, k>> \in SIZE_POLICY[t][bp]
        /\ 1 > 0 /\ 1 <= BREAKPOINT_COLUMNS[bp] /\ k \in 1..3
    BY <1>1, <1>2, BreakpointsAre DEF DefaultIs
  <2> WITNESS 1 \in Int, k \in Int
  <2> QED
    BY <2>1
<1>3. CASE bp # "mobile"
  <2>1. v <= BREAKPOINT_COLUMNS[bp]
    BY <1>1, <1>3, BreakpointsAre DEF DefaultIs
  <2> QED
    BY <1>1, <1>3, <2>1 DEF DefaultIs
<1> QED
  BY <1>2, <1>3

\* Boxes overlap both ways or not at all.
LEMMA OverlapIsMutual ==
    ASSUME NEW a \in Box, NEW b \in Box
    PROVE  _overlaps(a, b) <=> _overlaps(b, a)
BY DEF _overlaps, Box

\* Boxes that do not overlap share no cell.
LEMMA ApartShareNoCell ==
    ASSUME NEW a \in Box, NEW b \in Box, ~ _overlaps(a, b)
    PROVE  Cells(a) \cap Cells(b) = {}
<1> SUFFICES ASSUME NEW p \in Cells(a), p \in Cells(b) PROVE FALSE
  OBVIOUS
<1>1. PICK x \in a.x..(a.x + a.w - 1), y \in a.y..(a.y + a.h - 1) : p = <<x, y>>
  BY DEF Cells
<1>2. x \in b.x..(b.x + b.w - 1) /\ y \in b.y..(b.y + b.h - 1)
  BY <1>1 DEF Cells
<1> QED
  BY <1>1, <1>2 DEF _overlaps, Box

-----------------------------------------------------------------------------
(* Placing                                                                 *)

\* A box that the type of the card may have
Fits(x, bp, box) ==
    /\ box \in Box /\ ValidBox(box, bp)
    /\ <<box.w, box.h>> \in SIZE_POLICY[visualization_type_for_card(x)][bp]

\* Some cards are placed, in boxes that fit and lie apart.
Placement(cards, bp, placed) ==
    /\ DOMAIN placed \subseteq DOMAIN cards
    /\ \A c \in DOMAIN placed : Fits(cards[c], bp, placed[c])
    /\ \A c, d \in DOMAIN placed : c # d => ~ _overlaps(placed[c], placed[d])

\* Rows of four and three cells leave six rows in which they meet, so that many
\* cards can be placed on as many rows as there are.
Room(cards) == 6 * Cardinality(DOMAIN cards) <= MAX_LAYOUT_Y

\* One more box that fits and lies apart
LEMMA PutIsPlacement ==
    ASSUME NEW cards, NEW bp, NEW placed, Placement(cards, bp, placed),
           NEW c \in DOMAIN cards, NEW box, Fits(cards[c], bp, box), Free(box, Boxes(placed))
    PROVE  /\ Placement(cards, bp, Put(placed, c, box))
           /\ DOMAIN Put(placed, c, box) = DOMAIN placed \cup {c}
<1>1. PICK next : next = Put(placed, c, box)
  OBVIOUS
<1>2. /\ DOMAIN next = DOMAIN placed \cup {c} /\ next[c] = box
      /\ \A d \in DOMAIN placed : d # c => next[d] = placed[d]
  BY <1>1 DEF Put
<1>3. ASSUME NEW d \in DOMAIN placed PROVE ~ _overlaps(box, placed[d]) /\ ~ _overlaps(placed[d], box)
  <2>1. ~ _overlaps(box, placed[d])
    BY DEF Free, Boxes
  <2>2. box \in Box /\ placed[d] \in Box
    BY DEF Placement, Fits
  <2> QED
    BY <2>1, <2>2, OverlapIsMutual
<1>4. \A d \in DOMAIN next : Fits(cards[d], bp, next[d])
  BY <1>2 DEF Placement
<1>5. \A d, e \in DOMAIN next : d # e => ~ _overlaps(next[d], next[e])
  BY <1>2, <1>3 DEF Placement
<1> QED
  BY <1>1, <1>2, <1>4, <1>5 DEF Placement

\* A card that blocks a row is placed at most five rows away.
LEMMA BlockersAreNear ==
    ASSUME NEW w \in Int, NEW y \in 0..MAX_LAYOUT_Y, NEW h \in 1..3, NEW o \in Box, o.h \in 1..4,
           _overlaps([x |-> 0, y |-> y, w |-> w, h |-> h], o)
    PROVE  y - o.y + h - 1 \in 0..5
<1>1. o.y \in Int /\ o.h \in 1..4 /\ y \in Int /\ h \in 1..3
  BY DEF Box, MAX_LAYOUT_Y
<1>2. ~ (y + h <= o.y) /\ ~ (o.y + o.h <= y)
  BY DEF _overlaps
<1>3. PICK top, tall : top = o.y /\ tall = o.h
  OBVIOUS
<1>4. top \in Int /\ tall \in 1..4 /\ ~ (y + h <= top) /\ ~ (top + tall <= y)
  BY <1>1, <1>2, <1>3
<1>5. y - top + h - 1 \in 0..5
  BY <1>1, <1>4
<1> QED
  BY <1>3, <1>5

\* The size of an interval
LEMMA Intervals ==
    ASSUME NEW n \in Nat
    PROVE  IsFiniteSet(0..n) /\ Cardinality(0..n) = n + 1
<1>1. n \in Int /\ 0 \in Int
  OBVIOUS
<1>2. /\ IsFiniteSet(0..n)
      /\ Cardinality(0..n) = IF 0 > n THEN 0 ELSE n - 0 + 1
  BY <1>1, FS_Interval
<1> QED
  BY <1>2

\* With room for the cards, there are more rows than six for each card.
LEMMA RowsOutnumber ==
    ASSUME NEW cards, Cards(cards), Room(cards), NEW D \in SUBSET DOMAIN cards
    PROVE  /\ IsFiniteSet(D \X (0..5)) /\ IsFiniteSet(0..MAX_LAYOUT_Y)
           /\ Cardinality(D \X (0..5)) < Cardinality(0..MAX_LAYOUT_Y)
<1>1. IsFiniteSet(DOMAIN cards)
  BY DEF Cards
<1>2. /\ IsFiniteSet(D) /\ Cardinality(D) \in Nat /\ Cardinality(DOMAIN cards) \in Nat
      /\ Cardinality(D) <= Cardinality(DOMAIN cards)
  BY <1>1, FS_Subset, FS_CardinalityType
<1>3. IsFiniteSet(0..5) /\ Cardinality(0..5) = 6
  <2>1. PICK n \in Nat : n = 5
    OBVIOUS
  <2>2. IsFiniteSet(0..n) /\ Cardinality(0..n) = n + 1
    BY Intervals
  <2> QED
    BY <2>1, <2>2
<1>4. IsFiniteSet(D \X (0..5)) /\ Cardinality(D \X (0..5)) = Cardinality(D) * 6
  BY <1>2, <1>3, FS_Product
<1>5. /\ MAX_LAYOUT_Y \in Nat /\ IsFiniteSet(0..MAX_LAYOUT_Y)
      /\ Cardinality(0..MAX_LAYOUT_Y) = MAX_LAYOUT_Y + 1
  <2>1. MAX_LAYOUT_Y \in Nat
    BY DEF MAX_LAYOUT_Y
  <2> QED
    BY <2>1, Intervals
<1>6. Cardinality(D) * 6 < MAX_LAYOUT_Y + 1
  <2>1. PICK few, many : few = Cardinality(D) /\ many = Cardinality(DOMAIN cards)
    OBVIOUS
  <2>2. few \in Nat /\ many \in Nat /\ few <= many /\ 6 * many <= MAX_LAYOUT_Y
    BY <1>2, <2>1 DEF Room
  <2>3. few * 6 < MAX_LAYOUT_Y + 1
    BY <1>5, <2>2
  <2> QED
    BY <2>1, <2>3
<1> QED
  BY <1>4, <1>5, <1>6

\* A row is blocked by cards that are placed in one of the six rows around it, so
\* that there are more rows than the cards can block.
LEMMA SomeRowIsFree ==
    ASSUME NEW cards, Cards(cards), Room(cards), NEW bp \in Breakpoints,
           NEW placed, Placement(cards, bp, placed), NEW w \in Int, NEW h \in 1..3
    PROVE  \E y \in 0..MAX_LAYOUT_Y : Free([x |-> 0, y |-> y, w |-> w, h |-> h], Boxes(placed))
<1> DEFINE at(y) == [x |-> 0, y |-> y, w |-> w, h |-> h]
           D == DOMAIN placed
           blocker(y) == CHOOSE c \in D : _overlaps(at(y), placed[c])
           distance(y) == y - placed[blocker(y)].y + h - 1
           f == [y \in 0..MAX_LAYOUT_Y |-> <<blocker(y), distance(y)>>]
<1>0. SUFFICES ASSUME \A y \in 0..MAX_LAYOUT_Y : ~ Free(at(y), Boxes(placed)) PROVE FALSE
  OBVIOUS
<1>1. ASSUME NEW y \in 0..MAX_LAYOUT_Y
      PROVE  blocker(y) \in D /\ _overlaps(at(y), placed[blocker(y)])
  <2>1. \E c \in D : _overlaps(at(y), placed[c])
    BY <1>0 DEF Free, Boxes
  <2> QED
    BY <2>1
<1>2. \A c \in D : placed[c] \in Box /\ placed[c].h \in 1..4 /\ c \in DOMAIN cards
  <2> TAKE c \in D
  <2>1. /\ Fits(cards[c], bp, placed[c]) /\ c \in DOMAIN cards
    BY DEF Placement
  <2>2. visualization_type_for_card(cards[c]) \in VISUALIZATION_TYPES
    BY <2>1, TypeOfCard DEF Cards
  <2> QED
    BY <2>1, <2>2, Heights DEF Fits
<1>3. ASSUME NEW y \in 0..MAX_LAYOUT_Y
      PROVE  distance(y) \in 0..5
  <2>1. PICK o : o = placed[blocker(y)]
    OBVIOUS
  <2>2. o \in Box /\ o.h \in 1..4 /\ _overlaps(at(y), o)
    BY <1>1, <1>2, <2>1
  <2>3. y - o.y + h - 1 \in 0..5
    BY <2>2, BlockersAreNear
  <2> QED
    BY <2>1, <2>3
<1>4. f \in [0..MAX_LAYOUT_Y -> D \X (0..5)]
  <2> HIDE DEF blocker, distance
  <2> QED
    BY <1>1, <1>3
<1>5. \A y \in 0..MAX_LAYOUT_Y : f[y] = <<blocker(y), distance(y)>>
  <2> HIDE DEF blocker, distance
  <2> QED
    OBVIOUS
<1>6. D \in SUBSET DOMAIN cards
  BY DEF Placement
<1>7. PICK y, z \in 0..MAX_LAYOUT_Y : y # z /\ f[y] = f[z]
  <2> HIDE DEF f, D
  <2> QED
    BY <1>4, <1>6, RowsOutnumber, FS_PigeonHole
<1>8. blocker(y) = blocker(z) /\ distance(y) = distance(z)
  <2> HIDE DEF f, blocker, distance
  <2> QED
    BY <1>5, <1>7
<1>9. PICK a : a = placed[blocker(y)].y
  OBVIOUS
<1>10. a \in Int
  BY <1>1, <1>2, <1>9 DEF Box
<1>11. y - a + h - 1 = z - a + h - 1
  BY <1>8, <1>9
<1>12. y \in Int /\ z \in Int
  <2> HIDE DEF f, blocker, distance
  <2> QED
    BY SMTT(30), <1>7 DEF MAX_LAYOUT_Y
<1> QED
  <2> HIDE DEF f, blocker, distance
  <2> QED
    BY <1>7, <1>10, <1>11, <1>12

\* A size that fits the columns is given a place.
LEMMA FirstAvailable ==
    ASSUME NEW cards, Cards(cards), Room(cards), NEW bp \in Breakpoints,
           NEW placed, Placement(cards, bp, placed), NEW c \in DOMAIN cards,
           NEW size, size = DEFAULT_SIZES[visualization_type_for_card(cards[c])][bp]
    PROVE  /\ Fits(cards[c], bp, _first_available_coordinates(bp, size, Boxes(placed)))
           /\ Free(_first_available_coordinates(bp, size, Boxes(placed)), Boxes(placed))
<1>1. visualization_type_for_card(cards[c]) \in VISUALIZATION_TYPES
  BY TypeOfCard DEF Cards
<1>2. PICK w, h \in Int :
        /\ size = <<w, h>>
        /\ <<w, h>> \in SIZE_POLICY[visualization_type_for_card(cards[c])][bp]
        /\ w > 0 /\ w <= BREAKPOINT_COLUMNS[bp] /\ h \in 1..3
        /\ bp = "mobile" => w = 1
  BY <1>1, DefaultSize
<1>3. PICK n \in Int : n = BREAKPOINT_COLUMNS[bp] /\ (bp = "mobile" => n = 1)
  BY BreakpointsAre
<1> DEFINE at(x, y) == [x |-> x, y |-> y, w |-> w, h |-> h]
           free(y) == {x \in 0..(n - w) : Free(at(x, y), Boxes(placed))}
           T == {y \in 0..MAX_LAYOUT_Y : free(y) # {}}
           good(y) == free(y) # {} /\ \A z \in 0..(y - 1) : free(z) = {}
           row == CHOOSE y \in 0..MAX_LAYOUT_Y : good(y)
           column == CHOOSE x \in free(row) : \A z \in free(row) : x <= z
<1>4. T # {}
  <2>1. PICK y \in 0..MAX_LAYOUT_Y : Free(at(0, y), Boxes(placed))
    BY <1>2, SomeRowIsFree
  <2>2. 0 \in 0..(n - w)
    BY <1>2, <1>3
  <2> QED
    BY <2>1, <2>2
<1>5. PICK y \in T : \A z \in T : y <= z
  <2>0. 0..MAX_LAYOUT_Y \subseteq Nat
    BY DEF MAX_LAYOUT_Y
  <2>1. T \subseteq Nat
    <3> HIDE DEF free
    <3> QED
      BY <2>0
  <2> HIDE DEF T
  <2> QED
    BY <1>4, <2>1, LeastNatural
<1>6. y \in 0..MAX_LAYOUT_Y /\ good(y)
  <2>1. y \in 0..MAX_LAYOUT_Y /\ free(y) # {}
    BY <1>5
  <2>2. ASSUME NEW z \in 0..(y - 1), free(z) # {} PROVE FALSE
    <3>1. z \in 0..MAX_LAYOUT_Y /\ ~ (y <= z)
      <4>1. MAX_LAYOUT_Y \in Int
        BY DEF MAX_LAYOUT_Y
      <4> HIDE DEF free, T
      <4> QED
        BY <2>1, <4>1
    <3>2. z \in T
      BY <2>2, <3>1
    <3> QED
      BY <1>5, <3>1, <3>2
  <2> QED
    BY <2>1, <2>2
<1>7. row \in 0..MAX_LAYOUT_Y /\ good(row)
  <2> HIDE DEF good
  <2> QED
    BY <1>6
<1>8. \E x \in free(row) : \A z \in free(row) : x <= z
  <2>0. 0..(n - w) \subseteq Nat
    BY <1>2, <1>3
  <2>1a. ASSUME NEW r PROVE free(r) \subseteq Nat
    <3>1. free(r) \subseteq 0..(n - w)
      OBVIOUS
    <3> HIDE DEF free
    <3> QED
      BY <2>0, <3>1
  <2>1. free(row) # {} /\ free(row) \subseteq Nat
    <3> HIDE DEF free, row
    <3> QED
      BY <1>7, <2>1a
  <2> HIDE DEF free
  <2> QED
    BY <2>1, LeastNatural
<1>9. column \in free(row)
  <2> HIDE DEF free
  <2> QED
    BY <1>8
<1>10. PICK box : box = at(column, row)
  OBVIOUS
<1>11. box = _first_available_coordinates(bp, size, Boxes(placed))
  BY <1>2, <1>3, <1>10 DEF _first_available_coordinates
<1>12. Free(box, Boxes(placed)) /\ column \in 0..(n - w)
  BY <1>9, <1>10
<1>13. Fits(cards[c], bp, box)
  <2>1. PICK x, z : x = column /\ z = row
    OBVIOUS
  <2>2. /\ box = [x |-> x, y |-> z, w |-> w, h |-> h] /\ x \in 0..(n - w)
        /\ z \in 0..MAX_LAYOUT_Y
    BY <1>7, <1>10, <1>12, <2>1
  <2>3. box \in Box /\ box.x = x /\ box.y = z /\ box.w = w /\ box.h = h
    <3>1. x \in Int /\ z \in Int
      <4> HIDE DEF at, free, T, good, row, column
      <4> QED
        BY <2>2 DEF MAX_LAYOUT_Y
    <3>2. w \in Int /\ h \in Int
      BY <1>2
    <3> QED
      BY <2>2, <3>1, <3>2 DEF Box
  <2>4. ValidBox(box, bp)
    BY <1>2, <1>3, <2>2, <2>3 DEF ValidBox
  <2> QED
    BY <1>2, <2>3, <2>4 DEF Fits
<1> QED
  BY <1>11, <1>12, <1>13

-----------------------------------------------------------------------------
(* The two passes over the cards                                           *)

PassStep(pass, cards, bp, placed, c) ==
    IF pass = "keep" THEN Keep(cards, bp, placed, c) ELSE Place(cards, bp, placed, c)

PassStart(pass, cards, bp) == IF pass = "keep" THEN <<>> ELSE Kept(cards, bp)

\* What is placed after each of the first n cards
Walk(pass, cards, bp, n, s) ==
    s = [k \in 0..n |-> IF k = 0 THEN PassStart(pass, cards, bp)
                        ELSE PassStep(pass, cards, bp, s[k - 1], Ordered(cards)[k])]

\* There is such a walk, however many cards there are.
LEMMA WalksExist ==
    ASSUME NEW pass, NEW cards, NEW bp, NEW n \in Nat
    PROVE  \E s : Walk(pass, cards, bp, n, s)
<1> DEFINE Start == PassStart(pass, cards, bp)
           Step(p, k) == PassStep(pass, cards, bp, p, Ordered(cards)[k])
           Has(m) == \E s : s = [k \in 0..m |-> IF k = 0 THEN Start ELSE Step(s[k - 1], k)]
           T == {m \in Nat : ~ Has(m)}
<1> HIDE DEF Start, Step
<1>1. Has(0)
  <2> DEFINE s == [k \in 0..0 |-> Start]
  <2>1. s = [k \in 0..0 |-> IF k = 0 THEN Start ELSE Step(s[k - 1], k)]
    OBVIOUS
  <2> QED
    BY <2>1
<1>2. ASSUME NEW m \in Nat, Has(m)
      PROVE  Has(m + 1)
  <2>1. PICK s : s = [k \in 0..m |-> IF k = 0 THEN Start ELSE Step(s[k - 1], k)]
    BY <1>2
  <2> DEFINE t == [k \in 0..(m + 1) |-> IF k = m + 1 THEN Step(s[m], m + 1) ELSE s[k]]
  <2>2. ASSUME NEW k \in 0..(m + 1)
        PROVE  t[k] = IF k = 0 THEN Start ELSE Step(t[k - 1], k)
    <3>1. CASE k = m + 1
      <4>1. k # 0 /\ k - 1 = m /\ m \in 0..(m + 1) /\ m # m + 1
        BY <3>1
      <4>2. t[k] = Step(s[m], k) /\ t[k - 1] = s[m]
        BY <3>1, <4>1
      <4> HIDE DEF t
      <4> QED
        BY <4>1, <4>2
    <3>2. CASE k # m + 1
      <4>1. k \in 0..m /\ t[k] = s[k] /\ (k # 0 => k - 1 \in 0..m /\ t[k - 1] = s[k - 1])
        BY <3>2
      <4>2. s[k] = IF k = 0 THEN Start ELSE Step(s[k - 1], k)
        BY <2>1, <4>1
      <4> HIDE DEF t
      <4> QED
        BY <4>1, <4>2
    <3> QED
      BY <3>1, <3>2
  <2>3. t = [k \in 0..(m + 1) |-> t[k]]
    OBVIOUS
  <2> HIDE DEF t
  <2>4. t = [k \in 0..(m + 1) |-> IF k = 0 THEN Start ELSE Step(t[k - 1], k)]
    BY <2>2, <2>3
  <2> QED
    BY <2>4
<1>3. SUFFICES ASSUME T # {} PROVE FALSE
  <2>1. Has(n)
    <3> HIDE DEF Has
    <3> QED
      BY <1>3
  <2> QED
    BY <2>1 DEF Walk, Start, Step
<1> HIDE DEF Has
<1>4. T \subseteq Nat
  OBVIOUS
<1>5. PICK m \in T : \A k \in T : m <= k
  BY <1>3, <1>4, LeastNatural
<1>6. m \in Nat /\ m # 0
  BY <1>1, <1>5
<1>7. m - 1 \in Nat /\ ~ (m <= m - 1) /\ m - 1 + 1 = m
  BY <1>6
<1>8. Has(m - 1)
  BY <1>5, <1>7
<1> QED
  BY <1>2, <1>5, <1>7, <1>8

\* A step of either pass leaves a placement of at least the cards placed before;
\* one of the second pass places its card.
LEMMA StepIsPlacement ==
    ASSUME NEW cards, Cards(cards), Room(cards), NEW bp \in Breakpoints,
           NEW placed, Placement(cards, bp, placed), NEW c \in DOMAIN cards,
           NEW pass \in {"keep", "place"},
           NEW next, next = PassStep(pass, cards, bp, placed, c)
    PROVE  /\ Placement(cards, bp, next) /\ DOMAIN placed \subseteq DOMAIN next
           /\ pass = "place" => c \in DOMAIN next
<1>1. CASE pass = "keep"
  <2> DEFINE usable == /\ parse_layout(cards[c].layout, visualization_type_for_card(cards[c]))
                       /\ Free(cards[c].layout[bp], Boxes(placed))
  <2>1. next = IF usable THEN Put(placed, c, cards[c].layout[bp]) ELSE placed
    BY <1>1 DEF PassStep, Keep
  <2>2. CASE usable
    <3>1. cards[c].layout \in [Breakpoints -> Box]
      BY <2>2 DEF Cards, CardData, parse_layout
    <3>2. Fits(cards[c], bp, cards[c].layout[bp])
      BY <2>2, <3>1 DEF parse_layout, Fits
    <3>3. PICK box : box = cards[c].layout[bp]
      OBVIOUS
    <3>4. next = Put(placed, c, box)
      BY <2>1, <2>2, <3>3
    <3>5. Fits(cards[c], bp, box) /\ Free(box, Boxes(placed))
      BY <2>2, <3>2, <3>3
    <3>6. Placement(cards, bp, next) /\ DOMAIN next = DOMAIN placed \cup {c}
      BY <3>4, <3>5, PutIsPlacement
    <3> QED
      BY <1>1, <3>6
  <2>3. CASE ~ usable
    <3>1. next = placed
      BY <2>1, <2>3
    <3> QED
      BY <1>1, <3>1
  <2> QED
    BY <2>2, <2>3
<1>2. CASE pass = "place"
  <2>1. PICK size : size = DEFAULT_SIZES[visualization_type_for_card(cards[c])][bp]
    OBVIOUS
  <2>2. PICK box : box = _first_available_coordinates(bp, size, Boxes(placed))
    OBVIOUS
  <2>3. next = IF c \in DOMAIN placed THEN placed ELSE Put(placed, c, box)
    BY <1>2, <2>1, <2>2 DEF PassStep, Place
  <2>4. Fits(cards[c], bp, box) /\ Free(box, Boxes(placed))
    BY <2>1, <2>2, FirstAvailable
  <2>5. /\ Placement(cards, bp, Put(placed, c, box))
        /\ DOMAIN Put(placed, c, box) = DOMAIN placed \cup {c}
    BY <2>4, PutIsPlacement
  <2>6. CASE c \in DOMAIN placed
    <3>1. next = placed
      BY <2>3, <2>6
    <3> QED
      BY <2>6, <3>1
  <2>7. CASE c \notin DOMAIN placed
    <3>1. next = Put(placed, c, box)
      BY <2>3, <2>7
    <3> QED
      BY <2>5, <3>1
  <2> QED
    BY <2>6, <2>7
<1> QED
  BY <1>1, <1>2

\* So does a whole pass.
LEMMA WalkIsPlacement ==
    ASSUME NEW cards, Cards(cards), Room(cards), NEW bp \in Breakpoints,
           NEW pass \in {"keep", "place"}, NEW n, n = Cardinality(DOMAIN cards),
           NEW s, Walk(pass, cards, bp, n, s), Placement(cards, bp, PassStart(pass, cards, bp))
    PROVE  /\ Placement(cards, bp, s[n])
           /\ pass = "place" => DOMAIN s[n] = DOMAIN cards
<1> DEFINE order == Ordered(cards)
           Good(k) == /\ Placement(cards, bp, s[k])
                      /\ pass = "place" => \A j \in 1..k : order[j] \in DOMAIN s[k]
           T == {k \in 0..n : ~ Good(k)}
<1>1. /\ n \in Nat /\ \A i \in 1..n : order[i] \in DOMAIN cards
      /\ \A c \in DOMAIN cards : \E i \in 1..n : order[i] = c
  BY OrderedIs
<1>2. \A k \in 0..n : s[k] = IF k = 0 THEN PassStart(pass, cards, bp)
                             ELSE PassStep(pass, cards, bp, s[k - 1], order[k])
  <2>1. s = [k \in 0..n |-> IF k = 0 THEN PassStart(pass, cards, bp)
                            ELSE PassStep(pass, cards, bp, s[k - 1], order[k])]
    BY DEF Walk
  <2> HIDE DEF order
  <2> QED
    BY <2>1
<1> HIDE DEF order
<1>3. Good(0)
  <2>1. s[0] = PassStart(pass, cards, bp)
    BY <1>1, <1>2
  <2> QED
    BY <2>1
<1>4. ASSUME NEW k \in 0..n, k # 0, Good(k - 1) PROVE Good(k)
  <2>1. k \in 1..n /\ \A j \in 1..k : j = k \/ j \in 1..(k - 1)
    BY <1>1, <1>4
  <2>2. s[k] = PassStep(pass, cards, bp, s[k - 1], order[k]) /\ order[k] \in DOMAIN cards
    BY <1>1, <1>2, <1>4, <2>1
  <2>3. PICK last, next : last = s[k - 1] /\ next = s[k]
    OBVIOUS
  <2>4. /\ Placement(cards, bp, next) /\ DOMAIN last \subseteq DOMAIN next
        /\ pass = "place" => order[k] \in DOMAIN next
    BY <1>4, <2>2, <2>3, StepIsPlacement
  <2> QED
    BY <1>4, <2>1, <2>3, <2>4
<1>5. T = {}
  <2> HIDE DEF Good
  <2> SUFFICES ASSUME T # {} PROVE FALSE
    OBVIOUS
  <2>1. T \subseteq Nat
    BY <1>1
  <2>2. PICK k \in T : \A j \in T : k <= j
    BY <2>1, LeastNatural
  <2>3. k \in 0..n /\ k # 0 /\ ~ Good(k)
    BY <1>3, <2>2
  <2>4. k - 1 \in 0..n /\ ~ (k <= k - 1)
    BY <1>1, <2>3
  <2>5. Good(k - 1)
    BY <2>2, <2>4
  <2> QED
    BY <1>4, <2>3, <2>5
<1>6. Good(n)
  <2> HIDE DEF Good
  <2> QED
    BY <1>1, <1>5
<1>7. ASSUME pass = "place" PROVE DOMAIN s[n] = DOMAIN cards
  <2>1. \A c \in DOMAIN cards : c \in DOMAIN s[n]
    BY <1>1, <1>6, <1>7
  <2>2. DOMAIN s[n] \subseteq DOMAIN cards
    BY <1>6 DEF Placement
  <2> QED
    BY <2>1, <2>2
<1> QED
  BY <1>6, <1>7

\* What the first pass keeps is a placement,
LEMMA KeptIsPlacement ==
    ASSUME NEW cards, Cards(cards), Room(cards), NEW bp \in Breakpoints
    PROVE  Placement(cards, bp, Kept(cards, bp))
<1>1. PICK n \in Nat : n = Cardinality(DOMAIN cards) /\ Len(Ordered(cards)) = n
  BY OrderedIs
<1>2. PICK order : order = Ordered(cards)
  OBVIOUS
<1>3. PICK r : r = [k \in 0..n |-> IF k = 0 THEN <<>> ELSE Keep(cards, bp, r[k - 1], order[k])]
  <2>1. PICK r : Walk("keep", cards, bp, n, r)
    BY WalksExist
  <2>2. r = [k \in 0..n |-> IF k = 0 THEN <<>> ELSE Keep(cards, bp, r[k - 1], order[k])]
    BY <1>2, <2>1, Zenon DEF Walk, PassStart, PassStep
  <2> QED
    BY <2>2
<1>4. PICK s : s = CHOOSE u : u = [k \in 0..n |-> IF k = 0 THEN <<>>
                                                 ELSE Keep(cards, bp, u[k - 1], order[k])]
  OBVIOUS
<1>5. s = [k \in 0..n |-> IF k = 0 THEN <<>> ELSE Keep(cards, bp, s[k - 1], order[k])]
  BY <1>3, <1>4
<1>6. Walk("keep", cards, bp, n, s)
  BY <1>2, <1>5, Zenon DEF Walk, PassStart, PassStep
<1>7. Kept(cards, bp) = s[n]
  BY <1>1, <1>2, <1>4 DEF Kept
<1>8. Placement(cards, bp, PassStart("keep", cards, bp))
  BY DEF PassStart, Placement
<1> QED
  BY <1>1, <1>6, <1>7, <1>8, WalkIsPlacement

\* and the second pass adds all the other cards to it.
LEMMA PlacedIsPlacement ==
    ASSUME NEW cards, Cards(cards), Room(cards), NEW bp \in Breakpoints
    PROVE  /\ Placement(cards, bp, Placed(cards, bp))
           /\ DOMAIN Placed(cards, bp) = DOMAIN cards
<1>1. PICK n \in Nat : n = Cardinality(DOMAIN cards) /\ Len(Ordered(cards)) = n
  BY OrderedIs
<1>2. PICK order, kept : order = Ordered(cards) /\ kept = Kept(cards, bp)
  OBVIOUS
<1>3. PICK r : r = [k \in 0..n |-> IF k = 0 THEN kept ELSE Place(cards, bp, r[k - 1], order[k])]
  <2>1. PICK r : Walk("place", cards, bp, n, r)
    BY WalksExist
  <2>2. r = [k \in 0..n |-> IF k = 0 THEN kept ELSE Place(cards, bp, r[k - 1], order[k])]
    BY <1>2, <2>1 DEF Walk, PassStart, PassStep
  <2> QED
    BY <2>2
<1>4. PICK s : s = CHOOSE u : u = [k \in 0..n |-> IF k = 0 THEN kept
                                                 ELSE Place(cards, bp, u[k - 1], order[k])]
  OBVIOUS
<1>5. s = [k \in 0..n |-> IF k = 0 THEN kept ELSE Place(cards, bp, s[k - 1], order[k])]
  BY <1>3, <1>4
<1>6. Walk("place", cards, bp, n, s)
  BY <1>2, <1>5 DEF Walk, PassStart, PassStep
<1>7. Placed(cards, bp) = s[n]
  BY <1>1, <1>2, <1>4 DEF Placed
<1>8. Placement(cards, bp, PassStart("place", cards, bp))
  BY KeptIsPlacement DEF PassStart
<1> QED
  BY <1>1, <1>6, <1>7, <1>8, WalkIsPlacement

\* What is served is proper.
LEMMA NormalizeIsProper ==
    ASSUME NEW cards, Cards(cards), Room(cards), NEW layouts,
           layouts = normalize_card_layouts(cards)
    PROVE  /\ layouts \in [DOMAIN cards -> [Breakpoints -> Box]]
           /\ Proper(cards, layouts)
<1>1. \A bp \in Breakpoints : bp \in {"desktop", "tablet", "mobile"}
  BY BreakpointsAre
<1>2. \A c \in DOMAIN cards, bp \in Breakpoints : layouts[c][bp] = Placed(cards, bp)[c]
  BY <1>1 DEF normalize_card_layouts
<1>3. layouts = [c \in DOMAIN cards |-> [bp \in Breakpoints |-> layouts[c][bp]]]
  <2> DEFINE box(c, bp) == CASE bp = "desktop" -> Placed(cards, "desktop")[c]
                             [] bp = "tablet"  -> Placed(cards, "tablet")[c]
                             [] bp = "mobile"  -> Placed(cards, "mobile")[c]
  <2>1. layouts = [c \in DOMAIN cards |-> [bp \in Breakpoints |-> box(c, bp)]]
    BY DEF normalize_card_layouts
  <2> HIDE DEF box
  <2>2. \A c \in DOMAIN cards : layouts[c] = [bp \in Breakpoints |-> layouts[c][bp]]
    BY <2>1
  <2>3. layouts = [c \in DOMAIN cards |-> layouts[c]]
    BY <2>1
  <2> QED
    BY <2>2, <2>3
<1>4. \A c \in DOMAIN cards, bp \in Breakpoints : Fits(cards[c], bp, layouts[c][bp])
  <2> TAKE c \in DOMAIN cards, bp \in Breakpoints
  <2> QED
    BY <1>2, PlacedIsPlacement DEF Placement
<1>5. layouts \in [DOMAIN cards -> [Breakpoints -> Box]]
  BY <1>3, <1>4 DEF Fits
<1>6. ASSUME NEW c \in DOMAIN cards
      PROVE  parse_layout(layouts[c], visualization_type_for_card(cards[c]))
  <2>1. layouts[c] # NoLayout
    <3>1. layouts[c] \in [Breakpoints -> Box] /\ "desktop" \in Breakpoints
      BY <1>5, BreakpointAssumption
    <3>2. "desktop" \in DOMAIN layouts[c] /\ DOMAIN NoLayout = {}
      BY <3>1 DEF NoLayout
    <3> QED
      BY <3>2
  <2> QED
    BY <1>4, <2>1 DEF parse_layout, Fits
<1>7. ASSUME NEW bp \in Breakpoints, NEW c \in DOMAIN cards, NEW d \in DOMAIN cards, c # d
      PROVE  Cells(layouts[c][bp]) \cap Cells(layouts[d][bp]) = {}
  <2>1. ~ _overlaps(layouts[c][bp], layouts[d][bp])
    BY <1>2, <1>7, PlacedIsPlacement DEF Placement
  <2>2. layouts[c][bp] \in Box /\ layouts[d][bp] \in Box
    BY <1>4 DEF Fits
  <2> QED
    BY <2>1, <2>2, ApartShareNoCell
<1> QED
  BY <1>5, <1>6, <1>7 DEF Proper

-----------------------------------------------------------------------------
(* Columns that hold what the algorithms expect                            *)

Data(table) == \A c \in DOMAIN table : CardData(table[c])

\* The code has no limit on the cards of a dashboard, but a layout has one on its
\* rows: this many cards always find a place.
RoomForCards == 6 * MaxCards <= MAX_LAYOUT_Y

\* All cards hold data, those that handlers have loaded too.
LayoutInv ==
    /\ created <= MaxCards /\ Data(card)
    /\ \A w \in Workers : session[w].op \in Loads => Cards(session[w].seen)

\* Cards out of those that can be created are few enough.
LEMMA NumberedCards ==
    ASSUME RoomForCards, NEW cards, DOMAIN cards \subseteq 1..MaxCards, Data(cards)
    PROVE  Cards(cards) /\ Room(cards)
<1>1. MaxCards \in Nat
  BY EditorAssumption
<1>2. IsFiniteSet(1..MaxCards) /\ Cardinality(1..MaxCards) = MaxCards
  <2>1. 1 \in Int /\ MaxCards \in Int
    BY <1>1
  <2>2. /\ IsFiniteSet(1..MaxCards)
        /\ Cardinality(1..MaxCards) = IF 1 > MaxCards THEN 0 ELSE MaxCards - 1 + 1
    BY <2>1, FS_Interval
  <2> QED
    BY <1>1, <2>2
<1>3. /\ IsFiniteSet(DOMAIN cards) /\ Cardinality(DOMAIN cards) <= MaxCards
      /\ Cardinality(DOMAIN cards) \in Nat
  BY <1>2, FS_Subset, FS_CardinalityType
<1>4. PICK few : few = Cardinality(DOMAIN cards)
  OBVIOUS
<1>5. 6 * few <= MAX_LAYOUT_Y
  BY <1>1, <1>3, <1>4 DEF RoomForCards, MAX_LAYOUT_Y
<1>6. DOMAIN cards \subseteq Nat
  OBVIOUS
<1> QED
  BY <1>3, <1>4, <1>5, <1>6 DEF Cards, Room, Data

\* The cards of a dashboard are such cards.
LEMMA DashboardCards ==
    ASSUME TableOK(card, created), LayoutInv, NEW d
    PROVE  /\ DOMAIN CardsOf(d) \subseteq 1..MaxCards /\ Data(CardsOf(d)) /\ Cards(CardsOf(d))
<1>1. DOMAIN card \subseteq 1..MaxCards
  BY EditorAssumption DEF TableOK, LayoutInv
<1>2. DOMAIN CardsOf(d) \subseteq 1..MaxCards /\ Data(CardsOf(d))
  BY <1>1 DEF CardsOf, LayoutInv, Data
<1>3. IsFiniteSet(DOMAIN CardsOf(d))
  BY CardsLoaded
<1> QED
  BY <1>2, <1>3 DEF Cards, Data

\* So are those a handler holds.
LEMMA ViewData ==
    ASSUME TableOK(card, created), LayoutInv, NEW s, Cards(s.seen), Loaded(s), s.dash \in Dashboards
    PROVE  DOMAIN View(s) \subseteq 1..MaxCards /\ DOMAIN View(s) \subseteq 1..created /\ Data(View(s))
<1>1. PICK view : view = View(s)
  OBVIOUS
<1>2. DOMAIN view = {x \in DOMAIN card : card[x].dash = s.dash}
  BY <1>1, ViewIsOf
<1>3. \A c \in DOMAIN view : view[c] = IF c \in DOMAIN s.seen THEN s.seen[c] ELSE card[c]
  BY <1>1 DEF View
<1>4. \A c \in DOMAIN view : CardData(view[c])
  BY <1>2, <1>3 DEF Cards, LayoutInv, Data
<1>5. DOMAIN view \subseteq 1..created /\ created <= MaxCards /\ created \in Nat
  BY <1>2 DEF TableOK, LayoutInv
<1> QED
  BY <1>1, <1>4, <1>5, EditorAssumption DEF Data

\* A commit of data leaves data: every column is an old or a new one.
LEMMA FlushData ==
    ASSUME Data(card), NEW s, NEW new, Data(new) PROVE Data(Flush(s, new))
<1>1. PICK next : next = Flush(s, new)
  OBVIOUS
<1>2. DOMAIN next = DOMAIN card \cup DOMAIN new
  BY <1>1 DEF Flush
<1>3. ASSUME NEW c \in DOMAIN next PROVE CardData(next[c])
  <2>1. CASE c \notin DOMAIN new
    <3>1. next[c] = card[c] /\ c \in DOMAIN card
      BY <1>1, <1>2, <2>1 DEF Flush
    <3> QED
      BY <3>1 DEF Data
  <2>2. CASE c \in DOMAIN new
    <3>1. next[c] = [dash |-> new[c].dash, run |-> new[c].run,
                     position |-> Column(s, c, new, "position"),
                     card_type |-> Column(s, c, new, "card_type"),
                     config |-> Column(s, c, new, "config"),
                     layout |-> Column(s, c, new, "layout")]
      BY <1>1, <2>2 DEF Flush
    <3>2. \A f \in {"position", "config", "layout"} :
             Column(s, c, new, f) = new[c][f] \/ (c \in DOMAIN card /\ Column(s, c, new, f) = card[c][f])
      BY DEF Column
    <3>3. CardData(new[c]) /\ (c \in DOMAIN card => CardData(card[c]))
      BY <2>2 DEF Data
    <3>4. PICK p, k, l : /\ p = Column(s, c, new, "position") /\ k = Column(s, c, new, "config")
                         /\ l = Column(s, c, new, "layout")
      OBVIOUS
    <3>5. /\ p = new[c].position \/ (c \in DOMAIN card /\ p = card[c].position)
          /\ k = new[c].config \/ (c \in DOMAIN card /\ k = card[c].config)
          /\ l = new[c].layout \/ (c \in DOMAIN card /\ l = card[c].layout)
      BY <3>2, <3>4
    <3>6. /\ p \in Int /\ k \in VISUALIZATION_TYPES \cup {NoConfig}
          /\ l = NoLayout \/ l \in [Breakpoints -> Box]
      BY <3>3, <3>5 DEF CardData
    <3>7. next[c].position = p /\ next[c].config = k /\ next[c].layout = l
      BY <3>1, <3>4
    <3> QED
      BY <3>6, <3>7 DEF CardData
  <2> QED
    BY <2>1, <2>2
<1> QED
  BY <1>1, <1>3 DEF Data

\* A position that is derived is a number of cards.
LEMMA PositionsAreCounts ==
    ASSUME NEW layouts, IsFiniteSet(DOMAIN layouts)
    PROVE  /\ DOMAIN derive_positions(layouts) = DOMAIN layouts
           /\ \A c \in DOMAIN layouts : derive_positions(layouts)[c] \in Nat
<1> DEFINE before(c, d) ==
             LET top(x) == layouts[x]["desktop"]
             IN  \/ top(c).y < top(d).y
                 \/ top(c).y = top(d).y /\ top(c).x < top(d).x
                 \/ top(c).y = top(d).y /\ top(c).x = top(d).x /\ c < d
           earlier(c) == {d \in DOMAIN layouts : before(d, c)}
<1>1. derive_positions(layouts) = [c \in DOMAIN layouts |-> Cardinality(earlier(c))]
  BY DEF derive_positions
<1>2. \A c : earlier(c) \in SUBSET DOMAIN layouts
  OBVIOUS
<1> HIDE DEF earlier
<1>3. \A c : Cardinality(earlier(c)) \in Nat
  BY <1>2, FS_Subset, FS_CardinalityType
<1> QED
  BY <1>1, <1>3

\* A new arrangement is data.
LEMMA RearrangedData ==
    ASSUME RoomForCards, NEW cards, DOMAIN cards \subseteq 1..MaxCards, Data(cards),
           \A c \in DOMAIN cards : CardOK(cards[c])
    PROVE  Data(Rearranged(cards))
<1>1. Cards(cards) /\ Room(cards)
  BY NumberedCards
<1>2. PICK layouts : layouts = normalize_card_layouts(cards)
  OBVIOUS
<1>3. layouts \in [DOMAIN cards -> [Breakpoints -> Box]]
  BY <1>1, <1>2, NormalizeIsProper
<1>4. PICK positions : positions = derive_positions(layouts)
  OBVIOUS
<1>5. \A c \in DOMAIN cards : positions[c] \in Nat
  BY <1>1, <1>3, <1>4, PositionsAreCounts DEF Cards
<1>6. Rearranged(cards) = [c \in DOMAIN cards |-> [cards[c] EXCEPT !.layout = layouts[c],
                                                                 !.position = positions[c]]]
  BY <1>2, <1>4 DEF Rearranged
<1>7. ASSUME NEW c \in DOMAIN cards PROVE CardData(Rearranged(cards)[c])
  <2>1. PICK x : x = Rearranged(cards)[c]
    OBVIOUS
  <2>2. x = [cards[c] EXCEPT !.layout = layouts[c], !.position = positions[c]]
    BY <1>6, <2>1
  <2>3. DOMAIN cards[c] = CardFields
    BY DEF CardOK
  <2>4. x.layout = layouts[c] /\ x.position = positions[c] /\ x.config = cards[c].config
    BY <2>2, <2>3 DEF CardFields
  <2>5. cards[c].config \in VISUALIZATION_TYPES \cup {NoConfig}
    BY DEF Data, CardData
  <2> QED
    BY <1>3, <1>5, <2>1, <2>4, <2>5 DEF CardData
<1> QED
  BY <1>6, <1>7 DEF Data

\* The next position follows the last one.
LEMMA NextPosition ==
    ASSUME NEW cards, Cards(cards) PROVE Next_position(cards) \in Int
<1>1. CASE cards = <<>>
  BY <1>1 DEF Next_position
<1>2. CASE cards # <<>>
  <2> DEFINE S == DOMAIN cards
             n == Cardinality(S)
             T == {n - RankOf(cards, c) : c \in S}
             P == {cards[c].position : c \in S}
             last == CHOOSE p \in P : \A c \in S : cards[c].position <= p
  <2>1. \A c \in S : cards[c].position \in Int
    BY DEF Cards, CardData
  <2>2. CASE S = {}
    <3>1. cards = <<>>
      BY <2>2
    <3> QED
      BY <1>2, <3>1
  <2>3. CASE S # {}
    <3>1. n \in Nat /\ \A c \in S : RankOf(cards, c) \in 0..(n - 1)
      BY RanksGrow, FS_CardinalityType DEF Cards
    <3>2. T \subseteq Nat /\ T # {}
      BY <2>3, <3>1
    <3>3. PICK t \in T : \A u \in T : t <= u
      BY <3>2, LeastNatural
    <3>4. PICK c \in S : t = n - RankOf(cards, c)
      BY <3>3
    <3>5. ASSUME NEW d \in S, ~ (cards[d].position <= cards[c].position) PROVE FALSE
      <4>1. Earlier(cards, c, d)
        BY <2>1, <3>5 DEF Earlier
      <4>2. RankOf(cards, c) < RankOf(cards, d)
        BY <4>1, RanksGrow
      <4>3. t <= n - RankOf(cards, d)
        BY <3>3
      <4> QED
        BY <3>1, <3>4, <4>2, <4>3
    <3>6. \E p \in P : \A d \in S : cards[d].position <= p
      BY <3>5
    <3>7. last \in P
      BY <3>6
    <3>8. last \in Int
      BY <2>1, <3>7
    <3>9. Next_position(cards) = 1 + last
      BY <1>2 DEF Next_position
    <3> HIDE DEF last
    <3> QED
      BY <3>8, <3>9
  <2> QED
    BY <2>2, <2>3
<1> QED
  BY <1>1, <1>2

\* A card that is made is data.
LEMMA NewCardData ==
    ASSUME NEW d, NEW position \in Int, NEW type \in VISUALIZATION_TYPES, NEW q
    PROVE  CardData(NewCard(d, position, type, q))
BY DEF NewCard, CardData

\* A card that is moved is data.
LEMMA MovedData ==
    ASSUME NEW x, DOMAIN x = CardFields, CardData(x), NEW p \in Int
    PROVE  CardData([x EXCEPT !.position = p])
<1>1. PICK y : y = [x EXCEPT !.position = p]
  OBVIOUS
<1>2. y.position = p /\ y.config = x.config /\ y.layout = x.layout
  BY <1>1 DEF CardFields
<1> QED
  BY <1>1, <1>2 DEF CardData

\* What a handler that has loaded cards holds
LEMMA Held ==
    ASSUME EditorInv, LayoutInv, NEW w \in Workers, NEW s, s = session[w], s.op \in Loads
    PROVE  /\ TableOK(card, created) /\ created \in Nat /\ created <= MaxCards /\ MaxCards \in Nat
           /\ s.dash \in Dashboards /\ Cards(s.seen)
           /\ DOMAIN View(s) = {x \in DOMAIN card : card[x].dash = s.dash}
           /\ DOMAIN View(s) \subseteq 1..created /\ DOMAIN View(s) \subseteq 1..MaxCards
           /\ Data(View(s)) /\ \A c \in DOMAIN View(s) : CardOK(View(s)[c])
<1>1. TableOK(card, created) /\ created \in Nat /\ created <= MaxCards /\ MaxCards \in Nat
  BY EditorAssumption DEF EditorInv, TableOK, LayoutInv
<1>2. s.op # "idle"
  BY DEF Loads
<1>3. s.dash \in Dashboards /\ Loaded(s)
  BY <1>2, HandlerOf
<1>4. Cards(s.seen)
  BY DEF LayoutInv
<1> QED
  BY <1>1, <1>3, <1>4, ViewData, ViewIsOf

-----------------------------------------------------------------------------
(* The steps of a handler leave data                                       *)

DataAfter == created' <= MaxCards /\ Data(card')

\* A layout that is accepted is one of boxes.
LEMMA SaveLayoutData ==
    ASSUME EditorInv, LayoutInv, NEW w \in Workers, SaveLayout(w) PROVE DataAfter
<1>1. PICK ids : ids = DOMAIN CardsOf(session[w].dash)
  OBVIOUS
<1>2. PICK layouts \in [ids -> LayoutChoices] :
          card' = [c \in DOMAIN card |-> IF c \notin ids THEN card[c]
                    ELSE [card[c] EXCEPT !.layout = layouts[c],
                                         !.position = derive_positions(layouts)[c]]]
  BY <1>1 DEF SaveLayout
<1>3. PICK positions : positions = derive_positions(layouts)
  OBVIOUS
<1>4. TableOK(card, created) /\ Data(card)
  BY DEF EditorInv, LayoutInv
<1>5. IsFiniteSet(ids) /\ ids \subseteq DOMAIN card
  BY <1>1, <1>4, CardsLoaded
<1>6. \A c \in ids : positions[c] \in Nat
  BY <1>2, <1>3, <1>5, PositionsAreCounts
<1>7. ASSUME NEW c \in DOMAIN card PROVE CardData(card'[c])
  <2>1. CASE c \notin ids
    BY <1>2, <1>4, <2>1 DEF Data
  <2>2. CASE c \in ids
    <3>1. PICK x : x = card'[c]
      OBVIOUS
    <3>2. x = [card[c] EXCEPT !.layout = layouts[c], !.position = positions[c]]
      BY <1>2, <1>3, <2>2, <3>1
    <3>3. DOMAIN card[c] = CardFields
      BY <1>4 DEF TableOK, CardOK
    <3>4. x.layout = layouts[c] /\ x.position = positions[c] /\ x.config = card[c].config
      BY <3>2, <3>3 DEF CardFields
    <3>5. layouts[c] \in [Breakpoints -> Box]
      BY <1>2, <2>2, EditorAssumption
    <3>6. card[c].config \in VISUALIZATION_TYPES \cup {NoConfig}
      BY <1>4 DEF Data, CardData
    <3> QED
      BY <1>6, <2>2, <3>1, <3>4, <3>5, <3>6 DEF CardData
  <2> QED
    BY <2>1, <2>2
<1>8. DOMAIN card' = DOMAIN card
  BY <1>2
<1>9. created' = created
  BY DEF SaveLayout
<1> QED
  BY <1>7, <1>8, <1>9 DEF DataAfter, LayoutInv, Data

\* A type that a card is given is a type.
LEMMA UpdateCardData ==
    ASSUME RoomForCards, EditorInv, LayoutInv, NEW w \in Workers, UpdateCard(w) PROVE DataAfter
<1>1. PICK s : s = session[w]
  OBVIOUS
<1>2. s.op \in Loads /\ created' = created /\ s.card \in DOMAIN CardsOf(s.dash)
  BY <1>1 DEF UpdateCard, StillThere, Loads
<1>3. PICK view : view = View(s)
  OBVIOUS
<1>4. /\ DOMAIN view = {x \in DOMAIN card : card[x].dash = s.dash}
      /\ DOMAIN view \subseteq 1..MaxCards /\ Data(view) /\ \A c \in DOMAIN view : CardOK(view[c])
  BY <1>1, <1>2, <1>3, Held
<1>5. PICK t \in Types : card' = Flush(s, Rearranged([view EXCEPT ![s.card] =
                  [view[s.card] EXCEPT !.config = t, !.card_type = t, !.layout = NoLayout]]))
  BY <1>1, <1>3 DEF UpdateCard
<1>6. PICK new : new = [view[s.card] EXCEPT !.config = t, !.card_type = t, !.layout = NoLayout]
  OBVIOUS
<1>7. s.card \in DOMAIN view
  BY <1>2, <1>4 DEF CardsOf
<1>8. CardOK(new) /\ CardData(new)
  <2>1. CardOK(view[s.card]) /\ CardData(view[s.card])
    BY <1>4, <1>7 DEF Data
  <2>2. /\ DOMAIN new = DOMAIN view[s.card] /\ new.dash = view[s.card].dash
        /\ new.config = t /\ new.layout = NoLayout /\ new.position = view[s.card].position
    BY <1>6, <2>1 DEF CardOK, CardFields
  <2>3. t \in VISUALIZATION_TYPES
    BY EditorAssumption
  <2> QED
    BY <2>1, <2>2, <2>3 DEF CardOK, CardData
<1>9. PICK cards : cards = [view EXCEPT ![s.card] = new]
  OBVIOUS
<1>10. /\ DOMAIN cards = DOMAIN view
       /\ \A c \in DOMAIN cards : cards[c] = IF c = s.card THEN new ELSE view[c]
  BY <1>9
<1>11. /\ DOMAIN cards \subseteq 1..MaxCards /\ Data(cards)
       /\ \A c \in DOMAIN cards : CardOK(cards[c])
  BY <1>4, <1>8, <1>10 DEF Data
<1>12. Data(Rearranged(cards))
  BY <1>11, RearrangedData
<1>13. card' = Flush(s, Rearranged(cards))
  BY <1>5, <1>6, <1>9
<1>14. Data(card')
  BY <1>12, <1>13, FlushData DEF LayoutInv
<1> QED
  BY <1>2, <1>14 DEF DataAfter, LayoutInv

\* A copy has the type of its original and the next position.
LEMMA DuplicateCardData ==
    ASSUME RoomForCards, EditorInv, LayoutInv, NEW w \in Workers, DuplicateCard(w)
    PROVE  DataAfter
<1>1. PICK s : s = session[w]
  OBVIOUS
<1>2. /\ s.op \in Loads /\ created' = created + 1 /\ created < MaxCards
      /\ s.card \in DOMAIN CardsOf(s.dash)
  BY <1>1 DEF DuplicateCard, StillThere, Loads
<1>3. PICK view : view = View(s)
  OBVIOUS
<1>4. /\ DOMAIN view = {x \in DOMAIN card : card[x].dash = s.dash}
      /\ DOMAIN view \subseteq 1..created /\ DOMAIN view \subseteq 1..MaxCards /\ Data(view)
      /\ \A c \in DOMAIN view : CardOK(view[c])
      /\ created \in Nat /\ MaxCards \in Nat /\ s.dash \in Dashboards
  BY <1>1, <1>2, <1>3, Held
<1>5. PICK copy : copy = NewCard(s.dash, Next_position(view),
                                visualization_type_for_card(view[s.card]), card[s.card].run)
  OBVIOUS
<1>6. CardOK(copy) /\ CardData(copy)
  <2>1. Next_position(view) \in Int
    BY <1>4, NumberedCards, NextPosition
  <2>2. s.card \in DOMAIN view
    BY <1>2, <1>4 DEF CardsOf
  <2>3. visualization_type_for_card(view[s.card]) \in VISUALIZATION_TYPES
    BY <1>4, <2>2, TypeOfCard DEF Data
  <2> QED
    BY <1>4, <1>5, <2>1, <2>3, NewCardOK, NewCardData
<1>7. PICK cards : cards = Put(view, created + 1, copy)
  OBVIOUS
<1>8. /\ DOMAIN cards = DOMAIN view \cup {created + 1}
      /\ \A c \in DOMAIN cards : cards[c] = IF c = created + 1 THEN copy ELSE view[c]
  BY <1>7 DEF Put
<1>9. created + 1 \in 1..MaxCards
  BY <1>2, <1>4
<1>10. /\ DOMAIN cards \subseteq 1..MaxCards /\ Data(cards)
       /\ \A c \in DOMAIN cards : CardOK(cards[c])
  BY <1>4, <1>6, <1>8, <1>9 DEF Data
<1>11. card' = Flush(s, Rearranged(cards))
  BY <1>1, <1>3, <1>5, <1>7 DEF DuplicateCard
<1>12. Data(card')
  BY <1>10, <1>11, RearrangedData, FlushData DEF LayoutInv
<1>13. created' <= MaxCards
  BY <1>2, <1>4
<1> QED
  BY <1>12, <1>13 DEF DataAfter

\* Cards that are renumbered are given numbers.
LEMMA RemoveCardData ==
    ASSUME EditorInv, LayoutInv, NEW w \in Workers, RemoveCard(w) PROVE DataAfter
<1>1. PICK s : s = session[w]
  OBVIOUS
<1>2. s.op \in Loads /\ created' = created
  BY <1>1 DEF RemoveCard, Loads
<1>3. PICK view : view = View(s)
  OBVIOUS
<1>4. /\ DOMAIN view = {x \in DOMAIN card : card[x].dash = s.dash} /\ Data(view)
      /\ \A c \in DOMAIN view : CardOK(view[c])
      /\ TableOK(card, created)
  BY <1>1, <1>2, <1>3, Held
<1>5. PICK rest : rest = [c \in DOMAIN CardsOf(s.dash) \ {s.card} |-> card[c]]
  OBVIOUS
<1> DEFINE rank(c) == Cardinality({x \in DOMAIN rest : Earlier(rest, x, c)})
<1>6. PICK new : new = [c \in DOMAIN rest |-> [view[c] EXCEPT !.position = rank(c)]]
  OBVIOUS
<1>7. PICK table : table = Flush(s, new)
  OBVIOUS
<1>8. card' = [c \in DOMAIN table \ {s.card} |-> table[c]]
  BY SMTT(30), <1>1, <1>3, <1>5, <1>6, <1>7 DEF RemoveCard
<1>9. DOMAIN rest \subseteq DOMAIN view /\ IsFiniteSet(DOMAIN rest)
  <2>1. IsFiniteSet(DOMAIN CardsOf(s.dash)) /\ DOMAIN rest = DOMAIN CardsOf(s.dash) \ {s.card}
    BY <1>4, <1>5, CardsLoaded
  <2> QED
    BY <1>4, <2>1, FS_Subset DEF CardsOf
<1>10. \A c : rank(c) \in Nat
  <2> TAKE c
  <2>1. {x \in DOMAIN rest : Earlier(rest, x, c)} \in SUBSET DOMAIN rest
    OBVIOUS
  <2> QED
    BY <1>9, <2>1, FS_Subset, FS_CardinalityType
<1> HIDE DEF rank
<1>11. DOMAIN new = DOMAIN rest /\ \A c \in DOMAIN new : new[c] = [view[c] EXCEPT !.position = rank(c)]
  BY <1>6
<1>12. Data(new)
  <2> SUFFICES ASSUME NEW c \in DOMAIN new PROVE CardData(new[c])
    BY DEF Data
  <2>1. CardData(view[c]) /\ DOMAIN view[c] = CardFields
    BY <1>4, <1>9, <1>11 DEF Data, CardOK
  <2>2. rank(c) \in Int
    BY <1>10
  <2> QED
    BY <1>11, <2>1, <2>2, MovedData
<1>13. Data(table)
  BY <1>7, <1>12, FlushData DEF LayoutInv
<1>14. Data(card')
  BY <1>8, <1>13 DEF Data
<1> QED
  BY <1>2, <1>14 DEF DataAfter, LayoutInv

\* An order consists of numbers.
LEMMA ReorderData ==
    ASSUME EditorInv, LayoutInv, NEW w \in Workers, Reorder(w) PROVE DataAfter
<1>1. PICK s : s = session[w]
  OBVIOUS
<1>2. s.op \in Loads /\ created' = created
  BY <1>1 DEF Reorder, Loads
<1>3. PICK view : view = View(s)
  OBVIOUS
<1>4. /\ DOMAIN view = {x \in DOMAIN card : card[x].dash = s.dash} /\ Data(view)
      /\ \A c \in DOMAIN view : CardOK(view[c])
  BY <1>1, <1>2, <1>3, Held
<1>5. PICK ids : ids = DOMAIN CardsOf(s.dash)
  OBVIOUS
<1>6. PICK order \in [ids -> 0..(Cardinality(ids) - 1)] :
          card' = Flush(s, [c \in ids |-> [view[c] EXCEPT !.position = order[c]]])
  BY <1>1, <1>3, <1>5 DEF Reorder
<1>7. PICK new : new = [c \in ids |-> [view[c] EXCEPT !.position = order[c]]]
  OBVIOUS
<1>8. Data(new)
  <2> SUFFICES ASSUME NEW c \in DOMAIN new PROVE CardData(new[c])
    BY DEF Data
  <2>1. c \in ids /\ new[c] = [view[c] EXCEPT !.position = order[c]]
    BY <1>7
  <2>2. CardData(view[c]) /\ DOMAIN view[c] = CardFields
    BY <1>4, <1>5, <2>1 DEF Data, CardOK, CardsOf
  <2>3. order[c] \in Int
    BY <1>6, <2>1
  <2> QED
    BY <2>1, <2>2, <2>3, MovedData
<1>9. Data(card')
  BY <1>6, <1>7, <1>8, FlushData DEF LayoutInv
<1> QED
  BY <1>2, <1>9 DEF DataAfter, LayoutInv

\* A card that is saved is a table.
LEMMA SaveCardData ==
    ASSUME EditorInv, LayoutInv, NEW w \in Workers, NEW d \in Dashboards, NEW q, SaveCard(w, d, q)
    PROVE  DataAfter
<1>1. created' = created + 1 /\ created < MaxCards
  BY DEF SaveCard
<1>2. TableOK(card, created) /\ created \in Nat /\ MaxCards \in Nat
  BY EditorAssumption DEF EditorInv, TableOK
<1>3. PICK new : new = NewCard(d, Next_position(CardsOf(d)), "table", q)
  OBVIOUS
<1>4. CardData(new)
  <2>1. Next_position(CardsOf(d)) \in Int
    BY <1>2, DashboardCards, NextPosition
  <2>2. "table" \in VISUALIZATION_TYPES
    BY TypesAre DEF Types9
  <2> QED
    BY <1>3, <2>1, <2>2, NewCardData
<1>5. card' = Put(card, created + 1, new)
  BY <1>3 DEF SaveCard
<1>6. /\ DOMAIN card' = DOMAIN card \cup {created + 1}
      /\ \A c \in DOMAIN card' : card'[c] = IF c = created + 1 THEN new ELSE card[c]
  BY <1>5 DEF Put
<1>7. Data(card')
  BY <1>4, <1>6 DEF LayoutInv, Data
<1>8. created' <= MaxCards
  BY <1>1, <1>2
<1> QED
  BY <1>7, <1>8 DEF DataAfter

\* The cards of a copied dashboard have the types of the originals and new places.
LEMMA DuplicateDashboardData ==
    ASSUME RoomForCards, EditorInv, LayoutInv, NEW w \in Workers, NEW d \in Dashboards,
           DuplicateDashboard(w, d)
    PROVE  DataAfter
<1>1. PICK s : s = session[w]
  OBVIOUS
<1>2. s.op \in Loads
  BY <1>1 DEF DuplicateDashboard, Loads
<1>3. /\ created \in Nat /\ MaxCards \in Nat /\ TableOK(card, created) /\ Cards(s.seen)
  BY <1>1, <1>2, Held
<1>4. PICK source : source = Ordered(s.seen)
  OBVIOUS
<1>5. PICK n : n = Len(source)
  OBVIOUS
<1>6. n \in Nat /\ \A i \in 1..n : source[i] \in DOMAIN s.seen
  BY <1>3, <1>4, <1>5, OrderedIs
<1>7. PICK copies : copies = [c \in (created + 1)..(created + n) |->
            LET original == s.seen[source[c - created]]
            IN  NewCard(d, c - created - 1, visualization_type_for_card(original), original.run)]
  OBVIOUS
<1>8. PICK layouts : layouts = normalize_card_layouts(copies)
  OBVIOUS
<1>9. created' = created + n /\ created + n <= MaxCards
  BY <1>1, <1>4, <1>5 DEF DuplicateDashboard
<1>10. card' = [c \in DOMAIN card \cup DOMAIN copies |-> IF c \in DOMAIN card THEN card[c]
                   ELSE [copies[c] EXCEPT !.layout = layouts[c]]]
  BY <1>1, <1>4, <1>5, <1>7, <1>8 DEF DuplicateDashboard
<1>11. DOMAIN copies = (created + 1)..(created + n)
  BY <1>7
<1>12. ASSUME NEW c \in DOMAIN copies PROVE CardOK(copies[c]) /\ CardData(copies[c])
  <2>1. c \in (created + 1)..(created + n) /\ c - created \in 1..n /\ c - created - 1 \in Int
    BY <1>3, <1>6, <1>11, <1>12
  <2>2. PICK original : original = s.seen[source[c - created]]
    OBVIOUS
  <2>3. CardData(original)
    BY <1>3, <1>6, <2>1, <2>2 DEF Cards
  <2>4. visualization_type_for_card(original) \in VISUALIZATION_TYPES
    BY <2>3, TypeOfCard
  <2>5. copies[c] = NewCard(d, c - created - 1, visualization_type_for_card(original), original.run)
    BY <1>7, <2>1, <2>2
  <2> QED
    BY <2>1, <2>4, <2>5, NewCardOK, NewCardData
<1>13. layouts \in [DOMAIN copies -> [Breakpoints -> Box]]
  <2>1. DOMAIN copies \subseteq 1..MaxCards
    BY <1>3, <1>6, <1>9, <1>11
  <2>2. Data(copies)
    BY <1>12 DEF Data
  <2> QED
    BY <1>8, <2>1, <2>2, NumberedCards, NormalizeIsProper
<1>14. ASSUME NEW c \in DOMAIN card' PROVE CardData(card'[c])
  <2>1. CASE c \in DOMAIN card
    BY <1>10, <2>1 DEF LayoutInv, Data
  <2>2. CASE c \notin DOMAIN card
    <3>1. c \in DOMAIN copies
      BY <1>10, <2>2
    <3>2. PICK x : x = card'[c]
      OBVIOUS
    <3>3. x = [copies[c] EXCEPT !.layout = layouts[c]]
      BY <1>10, <2>2, <3>1, <3>2
    <3>4. DOMAIN copies[c] = CardFields /\ CardData(copies[c])
      BY <1>12, <3>1 DEF CardOK
    <3>5. x.layout = layouts[c] /\ x.position = copies[c].position /\ x.config = copies[c].config
      BY <3>3, <3>4 DEF CardFields
    <3> QED
      BY <1>13, <3>1, <3>2, <3>4, <3>5 DEF CardData
  <2> QED
    BY <2>1, <2>2
<1>15. created' <= MaxCards
  BY <1>9
<1> QED
  BY <1>14, <1>15 DEF DataAfter, Data

\* A handler that ends leaves data.
LEMMA FinishData ==
    ASSUME RoomForCards, EditorInv, LayoutInv, NEW w \in Workers, Finish(w) PROVE DataAfter
<1>1. CASE SaveLayout(w)
  BY <1>1, SaveLayoutData
<1>2. CASE UpdateCard(w)
  BY <1>2, UpdateCardData
<1>3. CASE DuplicateCard(w)
  BY <1>3, DuplicateCardData
<1>4. CASE RemoveCard(w)
  BY <1>4, RemoveCardData
<1>5. CASE Reorder(w)
  BY <1>5, ReorderData
<1>6. CASE RenameDashboard(w) \/ ArchiveDashboard(w) \/ Abandon(w)
  <2>1. UNCHANGED <<card, created>>
    BY <1>6 DEF RenameDashboard, ArchiveDashboard, Abandon
  <2> QED
    BY <2>1 DEF DataAfter, LayoutInv
<1>7. CASE \E d \in Dashboards : DuplicateDashboard(w, d)
  BY <1>7, DuplicateDashboardData
<1>8. CASE \E d \in Dashboards, q \in Runs : SaveCard(w, d, q)
  BY <1>8, SaveCardData
<1> QED
  BY <1>1, <1>2, <1>3, <1>4, <1>5, <1>6, <1>7, <1>8 DEF Finish

\* A handler that loads cards loads those of its dashboard.
LEMMA BeginLoads ==
    ASSUME NEW w, NEW u, BeginAny(w, u)
    PROVE  \E op, d, c, v, seen : /\ Begin(w, u, op, d, c, v, seen)
                                  /\ op \in Loads => seen = CardsOf(d)
<1>1. ASSUME NEW op, NEW c, BeginCard(w, u, op, c)
      PROVE  Begin(w, u, op, card[c].dash, c, dash[card[c].dash].version, CardsOf(card[c].dash))
  BY <1>1 DEF BeginCard
<1>2. ASSUME NEW d, BeginReorder(w, u, d) PROVE Begin(w, u, "reorder", d, 0, 0, CardsOf(d))
  BY <1>2 DEF BeginReorder
<1>3. ASSUME NEW op \in {"rename", "archive", "duplicate_dashboard"}, NEW d,
             BeginDashboard(w, u, op, d)
      PROVE  \E seen : Begin(w, u, op, d, 0, 0, seen) /\ (op \in Loads => seen = CardsOf(d))
  <2>1. PICK seen : seen = IF op = "duplicate_dashboard" THEN CardsOf(d) ELSE <<>>
    OBVIOUS
  <2>2. Begin(w, u, op, d, 0, 0, seen)
    BY <1>3, <2>1 DEF BeginDashboard
  <2>3. op \in Loads => seen = CardsOf(d)
    BY <2>1 DEF Loads
  <2> QED
    BY <2>2, <2>3
<1>4. ASSUME BeginSave(w, u)
      PROVE  Begin(w, u, "save_layout", draft[u].dash, 0, draft[u].version, draft[u].layouts)
  BY <1>4 DEF BeginSave
<1>5. "save_layout" \notin Loads /\ "save_card" \notin Loads
  BY DEF Loads
<1>6. CASE \E op \in {"update_card", "duplicate_card", "remove_card"}, c \in DOMAIN card :
              BeginCard(w, u, op, c)
  BY <1>1, <1>6
<1>7. CASE \E d \in Dashboards : BeginReorder(w, u, d)
  BY <1>2, <1>7
<1>8. CASE \E d \in Dashboards : \E op \in {"rename", "archive", "duplicate_dashboard"} :
              BeginDashboard(w, u, op, d)
  BY <1>3, <1>8
<1>9. CASE \E d \in Dashboards : Begin(w, u, "save_card", d, 0, 0, <<>>)
  BY <1>5, <1>9
<1>10. CASE BeginSave(w, u)
  BY <1>4, <1>5, <1>10
<1> QED
  BY <1>6, <1>7, <1>8, <1>9, <1>10 DEF BeginAny

\* What handlers hold is data as long as the handlers that begin load data.
LEMMA LayoutStep ==
    ASSUME RoomForCards, EditorInv, LayoutInv, [Next]_dvars PROVE LayoutInv'
<1>1. ASSUME NEW w \in Workers, Finish(w), Remember(w) PROVE LayoutInv'
  <2>1. DataAfter /\ Done(w)
    BY <1>1, FinishData, FinishEffect
  <2>2. \A v \in Workers : session'[v] = IF v = w THEN Idle ELSE session[v]
    BY <2>1 DEF Done, EditorInv
  <2>3. Idle.op \notin Loads
    BY DEF Idle, Loads
  <2>4. \A v \in Workers : session'[v].op \in Loads => Cards(session'[v].seen)
    BY <2>2, <2>3 DEF LayoutInv
  <2> QED
    BY <2>1, <2>4 DEF DataAfter, LayoutInv
<1>2. ASSUME NEW w \in Workers, NEW u \in Users, BeginAny(w, u) PROVE LayoutInv'
  <2>1. PICK op, d, c, v, seen : /\ Begin(w, u, op, d, c, v, seen)
                                 /\ op \in Loads => seen = CardsOf(d)
    BY <1>2, BeginLoads
  <2>2. PICK s : s = [op |-> op, user |-> u, ctx |-> access[u], dash |-> d, card |-> c,
                      version |-> v, seen |-> seen]
    OBVIOUS
  <2>3. s.op = op /\ s.seen = seen
    BY <2>2
  <2>4. UNCHANGED <<card, created>>
        /\ \A x \in Workers : session'[x] = IF x = w THEN s ELSE session[x]
    BY <2>1, <2>2 DEF Begin, EditorInv
  <2>5. s.op \in Loads => Cards(s.seen)
    BY <2>1, <2>3, DashboardCards DEF EditorInv
  <2> QED
    BY <2>4, <2>5 DEF LayoutInv
<1>3. ASSUME UNCHANGED <<card, created, session>> PROVE LayoutInv'
  BY <1>3 DEF LayoutInv
<1>4. ASSUME NEW u \in Users, NEW d \in Dashboards, OpenEditor(u, d) PROVE LayoutInv'
  BY <1>3, <1>4 DEF OpenEditor
<1>5. ASSUME NEW u \in Users, NEW d \in Dashboards, NEW scope, NEW dep,
             CreateDashboard(u, d, scope, dep)
      PROVE  LayoutInv'
  BY <1>3, <1>5 DEF CreateDashboard
<1>6. ASSUME NEW u \in Users, ChangeAccess(u) PROVE LayoutInv'
  BY <1>3, <1>6 DEF ChangeAccess
<1>7. CASE UNCHANGED dvars
  BY <1>3, <1>7 DEF dvars
<1> QED
  BY <1>1, <1>2, <1>4, <1>5, <1>6, <1>7 DEF Next

\* So it is at the start.
LEMMA LayoutInit == Init => LayoutInv
<1> SUFFICES ASSUME Init PROVE LayoutInv
  OBVIOUS
<1>1. PICK n \in 0..MaxCards : DOMAIN InitialCards = 1..n
  BY EditorAssumption
<1>2. n \in Nat /\ n <= MaxCards /\ Cardinality(1..n) = n
  BY <1>1, EditorAssumption, FS_Interval
<1>3. created <= MaxCards
  BY <1>1, <1>2 DEF Init
<1>4. Data(card)
  BY EditorAssumption DEF Init, Data
<1>5. \A w \in Workers : session[w].op \notin Loads
  BY DEF Init, Idle, Loads
<1> QED
  BY <1>3, <1>4, <1>5 DEF LayoutInv

\* Whatever a race of handlers has stored, every dashboard is served with a layout
\* in which each card has a box its type may have and no two cards share a cell, on
\* every breakpoint, as long as the cards ever made find room on the rows there are.
THEOREM ServedIsProper ==
    ASSUME RoomForCards PROVE Spec => []ServedProper
<1>1. Init => EditorInv /\ LayoutInv
  BY EditorInvInit, LayoutInit
<1>2. EditorInv /\ LayoutInv /\ [Next]_dvars => (EditorInv /\ LayoutInv)'
  BY EditorStep, LayoutStep
<1>3. EditorInv /\ LayoutInv => ServedProper
  <2> SUFFICES ASSUME EditorInv, LayoutInv, NEW d \in Dashboards
               PROVE  Proper(CardsOf(d), Served(d))
    BY DEF ServedProper
  <2>1. PICK cards : cards = CardsOf(d)
    OBVIOUS
  <2>2. DOMAIN cards \subseteq 1..MaxCards /\ Data(cards)
    BY <2>1, DashboardCards DEF EditorInv
  <2>3. Proper(cards, normalize_card_layouts(cards))
    BY <2>2, NumberedCards, NormalizeIsProper
  <2> QED
    BY <2>1, <2>3 DEF Served
<1> QED
  BY <1>1, <1>2, <1>3, PTL DEF Spec
=============================================================================
