---------------------------- MODULE DashboardLayout ----------------------------
(***************************************************************************)
(* The layout algorithms of dashboards/editor.py: what a stored layout is  *)
(* read as, how cards without a usable layout are placed, and the order of *)
(* cards that follows from a layout.                                       *)
(*                                                                         *)
(* A card is a record with its position, its card_type, its config (the    *)
(* type of a well-formed visualization, or NoConfig) and its layout (a box *)
(* per breakpoint, or NoLayout).  Card identifiers are numbers in order of *)
(* creation, so they stand for (created_at, id).                           *)
(***************************************************************************)
EXTENDS Integers, Sequences, FiniteSets

MAX_LAYOUT_Y == 10000
BREAKPOINT_COLUMNS == [desktop |-> 12, tablet |-> 6, mobile |-> 1]

\* Breakpoints are laid out one by one, so an instance may look at some only.
CONSTANT Breakpoints
ASSUME BreakpointAssumption ==
    "desktop" \in Breakpoints /\ Breakpoints \subseteq DOMAIN BREAKPOINT_COLUMNS

NoLayout == <<>>
NoConfig == "no config"

-----------------------------------------------------------------------------
(* Sizes: <<width, height>>                                                *)

Kpi == {<<3, 1>>, <<4, 1>>, <<6, 1>>}
Round == {3, 4, 6} \X {2, 3}        \* donut and gauge
CartesianDesktop == ({4, 6, 8, 12} \X {2, 3, 4}) \ {<<4, 4>>}
CartesianTablet == {<<3, 2>>, <<3, 3>>, <<4, 2>>, <<4, 3>>} \cup ({6} \X {2, 3, 4})
Short == {1} \X {2, 3}

SIZE_POLICY ==
    LET round == [desktop |-> Round, tablet |-> Round, mobile |-> Short]
        cartesian == [desktop |-> CartesianDesktop, tablet |-> CartesianTablet,
                      mobile |-> Short]
    IN  [kpi |-> [desktop |-> Kpi, tablet |-> Kpi, mobile |-> {1} \X {1, 2}],
         donut |-> round, semicircle_gauge |-> round,
         bar |-> cartesian, line |-> cartesian, area |-> cartesian,
         stacked_bar |-> cartesian,
         table |-> [desktop |-> {4, 6, 8, 12} \X {2, 3, 4},
                    tablet |-> {3, 4, 6} \X {2, 3, 4}, mobile |-> {1} \X {2, 3, 4}],
         status_list |-> [desktop |-> {<<8, 4>>, <<12, 4>>} \cup ({4, 6, 8} \X {2, 3}),
                          tablet |-> {<<6, 4>>} \cup ({4, 6} \X {2, 3}),
                          mobile |-> Short]]

VISUALIZATION_TYPES == DOMAIN SIZE_POLICY

DEFAULT_SIZES ==
    LET sized(w, h) == [desktop |-> <<w, h>>, tablet |-> <<w, h>>, mobile |-> <<1, h>>]
    IN  [t \in VISUALIZATION_TYPES |->
           CASE t = "kpi" -> sized(3, 1)
             [] t \in {"donut", "semicircle_gauge"} -> sized(3, 2)
             [] t = "table" -> sized(6, 3)
             [] t = "status_list" -> sized(4, 2)
             [] OTHER -> sized(6, 2)]

-----------------------------------------------------------------------------
(* Reading what is stored                                                  *)

\* safe_visualization_for_card and default_visualization
visualization_type_for_card(card) ==
    IF card.config # NoConfig THEN card.config
    ELSE IF card.card_type \in VISUALIZATION_TYPES THEN card.card_type
    ELSE "table"

Box == [x : Int, y : Int, w : Int, h : Int]

\* What the columns of a card may hold
CardData(card) ==
    /\ card.position \in Int
    /\ card.config \in VISUALIZATION_TYPES \cup {NoConfig}
    /\ card.layout = NoLayout \/ card.layout \in [Breakpoints -> Box]

\* _parse_coordinates, for a box of integers
ValidBox(box, bp) ==
    /\ box.x >= 0 /\ box.y \in 0..MAX_LAYOUT_Y /\ box.w > 0 /\ box.h > 0
    /\ box.x + box.w <= BREAKPOINT_COLUMNS[bp]
    /\ bp = "mobile" => box.x = 0 /\ box.w = 1

\* parse_layout_item, parse_layout_for_card: all breakpoints or nothing
parse_layout(layout, type) ==
    /\ layout # NoLayout
    /\ \A bp \in Breakpoints : /\ ValidBox(layout[bp], bp)
                               /\ <<layout[bp].w, layout[bp].h>> \in SIZE_POLICY[type][bp]

_overlaps(a, b) == ~ \/ a.x + a.w <= b.x
                     \/ b.x + b.w <= a.x
                     \/ a.y + a.h <= b.y
                     \/ b.y + b.h <= a.y

layouts_do_not_overlap(layouts) ==
    \A bp \in Breakpoints : \A c, d \in DOMAIN layouts :
        c # d => ~ _overlaps(layouts[c][bp], layouts[d][bp])

-----------------------------------------------------------------------------
(* Placing                                                                 *)

Earlier(cards, c, d) == \/ cards[c].position < cards[d].position
                        \/ cards[c].position = cards[d].position /\ c < d

\* _ordered_cards: by position, then age
Ordered(cards) ==
    [i \in 1..Cardinality(DOMAIN cards) |-> CHOOSE c \in DOMAIN cards :
        Cardinality({d \in DOMAIN cards : Earlier(cards, d, c)}) = i - 1]

Free(box, occupied) == \A o \in occupied : ~ _overlaps(box, o)

\* The first free place, row by row
_first_available_coordinates(bp, size, occupied) ==
    LET at(x, y) == [x |-> x, y |-> y, w |-> size[1], h |-> size[2]]
        free(y) == {x \in 0..(BREAKPOINT_COLUMNS[bp] - size[1]) : Free(at(x, y), occupied)}
        row == CHOOSE y \in 0..MAX_LAYOUT_Y :
                  free(y) # {} /\ \A z \in 0..(y - 1) : free(z) = {}
    IN  at(CHOOSE x \in free(row) : \A z \in free(row) : x <= z, row)

Boxes(placed) == {placed[c] : c \in DOMAIN placed}

Put(f, c, v) == [x \in DOMAIN f \cup {c} |-> IF x = c THEN v ELSE f[x]]

\* First pass: a layout that is usable and does not overlap an earlier card's stays.
Keep(cards, bp, placed, c) ==
    IF /\ parse_layout(cards[c].layout, visualization_type_for_card(cards[c]))
       /\ Free(cards[c].layout[bp], Boxes(placed))
    THEN Put(placed, c, cards[c].layout[bp])
    ELSE placed

Kept(cards, bp) ==
    LET order == Ordered(cards)
        kept[n \in 0..Len(order)] ==
            IF n = 0 THEN <<>> ELSE Keep(cards, bp, kept[n - 1], order[n])
    IN  kept[Len(order)]

\* Mutant: the second pass does not look at the places already given away.
PlaceCarelessly(cards, bp, placed, c) ==
    IF c \in DOMAIN placed THEN placed
    ELSE Put(placed, c, _first_available_coordinates(bp,
            DEFAULT_SIZES[visualization_type_for_card(cards[c])][bp], {}))

\* Second pass: everybody else gets the first free place, in the default size of
\* its type.
Place(cards, bp, placed, c) ==
    IF c \in DOMAIN placed THEN placed
    ELSE Put(placed, c, _first_available_coordinates(bp,
            DEFAULT_SIZES[visualization_type_for_card(cards[c])][bp], Boxes(placed)))

Placed(cards, bp) ==
    LET order == Ordered(cards)
        placed[n \in 0..Len(order)] ==
            IF n = 0 THEN Kept(cards, bp) ELSE Place(cards, bp, placed[n - 1], order[n])
    IN  placed[Len(order)]

normalize_card_layouts(cards) ==
    LET desktop == Placed(cards, "desktop")
        tablet == Placed(cards, "tablet")
        mobile == Placed(cards, "mobile")
    IN  [c \in DOMAIN cards |-> [bp \in Breakpoints |->
            CASE bp = "desktop" -> desktop[c]
              [] bp = "tablet"  -> tablet[c]
              [] bp = "mobile"  -> mobile[c]]]

\* Reading order on the desktop
derive_positions(layouts) ==
    LET top(c) == layouts[c]["desktop"]
        before(c, d) == \/ top(c).y < top(d).y
                        \/ top(c).y = top(d).y /\ top(c).x < top(d).x
                        \/ top(c).y = top(d).y /\ top(c).x = top(d).x /\ c < d
    IN  [c \in DOMAIN layouts |-> Cardinality({d \in DOMAIN layouts : before(d, c)})]

\* Layouts and positions as update_card and duplicate_card leave them
Rearranged(cards) ==
    LET layouts == normalize_card_layouts(cards)
        positions == derive_positions(layouts)
    IN  [c \in DOMAIN cards |-> [cards[c] EXCEPT !.layout = layouts[c],
                                                 !.position = positions[c]]]

-----------------------------------------------------------------------------
(* What the algorithms promise                                             *)

Cells(box) == (box.x..(box.x + box.w - 1)) \X (box.y..(box.y + box.h - 1))

\* A layout in which every card has a box its type may have and no two cards
\* share a cell, on every breakpoint
Proper(cards, layouts) ==
    /\ \A c \in DOMAIN cards : parse_layout(layouts[c], visualization_type_for_card(cards[c]))
    /\ \A bp \in Breakpoints : \A c, d \in DOMAIN cards :
          c # d => Cells(layouts[c][bp]) \cap Cells(layouts[d][bp]) = {}
=============================================================================
