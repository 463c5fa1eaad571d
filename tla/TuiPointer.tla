---------------------------- MODULE TuiPointer ----------------------------
(***************************************************************************)
(* The mouse in the terminal UI (agentum-tui, ui.rs, app.rs, term.rs): how *)
(* the screen is divided, which pane an event falls into, the selection a  *)
(* drag makes, what is forwarded to the program in a pane, and the view    *)
(* into a pane's history.  Mouse events carry coordinates of the screen    *)
(* and are looked up in the areas of the last drawn frame; up to 1024 of   *)
(* them are handled before the next one is drawn.                          *)
(***************************************************************************)
EXTENDS Integers

CONSTANTS ScreenSizes,  \* sizes of the terminal window, <<columns, rows>>
          TreeWidths,   \* tree_width
          GitWidths,    \* lazygit_width
          Percents,     \* term_split_pct
          Frames,       \* shapes the mouse is tried on
          Scrollback,   \* SCROLLBACK, in lines
          WheelLines,   \* WHEEL_LINES_PER_TICK
          PageLines     \* what Shift-PgUp moves by

\* Below 20 columns or 6 rows the solver of the layout library has to break a
\* constraint.
ASSUME ScreenAssumption ==
    /\ ScreenSizes \subseteq Nat \X Nat
    /\ \A z \in ScreenSizes : z[1] >= 20 /\ z[2] >= 6
    /\ TreeWidths \subseteq Nat /\ GitWidths \subseteq Nat
    /\ Percents \subseteq Nat
ASSUME ScrollAssumption ==
    Scrollback \in Nat \ {0} /\ WheelLines \in Nat \ {0}
        /\ PageLines \in Nat \ {0}

-----------------------------------------------------------------------------
(* compute_layout.                                                         *)

Less(a, b) == IF a > b THEN a - b ELSE 0
AtMost(n, top) == IF n > top THEN top ELSE n
Within(n, low, top) == IF n < low THEN low ELSE AtMost(n, top)

\* What a frame is computed from.
Shapes ==
    [size : ScreenSizes, lazy : BOOLEAN, full : BOOLEAN, tree : TreeWidths,
     hidden : BOOLEAN, split : BOOLEAN, panel : BOOLEAN, lw : GitWidths,
     pct : Percents, banner : BOOLEAN]
ASSUME FramesAssumption == Frames \subseteq Shapes

Box(x, y, w, h) == [x |-> x, y |-> y, w |-> w, h |-> h]
Nowhere == Box(0, 0, 0, 0)

\* The layout library rounds a percentage to the nearest cell and gives the
\* last part of a split what is left.
Percent(n, pct) == (n * pct + 50) \div 100
Beside(r, w) == <<Box(r.x, r.y, w, r.h), Box(r.x + w, r.y, r.w - w, r.h)>>
Stacked(r, h) == <<Box(r.x, r.y, r.w, h), Box(r.x, r.y + h, r.w, r.h - h)>>

SplitMain(r, s) ==
    IF ~s.lazy THEN <<r, Nowhere>>
    ELSE IF r.w >= 100
    THEN Beside(r, r.w - AtMost(Within(s.lw, 40, 160), Less(r.w, 40)))
    ELSE Stacked(r, Percent(r.h, 55))

SplitTerminal(r, s) ==
    IF ~s.split THEN <<r, Nowhere>>
    ELSE IF r.w >= 80 THEN Beside(r, Percent(r.w, Within(s.pct, 25, 75)))
    ELSE Stacked(r, Percent(r.h, 50))

\* Columns of the tree, of lazygit and of the agent panel; lazygit has none of
\* its own when it would leave less than 20 for the terminal.
TreeColumns(s) == IF s.hidden THEN 0 ELSE AtMost(s.tree, Less(s.size[1], 20))
GitColumns(s) ==
    LET wanted == IF s.lazy THEN Within(s.lw, 40, 160) ELSE 0
    IN  IF Less(Less(s.size[1], TreeColumns(s)), wanted) < 20 THEN 0
        ELSE wanted
PanelColumns(s) ==
    IF /\ s.panel /\ s.size[1] >= 110
       /\ Less(s.size[1], TreeColumns(s) + GitColumns(s) + 34) >= 20
    THEN 34 ELSE 0

FullLayout(s) ==
    LET main == SplitMain(Box(0, 0, s.size[1], s.size[2]), s)
        terms == SplitTerminal(main[1], s)
    IN  [title |-> Nowhere, banner |-> Nowhere, tree |-> Nowhere,
         usage |-> Nowhere, left |-> terms[1], right |-> terms[2],
         lazygit |-> main[2], panel |-> Nowhere, status |-> Nowhere]

ComputeLayout(s) ==
    LET w == s.size[1]
        top == IF s.banner THEN 2 ELSE 1
        h == s.size[2] - top - 1
        tw == TreeColumns(s)
        gw == GitColumns(s)
        pw == PanelColumns(s)
        body == Box(tw, top, w - tw - pw - gw, h)
        main == IF gw > 0 THEN <<body, Box(w - gw, top, gw, h)>>
                ELSE SplitMain(body, s)
        terms == SplitTerminal(main[1], s)
        side == Stacked(Box(0, top, tw, h), IF h >= 18 THEN h - 10 ELSE h)
    IN  IF s.full THEN FullLayout(s)
        ELSE [title |-> Box(0, 0, w, 1), banner |-> Box(0, 1, w, top - 1),
              tree |-> side[1], usage |-> side[2],
              left |-> terms[1], right |-> terms[2], lazygit |-> main[2],
              panel |-> Box(w - gw - pw, top, pw, h),
              status |-> Box(0, s.size[2] - 1, w, 1)]

-----------------------------------------------------------------------------
(* The state.                                                              *)

BothSides == {"left", "right"}
NoSelection == [side |-> "none"]
LivePage == [depth |-> 0, off |-> 0, view |-> 0]

VARIABLES
    areas,      \* last_areas
    rightShown, \* split_right is open
    button,     \* the left button is down
    sel,        \* term_selection; its dragging flag is true while it exists
    wants,      \* the program of each pane has asked for mouse events
    grid,       \* rows and columns of each pane's parser
    page,       \* history of a pane: lines kept, scrollback_offset, and how
                \* far back the parser's view really is
    watched     \* the pane whose history that is: those of the two panes have
                \* nothing in common

pointerVars == <<areas, rightShown, button, sel, wants, grid, page,
                 watched>>

\* inner_size
InnerSize(r) == [rows |-> Within(Less(r.h, 2), 1, r.h),
                 cols |-> Within(Less(r.w, 2), 1, r.w)]
NewGrid == [rows |-> 24, cols |-> 80]

\* The variables stay within their types.
PointerTypeOK ==
    /\ areas \in {ComputeLayout(f) : f \in Frames}
    /\ rightShown \in BOOLEAN /\ button \in BOOLEAN
    /\ sel.side \in BothSides \cup {"none"}
    /\ sel # NoSelection => sel.anchor \in Nat \X Nat /\ sel.cursor \in Nat \X Nat
    /\ wants \in [BothSides -> BOOLEAN]
    /\ \A d \in BothSides :
          grid[d].rows \in Nat \ {0} /\ grid[d].cols \in Nat \ {0}
    /\ watched \in BothSides
    /\ page.depth \in 0 .. Scrollback /\ page.off \in 0 .. Scrollback
    /\ page.view \in 0 .. page.depth

-----------------------------------------------------------------------------
(* Where an event falls.                                                   *)

Inside(p, r) ==
    /\ p[1] >= r.x /\ p[1] < r.x + r.w
    /\ p[2] >= r.y /\ p[2] < r.y + r.h

SideAt(p) ==
    IF Inside(p, areas.right) THEN "right"
    ELSE IF Inside(p, areas.left) THEN "left" ELSE "none"

\* Coordinates in a pane start at 1 inside its border; the border on the left
\* and on top counts as the first cell, the other one as a cell too many.
LocalPoint(p) ==
    LET r == areas[SideAt(p)]
    IN  <<Less(p[1], r.x + 1) + 1, Less(p[2], r.y + 1) + 1>>

\* The mouse is tried on two cells of each pane, one in its first row and the
\* corner of its border, and on the window's first cell.
Spots ==
    {<<0, 0>>} \cup
    UNION { {<<r.x + 3, r.y + 1>>, <<r.x + r.w - 1, r.y + r.h - 1>>} :
            r \in {areas.left, areas.right} \ {Nowhere} }

\* An event in the pane the selection is in belongs to the selection.
SelectionTakes(p) == sel # NoSelection /\ sel.side = SideAt(p)

-----------------------------------------------------------------------------
(* What is copied.                                                         *)

Reads(a, b) == a[2] < b[2] \/ (a[2] = b[2] /\ a[1] <= b[1])

\* TermSelection::ordered and extract_selection_from_screen: the cells between
\* the end points in reading order, row and column counted from zero.
Cells(s, g) ==
    LET from == IF Reads(s.anchor, s.cursor) THEN s.anchor ELSE s.cursor
        to == IF Reads(s.anchor, s.cursor) THEN s.cursor ELSE s.anchor
        Row(p) == AtMost(Less(p[2], 1), g.rows - 1)
        Col(p) == AtMost(Less(p[1], 1), g.cols - 1)
    IN  IF Row(from) = Row(to)
        THEN {Row(from)} \X (AtMost(Col(from), Col(to)) ..
                             (IF Col(from) > Col(to) THEN Col(from)
                              ELSE Col(to)))
        ELSE { c \in (Row(from) .. Row(to)) \X (0 .. g.cols - 1) :
                 /\ c[1] = Row(from) => c[2] >= Col(from)
                 /\ c[1] = Row(to) => c[2] <= Col(to) }

-----------------------------------------------------------------------------
(* What is forwarded: encode_mouse_sgr.                                    *)

MouseButtons == {"left", "middle", "right"}
ButtonCode(b) == CASE b = "left" -> 0 [] b = "middle" -> 1 [] b = "right" -> 2

MouseKinds == ({"down", "up", "drag"} \X MouseButtons)
                \cup ({"scroll"} \X {"up", "down", "left", "right"})
Modifiers == {"shift", "alt", "control"}

\* The number and the final letter of the escape sequence.  A move without a
\* button is not forwarded.
KindCode(kind) ==
    CASE kind[1] \in {"down", "up"} -> ButtonCode(kind[2])
      [] kind[1] = "drag" -> ButtonCode(kind[2]) + 32
      [] kind = <<"scroll", "up">> -> 64
      [] kind = <<"scroll", "down">> -> 65
      [] kind = <<"scroll", "left">> -> 66
      [] kind = <<"scroll", "right">> -> 67
Bit(m, mods, n) == IF m \in mods THEN n ELSE 0
EncodeMouse(kind, mods) ==
    <<KindCode(kind) + Bit("shift", mods, 4) + Bit("alt", mods, 8)
                     + Bit("control", mods, 16),
      IF kind[1] = "up" THEN "m" ELSE "M">>

-----------------------------------------------------------------------------
(* handle_mouse.                                                           *)

\* A press starts a selection when the program does not want it or Shift is
\* held, also when an older selection was never ended; otherwise it is
\* forwarded and nothing changes here.
MouseDown(p, shift) ==
    /\ ~button /\ button' = TRUE
    /\ sel' = IF SideAt(p) # "none" /\ (shift \/ ~wants[SideAt(p)])
              THEN [side |-> SideAt(p), anchor |-> LocalPoint(p),
                    cursor |-> LocalPoint(p)]
              ELSE sel
    /\ UNCHANGED <<areas, rightShown, wants, grid, page, watched>>

MouseDrag(p) ==
    /\ button /\ SelectionTakes(p)
    /\ sel' = [sel EXCEPT !.cursor = LocalPoint(p)]
    /\ UNCHANGED <<areas, rightShown, button, wants, grid, page, watched>>

\* A release in its own pane copies the selection and ends it.
MouseUp(p) ==
    /\ button /\ button' = FALSE
    /\ sel' = IF SelectionTakes(p) THEN NoSelection ELSE sel
    /\ UNCHANGED <<areas, rightShown, wants, grid, page, watched>>

\* scroll_up, scroll_down, scroll_to_bottom.  The parser cuts the view off at
\* the history it has, scrollback_offset goes on to SCROLLBACK.
SeenAt(off, depth) == AtMost(off, depth)

ScrollUp(g, n) ==
    LET off == AtMost(g.off + n, Scrollback)
    IN  [g EXCEPT !.off = off, !.view = SeenAt(off, g.depth)]

ScrollDown(g, n) ==
    LET off == Less(g.off, n)
    IN  IF off = g.off THEN g
        ELSE [g EXCEPT !.off = off, !.view = SeenAt(off, g.depth)]

ScrollToBottom(g) == IF g.off = 0 THEN g ELSE [g EXCEPT !.off = 0, !.view = 0]

Scrolled(d, n) ==
    /\ IF d = watched THEN page' \in {ScrollUp(page, n), ScrollDown(page, n)}
       ELSE UNCHANGED page
    /\ UNCHANGED watched

\* A new or reset parser of pane d.
Fresh(d) ==
    /\ page' = IF d = watched THEN LivePage ELSE page
    /\ UNCHANGED watched

\* The wheel over a pane whose program does not want it.  A frame may show a
\* right pane that is closed by now.
MouseWheel(p) ==
    LET d == SideAt(p)
    IN  /\ d # "none" /\ (d = "right" => rightShown)
        /\ ~wants[d]
        /\ Scrolled(d, WheelLines)
        /\ UNCHANGED <<areas, rightShown, button, sel, wants, grid>>

-----------------------------------------------------------------------------
(* What else happens to a pane.                                            *)

Shown == {"left"} \cup (IF rightShown THEN {"right"} ELSE {})

\* Shift-PgUp and Shift-PgDn.
PageKeys(d) ==
    /\ d \in Shown /\ Scrolled(d, PageLines)
    /\ UNCHANGED <<areas, rightShown, button, sel, wants, grid>>

\* A key that is forwarded, and a stream that is connected again.
BackToLive(d) ==
    /\ d \in Shown
    /\ page' = IF d = watched THEN ScrollToBottom(page) ELSE page
    /\ UNCHANGED <<areas, rightShown, button, sel, wants, grid, watched>>

\* Output of the program: a line goes to the history, and a view into the
\* history may be kept where it is or on the same text; or the program asks
\* for the mouse or lets go of it.
FeedPane(d) ==
    /\ d \in Shown
    /\ \/ /\ d = watched
          /\ LET depth == AtMost(page.depth + 1, Scrollback)
             IN  \E by \in (IF page.view = 0 THEN {0} ELSE {0, 1}) :
                   page' = [page EXCEPT !.depth = depth,
                                        !.view = AtMost(@ + by, depth)]
          /\ UNCHANGED wants
       \/ /\ wants' = [wants EXCEPT ![d] = ~@]
          /\ UNCHANGED page
    /\ UNCHANGED <<areas, rightShown, button, sel, grid, watched>>

\* Another session in the left pane: its parser is a new one of 24 rows and 80
\* columns.  (One from the cache is as this pane left it.)  The selection
\* stays.
SwapLeft ==
    /\ wants' = [wants EXCEPT !["left"] = FALSE]
    /\ grid' = [grid EXCEPT !["left"] = NewGrid]
    /\ Fresh("left")
    /\ UNCHANGED <<areas, rightShown, button, sel>>

\* TerminalPane::reset keeps the size.
ResetPane(d) ==
    /\ d \in Shown
    /\ wants' = [wants EXCEPT ![d] = FALSE]
    /\ Fresh(d)
    /\ UNCHANGED <<areas, rightShown, button, sel, grid>>

\* Ctrl-\: the slot on the right comes with a parser of its own and goes with
\* it.
FlipSplit ==
    /\ rightShown' = ~rightShown
    /\ wants' = [wants EXCEPT !["right"] = FALSE]
    /\ grid' = [grid EXCEPT !["right"] = NewGrid]
    /\ Fresh("right")
    /\ UNCHANGED <<areas, button, sel>>

\* The loop comes around: the areas are computed from the shape of the moment
\* and the parsers are resized to them.
DrawFrame ==
    /\ \E f \in Frames : f.split = rightShown /\ areas' = ComputeLayout(f)
    /\ grid' = [d \in BothSides |->
                  IF d \in Shown THEN InnerSize(areas'[d])
                  ELSE grid[d]]
    /\ UNCHANGED <<rightShown, button, sel, wants, page, watched>>

-----------------------------------------------------------------------------
PointerInit ==
    /\ \E f \in Frames : ~f.split /\ areas = ComputeLayout(f)
    /\ rightShown = FALSE /\ button = FALSE
    /\ sel = NoSelection
    /\ wants = [d \in BothSides |-> FALSE]
    /\ grid = [d \in BothSides |->
                 IF d = "left" THEN InnerSize(areas.left) ELSE NewGrid]
    /\ page = LivePage /\ watched \in BothSides

PointerNext ==
    \/ \E p \in Spots :
          \/ \E shift \in BOOLEAN : MouseDown(p, shift)
          \/ MouseDrag(p)
          \/ MouseUp(p)
          \/ MouseWheel(p)
    \/ \E d \in BothSides :
          \/ PageKeys(d)
          \/ BackToLive(d)
          \/ FeedPane(d)
          \/ ResetPane(d)
    \/ SwapLeft
    \/ FlipSplit
    \/ DrawFrame

PointerSpec == PointerInit /\ [][PointerNext]_pointerVars

-----------------------------------------------------------------------------
Area(r) == r.w * r.h
Disjoint(r, q) ==
    \/ r.x + r.w <= q.x \/ q.x + q.w <= r.x
    \/ r.y + r.h <= q.y \/ q.y + q.h <= r.y

\* The areas of a frame share no cell, leave none out and stay in the window;
\* with everything open the terminal keeps 20 columns, lazygit 40 where it has
\* them to itself, and the tree 8 rows next to the usage panel, whatever the
\* saved widths (compute_layout).
LayoutFits ==
    \A s \in Shapes :
        LET a == ComputeLayout(s)
            f == {n \in DOMAIN a : Area(a[n]) > 0}
        IN  /\ \A n \in f : /\ a[n].x >= 0 /\ a[n].x + a[n].w <= s.size[1]
                            /\ a[n].y >= 0 /\ a[n].y + a[n].h <= s.size[2]
            /\ \A n, m \in f : n # m => Disjoint(a[n], a[m])
            /\ \A n \in DOMAIN a : a[n].w >= 0 /\ a[n].h >= 0
            /\ Area(a.title) + Area(a.banner) + Area(a.tree) + Area(a.usage)
                 + Area(a.left) + Area(a.right) + Area(a.lazygit)
                 + Area(a.panel) + Area(a.status) = s.size[1] * s.size[2]
            /\ a.left.w >= 20 /\ (s.split => a.right.w >= 20)
            /\ s.lazy => /\ "lazygit" \in f
                         /\ a.lazygit.w >= 40 \/ a.lazygit.w = a.left.w
                              \/ s.split
            /\ "usage" \in f => a.tree.h >= 8

\* Both ends of a selection are copied wherever they are on the pane, however
\* the drag went and whatever became of the pane's size
\* (extract_selection_from_screen).
EndsAreCopied ==
    sel # NoSelection =>
        LET g == grid[sel.side]
        IN  \A p \in {sel.anchor, sel.cursor} :
              <<AtMost(p[2] - 1, g.rows - 1), AtMost(p[1] - 1, g.cols - 1)>>
                \in Cells(sel, g)

\* A pane without the scrollback badge shows the live screen, through any mix
\* of wheel, page keys, typing, output, resets and reconnects (term.rs).
NoBadgeIsLive == page.off = 0 => page.view = 0

\* A program can tell any two mouse events from each other (encode_mouse_sgr).
EventsDiffer ==
    \A k, l \in MouseKinds : \A m, n \in SUBSET Modifiers :
        <<k, m>> # <<l, n>> => EncodeMouse(k, m) # EncodeMouse(l, n)

\* "Stays `Some` purely for the brief moment before drop" (app.rs:126), said of
\* the time after the release.  It does not hold: a release outside the pane is
\* not seen, and the next drag in the pane goes on with the old anchor, also
\* when its press was forwarded.
SelectionEndsWithButton == sel # NoSelection => button

\* "True when the user has scrolled away from the live tail" (term.rs:78).  It
\* does not hold: the offset counts lines that are not there.
BadgeMeansHistory == page.off > 0 => page.view > 0
=============================================================================
