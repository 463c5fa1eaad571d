-------------------------------- MODULE MCTui ---------------------------------
(***************************************************************************)
(* Small instances of the parts of the terminal UI.  They are fields of    *)
(* one App that one loop serves, and each of them is driven by keys and    *)
(* messages of its own.  One behaviour is a behaviour of one part, picked  *)
(* at the start; the others rest in an initial state of theirs.            *)
(***************************************************************************)
EXTENDS Activity, TuiPanes, TuiForms, TuiLayout, TuiPrefs, TuiDialogs,
        TuiTree, Clipboard, TuiPointer, TLC

VARIABLE part

Parts == {"activity", "panes", "forms", "layout", "prefs", "dialogs", "tree",
          "clip", "pointer"}

MCVars ==
  <<part, activityVars, paneVars, formVars, layoutVars, prefVars, dlgVars,
    treeVars, clipVars, pointerVars>>

\* One host with two projects of one session each.
MCTreeSessions == {<<1, 1, 1>>, <<1, 2, 1>>}

\* Windows at the edges of the layout's cases.
MCScreenSizes ==
  {<<20, 6>>, <<79, 20>>, <<99, 23>>, <<110, 23>>, <<130, 24>>, <<200, 50>>,
   <<260, 50>>}

\* One pane in a wide window and two stacked ones in a narrow window.
MCFrames ==
  LET f == [size |-> <<130, 24>>, lazy |-> FALSE, full |-> FALSE, tree |-> 60,
            hidden |-> FALSE, split |-> FALSE, panel |-> TRUE, lw |-> 60,
            pct |-> 50, banner |-> FALSE]
  IN  {f, [f EXCEPT !.split = TRUE, !.size = <<79, 20>>]}

\* A resting part with several initial states is in one of them.
Pinned ==
  /\ part = "activity" \/ (signed = FALSE /\ shows = "idle")
  /\ part = "layout" \/ (leftDir = NoDir /\ folded = FALSE)
  /\ part = "tree" \/ there = [s \in TreeSessions |-> 0]
  /\ part = "clip"
       \/ view = LET s == CHOOSE s \in ClipSessions: TRUE
                 IN [focus |-> "tree", left |-> s, right |-> s]
  /\ part = "pointer" \/ watched = "left"

MCInit ==
  /\ part \in Parts /\ Pinned
  /\ ActivityInit /\ TuiInit /\ FormInit /\ LayoutInit
  /\ PrefInit /\ DlgInit /\ TreeInit /\ ClipInit /\ PointerInit

Only(q) ==
  /\ UNCHANGED part
  /\ IF q = "activity" THEN TRUE ELSE UNCHANGED activityVars
  /\ IF q = "panes" THEN TRUE ELSE UNCHANGED paneVars
  /\ IF q = "forms" THEN TRUE ELSE UNCHANGED formVars
  /\ IF q = "layout" THEN TRUE ELSE UNCHANGED layoutVars
  /\ IF q = "prefs" THEN TRUE ELSE UNCHANGED prefVars
  /\ IF q = "dialogs" THEN TRUE ELSE UNCHANGED dlgVars
  /\ IF q = "tree" THEN TRUE ELSE UNCHANGED treeVars
  /\ IF q = "clip" THEN TRUE ELSE UNCHANGED clipVars
  /\ IF q = "pointer" THEN TRUE ELSE UNCHANGED pointerVars

MCNext ==
  \/ part = "activity" /\ ActivityNext /\ Only("activity")
  \/ part = "panes" /\ TuiNext /\ Only("panes")
  \/ part = "forms" /\ FormNext /\ Only("forms")
  \/ part = "layout" /\ LayoutNext /\ Only("layout")
  \/ part = "prefs" /\ PrefNext /\ Only("prefs")
  \/ part = "dialogs" /\ DlgNext /\ Only("dialogs")
  \/ part = "tree" /\ TreeNext /\ Only("tree")
  \/ part = "clip" /\ ClipNext /\ Only("clip")
  \/ part = "pointer" /\ PointerNext /\ Only("pointer")

MCSpec == MCInit /\ [][MCNext]_MCVars

-------------------------------------------------------------------------------
\* Every part stays within its types.
UiTypeOK ==
  /\ ActivityTypeOK /\ TuiTypeOK /\ FormTypeOK /\ LayoutTypeOK
  /\ PrefTypeOK /\ DlgTypeOK /\ TreeTypeOK /\ ClipTypeOK /\ PointerTypeOK

\* A pane and a dot belong to the session they are drawn for, in whatever
\* order keys, refreshes, streams, events and snapshots come (app.rs run_loop,
\* routes/events.rs).
PanesAreCurrent == StreamsFollowSelection /\ DotIsCurrent

\* An answer finds the request it answers and a confirmed action the sessions
\* it was confirmed for: forms that work in the background, Ctrl-V requests
\* that agents may answer late, dialogs over a list that changes (app.rs,
\* routes/clipboard.rs).
AnswersFindTheirRequest ==
  /\ FrozenFormIsAwaited
  /\ FallbackIsExclusive
  /\ PendingIsAwaited
  /\ DoneAsConfirmed

\* The keyboard, lazygit, the saved preferences, the cursor and the mouse fit
\* what is on the screen, whatever opened, closed, folded, filtered, resized or
\* scrolled it (app.rs, ui.rs).
ScreenIsCoherent ==
  /\ KeyboardHasAPane
  /\ LazygitFollows
  /\ SettingsStick
  /\ CursorOnScreen
  /\ LayoutFits
  /\ EndsAreCopied
  /\ NoBadgeIsLive
  /\ EventsDiffer
===============================================================================
