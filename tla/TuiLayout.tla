---------------------------- MODULE TuiLayout ----------------------------
(***************************************************************************)
(* The layout of the terminal UI (agentum-tui, app.rs): which panes are    *)
(* open, which one has the keyboard, and the lazygit side pane, a child    *)
(* process that follows the directory of the session in the left pane      *)
(* after the cursor has come to rest.                                      *)
(***************************************************************************)
EXTENDS Integers

CONSTANTS LocalDirs,    \* session directories that exist on this machine
          RemoteDirs    \* directories that exist on another machine only

NoDir == "none"
Here == "cwd"           \* the directory the UI was started in
Dirs == LocalDirs \cup RemoteDirs

ASSUME LayoutAssumption == NoDir \notin Dirs

VARIABLES
    focus,      \* the pane with the keyboard
    lastTerm,   \* last_term_side
    rightOpen,  \* split_right is open
    lazy,       \* directory lazygit runs in, NoDir when it is closed
    pending,    \* pending_lazygit_cwd
    rested,     \* LAZYGIT_NAV_DEBOUNCE has passed since the last move
    leftDir,    \* directory of the session in the left pane
    barHidden,  \* sidebar_hidden
    full,       \* fullscreen
    section,    \* tree_section
    folded,     \* servers_collapsed
    quit,       \* should_quit
    interrupt   \* history: the pane a quitting Ctrl-C was typed into

layoutVars == <<focus, lastTerm, rightOpen, lazy, pending, rested, leftDir,
                barHidden, full, section, folded, quit, interrupt>>

Panes == {"tree", "term", "termRight", "lazygit"}

\* The variables stay within their types.
LayoutTypeOK ==
    /\ focus \in Panes
    /\ lastTerm \in {"left", "right"}
    /\ rightOpen \in BOOLEAN
    /\ lazy \in LocalDirs \cup {Here, NoDir}
    /\ pending \in Dirs \cup {NoDir}
    /\ rested \in BOOLEAN
    /\ leftDir \in Dirs \cup {NoDir}
    /\ barHidden \in BOOLEAN /\ full \in BOOLEAN
    /\ section \in {"servers", "sessions"}
    /\ folded \in BOOLEAN /\ quit \in BOOLEAN
    /\ interrupt \in Panes \cup {"none"}

LazygitOpen == lazy # NoDir

-----------------------------------------------------------------------------
(* Focus.                                                                  *)

\* set_focus
SetFocus(f) ==
    /\ focus' = f
    /\ lastTerm' = CASE f = "term" -> "left"
                     [] f = "termRight" -> "right"
                     [] OTHER -> lastTerm

\* app.focus assigned directly: 1, 2, 3, Ctrl-digit and the palette.
AssignFocus(f) ==
    /\ f = "lazygit" => LazygitOpen
    /\ f # "termRight"
    /\ focus' = f
    /\ UNCHANGED lastTerm

NextFocus(f) ==
    CASE f = "tree" -> "term"
      [] f = "term" -> IF rightOpen THEN "termRight"
                       ELSE IF LazygitOpen THEN "lazygit" ELSE "tree"
      [] f = "termRight" -> IF LazygitOpen THEN "lazygit" ELSE "tree"
      [] f = "lazygit" -> "tree"

PrevFocus(f) ==
    CASE f = "tree" -> IF LazygitOpen THEN "lazygit"
                       ELSE IF rightOpen THEN "termRight" ELSE "term"
      [] f = "lazygit" -> IF rightOpen THEN "termRight" ELSE "term"
      [] f = "termRight" -> "term"
      [] f = "term" -> "tree"

\* F5 and F6 anywhere, Tab and Shift-Tab in the tree.
CycleFocus ==
    /\ SetFocus(NextFocus(focus)) \/ SetFocus(PrevFocus(focus))
    /\ UNCHANGED <<rightOpen, lazy, pending, rested, leftDir, barHidden, full,
                   section, folded, quit, interrupt>>

JumpFocus ==
    /\ \E f \in Panes : AssignFocus(f)
    /\ UNCHANGED <<rightOpen, lazy, pending, rested, leftDir, barHidden, full,
                   section, folded, quit, interrupt>>

\* Ctrl-E: from the tree to the pane last typed in, from a pane to the tree,
\* which is made visible.
FlipFocus ==
    /\ IF focus = "tree"
       THEN /\ SetFocus(IF lastTerm = "right" /\ rightOpen THEN "termRight"
                        ELSE "term")
            /\ UNCHANGED <<full, barHidden>>
       ELSE /\ SetFocus("tree")
            /\ full' = FALSE /\ barHidden' = FALSE
    /\ UNCHANGED <<rightOpen, lazy, pending, rested, leftDir, section, folded,
                   quit, interrupt>>

\* Space on a session row.
EnterTerm ==
    /\ focus = "tree" /\ leftDir # NoDir
    /\ SetFocus("term")
    /\ UNCHANGED <<rightOpen, lazy, pending, rested, leftDir, barHidden, full,
                   section, folded, quit, interrupt>>

\* Ctrl-B, Ctrl-K B: the tree cannot keep the keyboard when it is hidden.
ToggleSidebar ==
    /\ barHidden' = ~barHidden
    /\ IF ~barHidden /\ focus = "tree" THEN SetFocus("term")
       ELSE UNCHANGED <<focus, lastTerm>>
    /\ UNCHANGED <<rightOpen, lazy, pending, rested, leftDir, full, section,
                   folded, quit, interrupt>>

\* Ctrl-K Z and F.
ToggleFullscreen ==
    /\ full' = ~full
    /\ IF ~full /\ focus = "tree" THEN SetFocus("term")
       ELSE UNCHANGED <<focus, lastTerm>>
    /\ UNCHANGED <<rightOpen, lazy, pending, rested, leftDir, barHidden,
                   section, folded, quit, interrupt>>

\* The palette's fullscreen, and Esc: the focus stays.
PlainFullscreen ==
    /\ full' = ~full
    /\ UNCHANGED <<focus, lastTerm, rightOpen, lazy, pending, rested, leftDir,
                   barHidden, section, folded, quit, interrupt>>

\* Ctrl-K V: a folded servers section cannot hold the cursor.
ToggleServers ==
    /\ folded' = ~folded
    /\ section' = IF ~folded THEN "sessions" ELSE section
    /\ UNCHANGED <<focus, lastTerm, rightOpen, lazy, pending, rested, leftDir,
                   barHidden, full, quit, interrupt>>

\* j and k at the end of a section.
CrossSection ==
    /\ focus = "tree"
    /\ section' = IF section = "servers" THEN "sessions"
                  ELSE IF folded THEN section ELSE "servers"
    /\ UNCHANGED <<focus, lastTerm, rightOpen, lazy, pending, rested, leftDir,
                   barHidden, full, folded, quit, interrupt>>

-----------------------------------------------------------------------------
(* The split and lazygit exclude each other.                               *)

OpenSplit ==
    /\ ~LazygitOpen /\ ~rightOpen
    /\ rightOpen' = TRUE
    /\ focus' = "termRight" /\ lastTerm' = "right"
    /\ UNCHANGED <<lazy, pending, rested, leftDir, barHidden, full, section,
                   folded, quit, interrupt>>

\* Fault: the pane is closed and the keyboard stays with it.
CloseSplitKeepsFocus ==
    /\ rightOpen
    /\ rightOpen' = FALSE
    /\ lastTerm' = "left"
    /\ UNCHANGED <<focus, lazy, pending, rested, leftDir, barHidden, full,
                   section, folded, quit, interrupt>>

CloseSplit ==
    /\ rightOpen
    /\ rightOpen' = FALSE
    /\ focus' = IF focus = "termRight" THEN "term" ELSE focus
    /\ lastTerm' = "left"
    /\ UNCHANGED <<lazy, pending, rested, leftDir, barHidden, full, section,
                   folded, quit, interrupt>>

\* attach_created_session: a session made from a pane goes to the right pane,
\* lazygit gives way to it; one made from the tree replaces the target side.
AttachCreated ==
    \/ /\ lazy' = NoDir
       /\ rightOpen' = TRUE
       /\ focus' = "termRight" /\ lastTerm' = "right"
       /\ UNCHANGED <<pending, rested, leftDir, barHidden, full, section,
                      folded, quit, interrupt>>
    \/ /\ IF focus = "termRight" \/ (focus # "term" /\ lastTerm = "right")
          THEN /\ SetFocus("termRight")
               /\ UNCHANGED <<leftDir, pending, rested>>
          ELSE /\ SetFocus("term")
               /\ leftDir' \in Dirs
               /\ pending' = IF LazygitOpen THEN leftDir' ELSE NoDir
               /\ rested' = FALSE
       /\ UNCHANGED <<rightOpen, lazy, barHidden, full, section, folded, quit,
                      interrupt>>

DropLazygit ==
    /\ lazy' = NoDir
    /\ focus' = IF focus = "lazygit" THEN "tree" ELSE focus

\* lazygit_launch_cwd
LaunchDir == IF leftDir \in LocalDirs THEN leftDir ELSE Here

\* LocalPty::spawn: a child in the directory, or an error and no child.
Spawned(d) == {d, NoDir}

\* toggle_lazygit
ToggleLazygit ==
    /\ \/ /\ LazygitOpen
          /\ DropLazygit
       \/ /\ ~LazygitOpen /\ ~rightOpen
          /\ lazy' \in Spawned(LaunchDir)
          /\ focus' = IF lazy' = NoDir THEN focus ELSE "lazygit"
    /\ UNCHANGED <<lastTerm, rightOpen, pending, rested, leftDir, barHidden,
                   full, section, folded, quit, interrupt>>

\* The child exits by itself and the loop sees its status.
LazygitExits ==
    /\ LazygitOpen
    /\ DropLazygit
    /\ UNCHANGED <<lastTerm, rightOpen, pending, rested, leftDir, barHidden,
                   full, section, folded, quit, interrupt>>

\* update_selection on the left: request_lazygit_for_selection.
SelectLeft ==
    /\ focus = "tree" /\ lastTerm = "left"
    /\ \E d \in (Dirs \cup {NoDir}) \ {leftDir} :
         /\ leftDir' = d
         /\ pending' = IF ~LazygitOpen THEN NoDir
                       ELSE IF d = NoDir THEN pending ELSE d
         /\ rested' = IF LazygitOpen /\ d # NoDir THEN FALSE ELSE rested
    /\ UNCHANGED <<focus, lastTerm, rightOpen, lazy, barHidden, full, section,
                   folded, quit, interrupt>>

\* A refresh or a kill takes the selection away without a request.
LoseSelection ==
    /\ leftDir # NoDir
    /\ leftDir' = NoDir
    /\ UNCHANGED <<focus, lastTerm, rightOpen, lazy, pending, rested,
                   barHidden, full, section, folded, quit, interrupt>>

Rest ==
    /\ ~rested /\ rested' = TRUE
    /\ UNCHANGED <<focus, lastTerm, rightOpen, lazy, pending, leftDir,
                   barHidden, full, section, folded, quit, interrupt>>

\* drive_pending_lazygit on a tick, with refresh_lazygit_for_selection: the
\* child is replaced by one in the selected directory, or closed when that
\* directory is not on this machine or the new child does not start.
DrivePending ==
    /\ pending # NoDir
    /\ \/ /\ ~LazygitOpen \/ lazy = pending
          /\ pending' = NoDir
          /\ UNCHANGED <<lazy, focus>>
       \/ /\ LazygitOpen /\ lazy # pending /\ rested
          /\ pending' = NoDir
          /\ CASE leftDir = NoDir \/ leftDir = lazy -> UNCHANGED <<lazy, focus>>
               [] leftDir \in RemoteDirs -> DropLazygit
               [] OTHER -> \E child \in Spawned(leftDir) :
                             IF child = NoDir THEN DropLazygit
                             ELSE lazy' = child /\ UNCHANGED focus
    /\ UNCHANGED <<lastTerm, rightOpen, rested, leftDir, barHidden, full,
                   section, folded, quit, interrupt>>

-----------------------------------------------------------------------------
(* Leaving.                                                                *)

\* Ctrl-C goes to the pane from the left terminal and from lazygit.
CtrlC ==
    /\ focus \notin {"term", "lazygit"}
    /\ quit' = TRUE
    /\ interrupt' = focus
    /\ UNCHANGED <<focus, lastTerm, rightOpen, lazy, pending, rested, leftDir,
                   barHidden, full, section, folded>>

CtrlQ ==
    /\ quit' = TRUE
    /\ UNCHANGED <<focus, lastTerm, rightOpen, lazy, pending, rested, leftDir,
                   barHidden, full, section, folded, interrupt>>

-----------------------------------------------------------------------------
LayoutInit ==
    /\ focus = "tree" /\ lastTerm = "left"
    /\ rightOpen = FALSE
    /\ lazy = NoDir /\ pending = NoDir /\ rested = FALSE
    /\ leftDir \in Dirs \cup {NoDir}
    /\ barHidden = FALSE /\ full = FALSE
    /\ section = "sessions" /\ folded \in BOOLEAN
    /\ quit = FALSE /\ interrupt = "none"

LayoutNext ==
    /\ ~quit
    /\ \/ CycleFocus
       \/ JumpFocus
       \/ FlipFocus
       \/ EnterTerm
       \/ ToggleSidebar
       \/ ToggleFullscreen
       \/ PlainFullscreen
       \/ ToggleServers
       \/ CrossSection
       \/ OpenSplit
       \/ CloseSplit
       \/ AttachCreated
       \/ ToggleLazygit
       \/ LazygitExits
       \/ SelectLeft
       \/ LoseSelection
       \/ Rest
       \/ DrivePending
       \/ CtrlC
       \/ CtrlQ

LayoutSpec == LayoutInit /\ [][LayoutNext]_layoutVars

-----------------------------------------------------------------------------
\* The keyboard is never left with a pane that was closed, the side that j and
\* k retarget is open, and the split and lazygit are never both open, whatever
\* closes a pane: a key, a child that exits, a session created meanwhile.
KeyboardHasAPane ==
    /\ focus = "termRight" => rightOpen
    /\ focus = "lazygit" => LazygitOpen
    /\ lastTerm = "right" => rightOpen
    /\ ~(rightOpen /\ LazygitOpen)
    /\ section = "servers" => ~folded

\* Once the cursor has come to rest and the tick has served it, lazygit runs
\* in the directory of the session in the left pane: it does not drift to the
\* directory of a session the cursor only passed.
LazygitFollows ==
    LazygitOpen /\ pending = NoDir /\ leftDir \in LocalDirs =>
        lazy = leftDir

-----------------------------------------------------------------------------
(* Statements the code does not keep: TLC refutes each of them, see the    *)
(* README, "What does not hold".                                           *)

\* "Ctrl-C only quits when no pane is focused.  Inside a pane it's a real
\* SIGINT" (handle_key).
CtrlCStaysInPane == interrupt \in {"none", "tree"}
=============================================================================
