------------------------------- MODULE TuiTree -------------------------------
(***************************************************************************)
(* The sidebar tree of the terminal UI.                                    *)
(*                                                                         *)
(* The list of sessions is shown as hosts, their projects and the sessions *)
(* in them; hosts and projects fold, and a filter on names shows matching  *)
(* sessions as if everything were open.  The cursor is an index into the   *)
(* rows on screen, and the session the pane streams is derived from it.    *)
(* Every refresh of the list builds the tree anew, with the cursor at the  *)
(* top, and carries folds, filter and selection over.                      *)
(***************************************************************************)
EXTENDS Integers, Sequences, FiniteSets

CONSTANTS
  TreeSessions,    \* sessions <<host, project, id>> of positive numbers
  Names,           \* names a session can have, ordered, positive numbers
  MaxTreeChanges   \* bound: changes of the daemon's sessions

ASSUME TreeAssumption ==
  /\ IsFiniteSet(TreeSessions)
  /\ TreeSessions \subseteq (Nat \ {0}) \X (Nat \ {0}) \X (Nat \ {0})
  /\ Names \subseteq Nat \ {0} /\ MaxTreeChanges \in Nat

VARIABLES
  there,      \* the daemon's sessions: each one's name, 0 when it has none
  leaves,     \* app.sessions: the same as of the last refresh
  closed,     \* hosts <<h>> and projects <<h, p>> that are closed
  needle,     \* the filter; 0 is none
  atRow,      \* tree.cursor, counted from 1
  chosen,     \* app.selected
  treeChanges

treeVars == <<there, leaves, closed, needle, atRow, chosen,
              treeChanges>>

NoLeaf == <<>>
NamesOf == [TreeSessions -> Names \cup {0}]
Heads(n, list) == {SubSeq(s, 1, n): s \in {s \in TreeSessions: list[s] # 0}}

\* The variables stay within their types.
TreeTypeOK ==
  /\ there \in NamesOf /\ leaves \in NamesOf
  /\ closed \subseteq Heads(1, leaves) \cup Heads(2, leaves)
  /\ needle \in Names \cup {0} /\ atRow \in Nat \ {0}
  /\ chosen \in TreeSessions \cup {NoLeaf}
  /\ treeChanges \in 0..MaxTreeChanges

-----------------------------------------------------------------------------
(* Rows                                                                    *)

\* Rows are in the order of their hosts, projects, names and ids; a header
\* comes before what it heads.
Key(list, r) ==
  <<r[1], IF Len(r) > 1 THEN r[2] ELSE 0,
    IF Len(r) > 2 THEN list[r] ELSE 0, IF Len(r) > 2 THEN r[3] ELSE 0>>
UpTo(list, q, r) ==
  LET k == Key(list, q)
      l == Key(list, r)
  IN \A i \in 1..4: (\A j \in 1..(i - 1): k[j] = l[j]) => k[i] <= l[i]

\* Tree::rows.  A filter forces everything open and leaves out what has no
\* match.
RowSet(list, shut, wanted) ==
  LET listed == {s \in TreeSessions: list[s] # 0}
      match == IF wanted = 0 THEN listed
                             ELSE {s \in listed: list[s] = wanted}
      IsOpen(head) == wanted # 0 \/ head \notin shut
      open1 == {s \in match: IsOpen(SubSeq(s, 1, 1))}
  IN {SubSeq(s, 1, 1): s \in match} \cup {SubSeq(s, 1, 2): s \in open1}
       \cup {s \in open1: IsOpen(SubSeq(s, 1, 2))}

TreeRows == RowSet(leaves, closed, needle)

\* Where a row is on screen, and what is on screen there.
IndexOf(list, rows, r) ==
  Cardinality({q \in rows: UpTo(list, q, r)})
RowAt(list, rows, i) == CHOOSE r \in rows: IndexOf(list, rows, r) = i

\* row_index_of, select_session: a row that is not on screen moves nothing.
Seek(list, rows, r, else) == IF r \in rows THEN IndexOf(list, rows, r) ELSE else

ClampRow(rows, i) ==
  IF i < 1 \/ rows = {} THEN 1
  ELSE IF i > Cardinality(rows) THEN Cardinality(rows) ELSE i

\* Tree::current_session: a header stands for the first session under it,
\* whether or not the filter lets that one through.
SessionAt(list, rows, i) ==
  IF rows = {} THEN NoLeaf
  ELSE LET row == RowAt(list, rows, i)
           under == {s \in TreeSessions:
                       list[s] # 0 /\ SubSeq(s, 1, Len(row)) = row}
       IN CHOOSE s \in under: \A t \in under: UpTo(list, s, t)

\* update_selection: the pane follows the cursor.
Choose(rows, i) == chosen' = SessionAt(leaves, rows, i)

-----------------------------------------------------------------------------
(* Keys                                                                    *)

MoveTo(i) == /\ atRow' = i /\ Choose(TreeRows, i)
             /\ UNCHANGED <<there, leaves, closed, needle, treeChanges>>

MoveCursorBy(d) == MoveTo(ClampRow(TreeRows, atRow + d))

\* select_session and update_selection: from the palette, from Ctrl-Tab
\* (the session before), and for a session just made.
PickSession(s) == leaves[s] # 0 /\ MoveTo(Seek(leaves, TreeRows, s, atRow))

\* Typing in the search box, its Esc, and Ctrl-F with Esc outside it, which
\* do not follow the cursor.
SetFilter ==
  /\ \E w \in Names \cup {0}:
       LET rows == RowSet(leaves, closed, w)
           i == ClampRow(rows, atRow)
       IN /\ needle' = w /\ atRow' = i
          /\ \/ Choose(rows, i)
             \/ w = 0 /\ UNCHANGED chosen
  /\ UNCHANGED <<there, leaves, closed, treeChanges>>

\* Tree::collapse: a session closes its project, an open project closes
\* itself, a closed one its host.
Fold ==
  /\ TreeRows # {}
  /\ LET r == RowAt(leaves, TreeRows, atRow)
         project == SubSeq(r, 1, 2)
         target == IF Len(r) = 1 \/ (Len(r) = 2 /\ r \in closed)
                   THEN SubSeq(r, 1, 1) ELSE project
     IN /\ target \notin closed
        /\ closed' = closed \cup {target}
        /\ atRow' = Seek(leaves, RowSet(leaves, closed', needle), target, atRow)
  /\ UNCHANGED <<there, leaves, needle, chosen, treeChanges>>

\* Tree::expand: an open host opens every project in it.
Unfold ==
  /\ TreeRows # {}
  /\ LET r == RowAt(leaves, TreeRows, atRow) IN
       /\ Len(r) < 3
       /\ closed' = IF Len(r) = 1 /\ r \notin closed
                    THEN {k \in closed: k[1] # r[1]} ELSE closed \ {r}
  /\ UNCHANGED <<there, leaves, needle, atRow, chosen, treeChanges>>

\* focus_group: Ctrl-1 to Ctrl-9.
FocusGroup ==
  /\ \E g \in Heads(1, leaves):
       /\ closed' = closed \ {g}
       /\ atRow' = Seek(leaves, RowSet(leaves, closed', needle), g, atRow)
  /\ UNCHANGED <<there, leaves, needle, chosen, treeChanges>>

-----------------------------------------------------------------------------
(* The list changes                                                        *)

\* A session is made, ends or gets another name.
DaemonChanges ==
  /\ treeChanges < MaxTreeChanges /\ treeChanges' = treeChanges + 1
  /\ \E s \in TreeSessions, n \in Names \cup {0}:
       n # there[s] /\ there' = [there EXCEPT ![s] = n]
  /\ UNCHANGED <<leaves, closed, needle, atRow, chosen>>

\* Fault: the rebuilt tree is shown from its top.
RebuiltAtTop(list) ==
  LET shut == closed \cap (Heads(1, list) \cup Heads(2, list))
      kept == IF chosen # NoLeaf /\ list[chosen] = 0 THEN NoLeaf ELSE chosen
  IN /\ leaves' = list /\ closed' = shut /\ chosen' = kept /\ atRow' = 1
     /\ UNCHANGED <<there, needle, treeChanges>>

\* refresh_sessions: a new tree with what was kept of the old one.  A failed
\* request reads as an empty list.
Rebuilt(list) ==
  LET shut == closed \cap (Heads(1, list) \cup Heads(2, list))
      kept == IF chosen # NoLeaf /\ list[chosen] = 0 THEN NoLeaf ELSE chosen
      rows == RowSet(list, shut, needle)
  IN /\ leaves' = list /\ closed' = shut /\ chosen' = kept
     /\ atRow' = Seek(list, rows, kept, 1)
     /\ UNCHANGED <<there, needle, treeChanges>>

RefreshTree == Rebuilt(there)
RefreshFails ==
  /\ treeChanges < MaxTreeChanges
  /\ Rebuilt([s \in TreeSessions |-> 0])

\* session.renamed and session.tool_changed: refresh, then put the cursor on
\* the session the event names, wherever the selection is.
RowEvent(s) ==
  LET shut == closed \cap (Heads(1, there) \cup Heads(2, there))
      kept == IF chosen # NoLeaf /\ there[chosen] = 0 THEN NoLeaf ELSE chosen
      rows == RowSet(there, shut, needle)
  IN /\ there[s] # 0
     /\ leaves' = there /\ closed' = shut /\ chosen' = kept
     /\ atRow' = Seek(there, rows, s, Seek(there, rows, kept, 1))
     /\ UNCHANGED <<there, needle, treeChanges>>

\* run_loop: the tree is built with the cursor at the top, and the selection
\* is the first session of the list the daemon sent, whatever its order.
TreeInit ==
  /\ there \in NamesOf /\ leaves = there
  /\ closed = {} /\ needle = 0 /\ treeChanges = 0 /\ atRow = 1
  /\ LET listed == {s \in TreeSessions: there[s] # 0} IN
       IF listed = {} THEN chosen = NoLeaf ELSE chosen \in listed

TreeNext ==
  \/ MoveCursorBy(1) \/ MoveCursorBy(-1) \/ SetFilter
  \/ Fold \/ Unfold \/ FocusGroup
  \/ DaemonChanges \/ RefreshTree \/ RefreshFails
  \/ \E s \in TreeSessions: PickSession(s) \/ RowEvent(s)

TreeSpec == TreeInit /\ [][TreeNext]_treeVars

-----------------------------------------------------------------------------
(* Properties                                                              *)

\* The cursor is always on a row: no order of folding, filtering and
\* refreshing leaves it past the end of what is shown (app.rs rows, collapse,
\* set_filter, refresh_sessions).
CursorOnScreen == TreeRows # {} => atRow \in 1..Cardinality(TreeRows)

\* A refresh keeps the user where they were: if the selected session still
\* exists and its row is shown, the cursor is on it, and no fold of a header
\* that is still listed opens or closes (app.rs refresh_sessions).
RefreshKeepsPlace ==
  [][RefreshTree =>
       /\ closed' = closed \cap (Heads(1, leaves') \cup Heads(2, leaves'))
       /\ chosen # NoLeaf /\ leaves'[chosen] # 0 =>
            /\ chosen' = chosen
            /\ chosen \in TreeRows' => RowAt(leaves', TreeRows', atRow') = chosen
    ]_treeVars

-----------------------------------------------------------------------------
(* Statements the code does not keep: TLC refutes each of them, see the    *)
(* README, "What does not hold".                                           *)

\* "Move tree cursor + reopen the stream for this id" (app.rs palette,
\* SelectSession): what is picked is what the pane shows.
PickedIsShown ==
  [][\A s \in TreeSessions: PickSession(s) /\ s # chosen => chosen' = s]_treeVars
=============================================================================
