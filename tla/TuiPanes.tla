----------------------------- MODULE TuiPanes -----------------------------
(***************************************************************************)
(* The two terminal panes of the terminal UI (agentum-tui, app.rs): the    *)
(* session list and the tree cursor, the selection of each pane, the task  *)
(* that streams the selected session into it, the parser kept per session, *)
(* and the kill dialog.  The run loop handles one input at a time, keys    *)
(* first; the stream tasks and the server go on in between.  A pane's      *)
(* messages travel through one channel per side which outlives the tasks   *)
(* that write to it.                                                       *)
(***************************************************************************)
EXTENDS Integers, Sequences, FiniteSets

CONSTANTS TuiSessions,  \* ids, a finite set of naturals: the list order
          MaxOut,       \* bound: chunks a session prints
          ChannelRoom,  \* bound: messages waiting in a pane's channel
          MaxKeyPresses \* bound: keys that move, split, check or kill

ASSUME TuiSessionsAssumption ==
    /\ TuiSessions \subseteq Nat \ {0} /\ IsFiniteSet(TuiSessions)
    /\ MaxOut \in Nat /\ ChannelRoom \in Nat /\ MaxKeyPresses \in Nat

Nobody == 0
Sides == {"left", "right"}

VARIABLES
    listed,     \* sessions the server has
    printed,    \* chunks each session has printed
    resumeAt,   \* the server's checkpoint of what each session's client got
    known,      \* app.sessions
    expanded,   \* the project row of the tree is open
    cursor,     \* row of the tree: 0 is the project row, then the sessions
    pane,       \* selection, key channel, stream task and parser per side
    split,      \* the right pane is open
    lastSide,   \* last_term_side
    cache,      \* parser_cache: parsers of sessions the left pane has left
    prevSel,    \* prev_selected
    channel,    \* messages of each side not yet handled
    checked,    \* checked sessions of the tree
    asking,     \* the kill dialog: the ids it names
    marks,      \* recently_killed
    presses,    \* counts key presses
    orphaned,   \* history: the left selection was killed under its stream
    hushed      \* history: the crash of a live session was not reported

paneVars == <<listed, printed, resumeAt, known, expanded, cursor, pane, split,
              lastSide, cache, prevSel, channel, checked, asking, marks,
              presses, orphaned, hushed>>

Ids == TuiSessions \cup {Nobody}

\* A parser: chunks of its session it holds from the start, whether chunks
\* are missing, and whether it was fed another session's bytes.
Blank == [got |-> 0, gap |-> FALSE, alien |-> FALSE]
Parsers == [got : 0 .. MaxOut, gap : BOOLEAN, alien : BOOLEAN]
Idle == [sel |-> Nobody, key |-> Nobody, task |-> "none", resume |-> FALSE,
         sent |-> 0, term |-> Blank]
Messages == [of : TuiSessions, from : 0 .. MaxOut, to : 0 .. MaxOut]

\* The variables stay within their types.
TuiTypeOK ==
    /\ listed \subseteq TuiSessions /\ known \subseteq TuiSessions
    /\ printed \in [TuiSessions -> 0 .. MaxOut]
    /\ resumeAt \in [TuiSessions -> -1 .. MaxOut]
    /\ expanded \in BOOLEAN /\ split \in BOOLEAN
    /\ cursor \in 0 .. Cardinality(TuiSessions)
    /\ pane \in [Sides -> [sel : Ids, key : Ids, resume : BOOLEAN,
                           task : {"none", "dialing", "live", "dead"},
                           sent : 0 .. MaxOut, term : Parsers]]
    /\ lastSide \in Sides
    /\ cache \in [TuiSessions -> Parsers \cup {<<>>}]
    /\ prevSel \in Ids
    /\ \A d \in Sides : channel[d] \in Seq(Messages)
    /\ checked \subseteq TuiSessions /\ asking \subseteq TuiSessions
    /\ marks \subseteq TuiSessions
    /\ presses \in 0 .. MaxKeyPresses
    /\ orphaned \in BOOLEAN /\ hushed \in BOOLEAN

-----------------------------------------------------------------------------
(* The tree.                                                               *)

\* The list is sorted: the row of a session, and the session of a row.
RowOf(S, id) == Cardinality({s \in S : s <= id})
SessionOf(S, row) == CHOOSE s \in S : RowOf(S, s) = row

\* clamp_cursor
Clamp(S, c) ==
    LET rows == IF S = {} THEN 0
                ELSE IF expanded THEN 1 + Cardinality(S) ELSE 1
    IN  IF rows = 0 THEN 0 ELSE IF c >= rows THEN rows - 1 ELSE c

\* current_session: a project row stands for its first session.
CurrentSession(S, c) ==
    IF S = {} THEN Nobody
    ELSE SessionOf(S, IF c = 0 THEN 1 ELSE c)

\* select_session: a folded row cannot be selected, the cursor stays.
SelectRow(S, id, c) ==
    IF expanded /\ id \in S THEN RowOf(S, id) ELSE c

-----------------------------------------------------------------------------
(* Selections and streams.                                                 *)

\* The stream of side d ends: the server saves what it has sent.
Checkpoint(p, d, at) ==
    IF p[d].task = "live" THEN [at EXCEPT ![p[d].key] = p[d].sent] ELSE at

\* update_selection: side d is pointed at the row under the cursor.  The left
\* parser goes to the cache and comes back from it, and a parser that comes
\* back asks for what it missed instead of a snapshot.
UpdateSelection(d, new) ==
    LET old == pane[d]
        cached == d = "left" /\ new # Nobody /\ cache[new] # <<>>
        kept == IF d = "left" /\ old.sel # Nobody
                THEN [cache EXCEPT ![old.sel] = old.term] ELSE cache
    IN  IF new = old.sel
        THEN UNCHANGED <<pane, cache, prevSel, resumeAt>>
        ELSE /\ resumeAt' = Checkpoint(pane, d, resumeAt)
             /\ pane' = [pane EXCEPT ![d] =
                    [sel |-> new, key |-> new, sent |-> 0,
                     task |-> IF new = Nobody THEN "none" ELSE "dialing",
                     resume |-> cached,
                     term |-> IF cached THEN cache[new]
                              ELSE IF d = "left" /\ old.sel = Nobody
                              THEN old.term ELSE Blank]]
             /\ cache' = IF cached THEN [kept EXCEPT ![new] = <<>>] ELSE kept
             /\ prevSel' = IF d = "left" /\ old.sel # Nobody
                           THEN old.sel ELSE prevSel

\* refresh_sessions: a pane whose session left the list loses its selection,
\* its key channel, its stream task and its screen together.
RefreshSessions(p, at, c, S) ==
    LET Gone(d) == p[d].sel \notin S \cup {Nobody}
        ended == Checkpoint(p, "left", at)
    IN  /\ known' = S
        /\ pane' = [d \in Sides |-> IF Gone(d) THEN Idle ELSE p[d]]
        /\ resumeAt' = LET l == IF Gone("left") THEN ended ELSE at
                       IN  IF Gone("right") THEN Checkpoint(p, "right", l)
                           ELSE l
        /\ cursor' = IF p["left"].sel \in S
                     THEN SelectRow(S, p["left"].sel, Clamp(S, c))
                     ELSE Clamp(S, c)
        /\ checked' = checked \cap S

\* list_sessions: what the server has, or nothing when the call fails.
Lists(S) == {S, {}}

-----------------------------------------------------------------------------
(* The server and the stream tasks.                                        *)

\* Another client creates or deletes a session.
ServerChanges ==
    /\ \E s \in TuiSessions :
         listed' = IF s \in listed THEN listed \ {s} ELSE listed \cup {s}
    /\ presses < MaxKeyPresses /\ presses' = presses + 1
    /\ UNCHANGED <<printed, resumeAt, known, expanded, cursor, pane, split,
                   lastSide, cache, prevSel, channel, checked, asking, marks,
                   orphaned, hushed>>

SessionPrints(s) ==
    /\ s \in listed /\ printed[s] < MaxOut
    /\ printed' = [printed EXCEPT ![s] = @ + 1]
    /\ UNCHANGED <<listed, resumeAt, known, expanded, cursor, pane, split,
                   lastSide, cache, prevSel, channel, checked, asking, marks,
                   presses, orphaned, hushed>>

\* open_terminal_stream: the socket opens and brings the delta since the
\* checkpoint when a resume was asked for, and a snapshot otherwise; a
\* session the server does not have (404) ends the task.
StreamConnects(d) ==
    LET s == pane[d].key
        from == IF pane[d].resume /\ resumeAt[s] >= 0 THEN resumeAt[s] ELSE 0
    IN  /\ pane[d].task = "dialing"
        /\ Len(channel[d]) < ChannelRoom
        /\ IF s \in listed
           THEN /\ channel' = [channel EXCEPT ![d] =
                      Append(@, [of |-> s, from |-> from, to |-> printed[s]])]
                /\ pane' = [pane EXCEPT ![d].task = "live",
                                        ![d].sent = printed[s]]
           ELSE /\ pane' = [pane EXCEPT ![d].task = "dead"]
                /\ UNCHANGED channel
        /\ UNCHANGED <<listed, printed, resumeAt, known, expanded, cursor,
                       split, lastSide, cache, prevSel, checked, asking,
                       marks, presses, orphaned, hushed>>

StreamForwards(d) ==
    LET s == pane[d].key IN
    /\ pane[d].task = "live" /\ s \in listed
    /\ pane[d].sent < printed[s] /\ Len(channel[d]) < ChannelRoom
    /\ channel' = [channel EXCEPT ![d] =
           Append(@, [of |-> s, from |-> pane[d].sent, to |-> printed[s]])]
    /\ pane' = [pane EXCEPT ![d].sent = printed[s]]
    /\ UNCHANGED <<listed, printed, resumeAt, known, expanded, cursor, split,
                   lastSide, cache, prevSel, checked, asking, marks, presses,
                   orphaned, hushed>>

\* The socket drops: the task redials and asks to resume.
StreamDrops(d) ==
    /\ pane[d].task = "live"
    /\ resumeAt' = Checkpoint(pane, d, resumeAt)
    /\ pane' = [pane EXCEPT ![d].task = "dialing", ![d].resume = TRUE]
    /\ presses < MaxKeyPresses /\ presses' = presses + 1
    /\ UNCHANGED <<listed, printed, known, expanded, cursor, split, lastSide,
                   cache, prevSel, channel, checked, asking, marks, orphaned,
                   hushed>>

\* What a parser of session s holds after message m.
Feed(t, s, m) ==
    IF m.of # s THEN [t EXCEPT !.alien = TRUE]
    ELSE IF m.from = 0 THEN [got |-> m.to, gap |-> FALSE, alien |-> FALSE]
    ELSE [t EXCEPT !.got = m.to, !.gap = @ \/ m.from > t.got]

\* What it holds after the messages ms.
FeedAll(t, s, ms) ==
    LET fed[n \in 0 .. Len(ms)] ==
            IF n = 0 THEN t ELSE Feed(fed[n - 1], s, ms[n])
    IN  fed[Len(ms)]

\* handle_terminal_msg: the loop drains both channels; a message of the right
\* side is dropped when the split is closed.
HandleTerminalMsgs ==
    /\ \E d \in Sides : channel[d] # <<>>
    /\ pane' = [d \in Sides |->
           IF d = "left" \/ split
           THEN [pane[d] EXCEPT !.term = FeedAll(@, pane[d].sel, channel[d])]
           ELSE pane[d]]
    /\ channel' = [d \in Sides |-> <<>>]
    /\ UNCHANGED <<listed, printed, resumeAt, known, expanded, cursor, split,
                   lastSide, cache, prevSel, checked, asking, marks, presses,
                   orphaned, hushed>>

-----------------------------------------------------------------------------
(* Keys.  None of them is handled while the dialog is open.                *)

Press == /\ asking = {} /\ presses < MaxKeyPresses
         /\ presses' = presses + 1

\* j, k, the arrows: the cursor moves and the target side follows it.
MoveCursor ==
    /\ Press
    /\ \E step \in {-1, 1} :
         LET c == Clamp(known, IF cursor + step < 0 THEN 0 ELSE cursor + step)
         IN  /\ cursor' = c
             /\ UpdateSelection(lastSide, CurrentSession(known, c))
    /\ UNCHANGED <<listed, printed, known, expanded, split, lastSide, channel,
                   checked, asking, marks, orphaned, hushed>>

\* Ctrl-Tab: back to the session the left pane showed before.
PreviousSession ==
    /\ Press /\ prevSel \in known
    /\ LET c == SelectRow(known, prevSel, cursor)
       IN  cursor' = c /\ UpdateSelection(lastSide, CurrentSession(known, c))
    /\ UNCHANGED <<listed, printed, known, expanded, split, lastSide, channel,
                   checked, asking, marks, orphaned, hushed>>

\* h and l: collapse moves the cursor to the project row, nothing is selected.
FoldTree ==
    /\ Press
    /\ expanded' = ~expanded
    /\ cursor' = IF expanded THEN 0 ELSE cursor
    /\ UNCHANGED <<listed, printed, resumeAt, known, pane, split, lastSide,
                   cache, prevSel, channel, checked, asking, marks, orphaned,
                   hushed>>

\* Fault: closing the split leaves the stream of the right pane running.
ToggleSplitOnly ==
    /\ Press
    /\ split' = ~split
    /\ IF split
       THEN /\ lastSide' = "left"
            /\ UNCHANGED <<cache, prevSel, resumeAt, pane>>
       ELSE /\ lastSide' = "right"
            /\ UpdateSelection("right", CurrentSession(known, cursor))
    /\ UNCHANGED <<listed, printed, known, expanded, cursor, channel, checked,
                   asking, marks, orphaned, hushed>>

\* Ctrl-backslash opens the split on the session under the cursor, Ctrl-W
\* closes it.
ToggleSplit ==
    /\ Press
    /\ split' = ~split
    /\ IF split
       THEN /\ resumeAt' = Checkpoint(pane, "right", resumeAt)
            /\ pane' = [pane EXCEPT !["right"] = Idle]
            /\ lastSide' = "left"
            /\ UNCHANGED <<cache, prevSel>>
       ELSE /\ lastSide' = "right"
            /\ UpdateSelection("right", CurrentSession(known, cursor))
    /\ UNCHANGED <<listed, printed, known, expanded, cursor, channel, checked,
                   asking, marks, orphaned, hushed>>

\* set_focus on a terminal pane remembers the side.
FocusPane(d) ==
    /\ Press /\ d # lastSide /\ (d = "right" => split)
    /\ lastSide' = d
    /\ UNCHANGED <<listed, printed, resumeAt, known, expanded, cursor, pane,
                   split, cache, prevSel, channel, checked, asking, marks,
                   orphaned, hushed>>

\* Enter on a session row checks or unchecks it.
ToggleCheck ==
    /\ Press /\ cursor # 0 /\ known # {}
    /\ LET s == CurrentSession(known, cursor)
       IN  checked' = IF s \in checked THEN checked \ {s}
                      ELSE checked \cup {s}
    /\ UNCHANGED <<listed, printed, resumeAt, known, expanded, cursor, pane,
                   split, lastSide, cache, prevSel, channel, asking, marks,
                   orphaned, hushed>>

\* K, x, Ctrl-D: the checked sessions, or the one the left pane shows.
AskKill ==
    /\ Press
    /\ asking' = IF checked \cap known # {} THEN checked \cap known
                 ELSE {pane["left"].sel} \cap known
    /\ UNCHANGED <<listed, printed, resumeAt, known, expanded, cursor, pane,
                   split, lastSide, cache, prevSel, channel, checked, marks,
                   orphaned, hushed>>

CancelKill ==
    /\ asking # {} /\ asking' = {}
    /\ UNCHANGED <<listed, printed, resumeAt, known, expanded, cursor, pane,
                   split, lastSide, cache, prevSel, channel, checked, marks,
                   presses, orphaned, hushed>>

\* execute_action: the ids are marked, the left pane is emptied when it shows
\* one of them, each delete may fail, and the list is fetched again.
ExecuteKill ==
    /\ asking # {} /\ asking' = {}
    /\ marks' = marks \cup asking
    /\ LET shows == pane["left"].sel \in asking
           p == IF shows THEN [pane EXCEPT !["left"].sel = Nobody,
                                           !["left"].term = Blank]
                ELSE pane
       IN  /\ orphaned' = (orphaned \/ shows)
           /\ \E gone \in SUBSET (asking \cap listed) :
                /\ listed' = listed \ gone
                /\ \E S \in Lists(listed \ gone) :
                     RefreshSessions(p, resumeAt, cursor, S)
    /\ UNCHANGED <<printed, expanded, split, lastSide, cache, prevSel,
                   channel, presses, hushed>>

-----------------------------------------------------------------------------
(* The tick and the events socket.                                         *)

\* The periodic refresh, and r.
Refresh ==
    /\ \E S \in Lists(listed) : RefreshSessions(pane, resumeAt, cursor, S)
    /\ UNCHANGED <<listed, printed, expanded, split, lastSide, cache, prevSel,
                   channel, asking, marks, presses, orphaned, hushed>>

\* apply_event, session.crashed: reported unless the id is marked, and the
\* mark is used up.  The crash is of a live session, or the watchdog's echo
\* of a deleted one.
CrashEvent(s) ==
    /\ presses < MaxKeyPresses /\ presses' = presses + 1
    /\ s \in listed \cup marks
    /\ hushed' = (hushed \/ (s \in listed /\ s \in marks))
    /\ marks' = marks \ {s}
    /\ \E S \in Lists(listed) : RefreshSessions(pane, resumeAt, cursor, S)
    /\ UNCHANGED <<listed, printed, expanded, split, lastSide, cache, prevSel,
                   channel, asking, orphaned>>

-----------------------------------------------------------------------------
TuiInit ==
    /\ listed = TuiSessions /\ known = TuiSessions
    /\ printed = [s \in TuiSessions |-> 0]
    /\ resumeAt = [s \in TuiSessions |-> -1]
    /\ expanded = TRUE
    /\ cursor = Clamp(TuiSessions, 1)
    /\ pane = [d \in Sides |->
           IF d = "left" /\ TuiSessions # {}
           THEN [Idle EXCEPT !.sel = SessionOf(TuiSessions, 1),
                             !.key = SessionOf(TuiSessions, 1),
                             !.task = "dialing"]
           ELSE Idle]
    /\ split = FALSE /\ lastSide = "left"
    /\ cache = [s \in TuiSessions |-> <<>>]
    /\ prevSel = Nobody
    /\ channel = [d \in Sides |-> <<>>]
    /\ checked = {} /\ asking = {} /\ marks = {}
    /\ presses = 0
    /\ orphaned = FALSE /\ hushed = FALSE

TuiNext ==
    \/ ServerChanges
    \/ \E s \in TuiSessions : SessionPrints(s) \/ CrashEvent(s)
    \/ \E d \in Sides : \/ StreamConnects(d)
                        \/ StreamForwards(d)
                        \/ StreamDrops(d)
                        \/ FocusPane(d)
    \/ HandleTerminalMsgs
    \/ MoveCursor
    \/ PreviousSession
    \/ FoldTree
    \/ ToggleSplit
    \/ ToggleCheck
    \/ AskKill
    \/ CancelKill
    \/ ExecuteKill
    \/ Refresh

TuiSpec == TuiInit /\ [][TuiNext]_paneVars

-----------------------------------------------------------------------------
\* What is typed into a pane reaches the session the pane is said to show:
\* the key channel of a pane belongs to its selection, the right pane has one
\* only while the split is open, and only the kill of the session in the left
\* pane leaves a stream without its selection.
StreamsFollowSelection ==
    /\ pane["right"].key = pane["right"].sel
    /\ pane["left"].key = pane["left"].sel \/ orphaned
    /\ pane["right"].sel # Nobody => split
    /\ lastSide = "right" => split
    /\ checked \subseteq known

-----------------------------------------------------------------------------
(* Statements the code does not keep: TLC refutes each of them, see the    *)
(* README, "What does not hold".                                           *)

\* "Clear both halves of the selection/stream pair atomically"
\* (refresh_sessions): the key channel of the left pane belongs to the session
\* selected there.
StreamMatchesSelection == pane["left"].key = pane["left"].sel

\* A crash of a session that is still there is reported.
CrashIsReported == ~hushed

\* The parser of the selected session holds all that the stream sent: none of
\* it is missing and nothing of another session is mixed in.
PaneShowsItsSession ==
    \A d \in Sides : ~pane[d].term.gap /\ ~pane[d].term.alien
=============================================================================
