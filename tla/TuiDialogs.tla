---------------------------- MODULE TuiDialogs ----------------------------
(***************************************************************************)
(* The sidebar's check marks and the dialogs of the terminal UI            *)
(* (agentum-tui, app.rs).  Starting, stopping, killing and renaming a      *)
(* session goes through a dialog that captures what it is about; between   *)
(* the keystroke that opens it and the one that confirms it the list of    *)
(* sessions is refreshed, sessions come and go at the daemon, marks change *)
(* and other dialogs open over it.                                         *)
(***************************************************************************)
EXTENDS Integers

CONSTANTS DlgSessions,  \* sessions that exist at some time
          MaxErrorLog,  \* MAX_ERROR_LOG
          MaxDlgOps     \* bound on confirmed actions

ASSUME DialogAssumption == MaxErrorLog \in Nat \ {0} /\ MaxDlgOps \in Nat

NoRow == "no session"
Verbs == {"start", "stop", "kill", "rename"}
\* Dialogs that are not about sessions: "other" stands for the hosts, the
\* settings and the help.
Plain == {"palette", "errors", "goal", "other"}

VARIABLES
    alive,      \* sessions the daemon has
    sessions,     \* app.sessions
    marked,     \* app.checked
    under,      \* the session under the cursor, which is selected
    dialog,     \* app.overlay: its kind, and what it is about
    inTree,     \* the tree has the keyboard
    query,      \* the tree's filter: "none", "typing" or "kept"
    errors,     \* length of the error log
    badge,      \* error_count
    todo,       \* sessions the confirmed action has yet to ask for
    verb,       \* what it asks, and whether for the marked ones
    sent,       \* history: sessions it has asked for
    agreed,     \* history: sessions the confirmed dialog named
    dlgOps      \* confirmed actions so far

dlgVars == <<alive, sessions, marked, under, dialog, inTree, query, errors,
             badge, todo, verb, sent, agreed, dlgOps>>

Closed == [kind |-> "none", bulk |-> FALSE, ids |-> {}]
Open(kind) == [kind |-> kind, bulk |-> FALSE, ids |-> {}]
About(v, s) == [kind |-> v, bulk |-> FALSE, ids |-> {s}]
NoVerb == [kind |-> "none", bulk |-> FALSE]

\* The variables stay within their types.
DlgTypeOK ==
    /\ alive \subseteq DlgSessions /\ sessions \subseteq DlgSessions
    /\ marked \subseteq sessions
    /\ under \in sessions \cup {NoRow}
    /\ dialog \in [kind: Verbs \cup Plain \cup {"none"}, bulk: BOOLEAN,
                   ids: SUBSET DlgSessions]
    /\ inTree \in BOOLEAN
    /\ query \in {"none", "typing", "kept"}
    /\ errors \in 0..MaxErrorLog /\ badge \in 0..MaxErrorLog + 1
    /\ todo \subseteq DlgSessions /\ sent \subseteq DlgSessions
    /\ agreed \subseteq DlgSessions
    /\ verb \in [kind: Verbs \cup {"none"}, bulk: BOOLEAN]
    /\ dlgOps \in 0..MaxDlgOps

\* The loop runs one handler at a time, and a confirmed action is awaited.
VerbIdle == verb = NoVerb

-----------------------------------------------------------------------------
(* The list of sessions.                                                   *)

Others == <<inTree, query, errors, badge, todo, verb, sent, agreed, dlgOps>>

\* refresh_all: the list is what the daemon answers, empty when it does not;
\* marks and a selection that are not listed any more are dropped.
RefreshAll(found) ==
    /\ sessions' = found
    /\ marked' = marked \cap found
    /\ under' = IF under \in found THEN under ELSE NoRow

DlgRefresh ==
    /\ VerbIdle
    /\ RefreshAll(alive) \/ RefreshAll({})
    /\ UNCHANGED <<alive, dialog, Others>>

\* Another client, or an agent that ends.
SessionAppears ==
    /\ \E s \in DlgSessions \ alive : alive' = alive \cup {s}
    /\ UNCHANGED <<sessions, marked, under, dialog, Others>>

SessionVanishes ==
    /\ \E s \in alive : alive' = alive \ {s}
    /\ UNCHANGED <<sessions, marked, under, dialog, Others>>

\* j, k, the mouse, the filter's arrows and an event that selects a session.
DlgMoveCursor ==
    /\ VerbIdle
    /\ under' \in (sessions \cup {NoRow}) \ {under}
    /\ UNCHANGED <<alive, sessions, marked, dialog, Others>>

Focuses ==
    /\ VerbIdle /\ inTree' = ~inTree
    /\ UNCHANGED <<alive, sessions, marked, under, dialog, query, errors, badge,
                   todo, verb, sent, agreed, dlgOps>>

\* Enter on a row, and Alt-Enter, which is served before an open dialog.
ToggleMark ==
    /\ VerbIdle /\ under # NoRow
    /\ marked' = IF under \in marked THEN marked \ {under}
                 ELSE marked \cup {under}
    /\ UNCHANGED <<alive, sessions, under, dialog, Others>>

\* Esc in the tree: the marks go first, then the filter.
EscTree ==
    /\ VerbIdle /\ dialog = Closed /\ inTree
    /\ \/ /\ query = "typing"
          /\ query' = "none" /\ UNCHANGED marked
       \/ /\ query # "typing" /\ marked # {}
          /\ marked' = {} /\ UNCHANGED query
       \/ /\ query = "kept" /\ marked = {}
          /\ query' = "none" /\ UNCHANGED marked
    /\ UNCHANGED <<alive, sessions, under, dialog, inTree, errors, badge, todo,
                   verb, sent, agreed, dlgOps>>

\* Ctrl-F, and Enter, which keeps the filter.
FilterKey ==
    /\ VerbIdle /\ dialog = Closed /\ inTree
    /\ query' = IF query = "typing" THEN "kept" ELSE "typing"
    /\ UNCHANGED <<alive, sessions, marked, under, dialog, inTree, errors,
                   badge, todo, verb, sent, agreed, dlgOps>>

-----------------------------------------------------------------------------
(* Opening and closing.                                                    *)

\* bulk_action_from_checks, and otherwise the selected session.
Target == IF marked # {} THEN marked ELSE {under} \ {NoRow}

\* u, s, K, D, x, their shifted forms and, over an open dialog too, Ctrl-D.
AskAction ==
    /\ VerbIdle /\ inTree /\ Target # {}
    /\ \E v \in {"start", "stop", "kill"} :
         /\ dialog = Closed \/ v = "kill"
         /\ dialog' = [kind |-> v, bulk |-> marked # {}, ids |-> Target]
    /\ UNCHANGED <<alive, sessions, marked, under, Others>>

\* The palette's entries, Ctrl-R, and Enter in a pane whose session stopped
\* name one session, marks or no marks.
AskOne ==
    /\ VerbIdle
    /\ \/ \E v \in Verbs, s \in sessions :
            dialog.kind = "palette" /\ dialog' = About(v, s)
       \/ /\ under # NoRow /\ inTree
          /\ dialog' = About("rename", under)
       \/ /\ under # NoRow /\ ~inTree /\ dialog = Closed
          /\ dialog' = About("start", under)
    /\ UNCHANGED <<alive, sessions, marked, under, Others>>

\* Ctrl-P, Ctrl-H, Ctrl-S and Ctrl-comma replace whatever is open.
OpenPlain ==
    /\ VerbIdle
    /\ \E k \in Plain : /\ dialog = Closed \/ k \in {"palette", "other"}
                        /\ dialog' = Open(k)
    /\ UNCHANGED <<alive, sessions, marked, under, Others>>

\* Esc, q, n; the error list's c also clears the log.
CloseDialog ==
    /\ VerbIdle /\ dialog # Closed
    /\ dialog' = Closed
    /\ \/ UNCHANGED <<errors, badge>>
       \/ dialog.kind = "errors" /\ errors' = 0 /\ badge' = 0
    /\ UNCHANGED <<alive, sessions, marked, under, inTree, query, todo, verb,
                   sent, agreed, dlgOps>>

\* push_diagnostic: the log drops its oldest entries, the badge only counts
\* up; an entry equal to the last one of the past two seconds is dropped.
PushError ==
    /\ errors' = IF errors < MaxErrorLog THEN errors + 1 ELSE errors
    /\ badge' = IF badge <= MaxErrorLog THEN badge + 1 ELSE badge

\* Ctrl-Enter in the goal form: it closes, or shows what was refused.
SubmitGoal ==
    /\ VerbIdle /\ dialog.kind = "goal"
    /\ dialog' \in {Closed, dialog}
    /\ UNCHANGED <<alive, sessions, marked, under, Others>>

\* spawn_plain_terminal: t in the tree and the palette.
SpawnTerminal ==
    /\ VerbIdle
    /\ \/ dialog = Closed /\ inTree
       \/ dialog.kind = "palette"
    /\ dialog' = Closed
    /\ \/ /\ \E s \in DlgSessions \ alive :
               /\ alive' = alive \cup {s}
               /\ sessions' = alive'
               /\ under' = s
          /\ marked' = marked \cap sessions'
          /\ PushError \/ UNCHANGED <<errors, badge>>
       \/ PushError /\ UNCHANGED <<alive, sessions, under, marked>>
    /\ inTree' = FALSE
    /\ UNCHANGED <<query, todo, verb, sent, agreed, dlgOps>>

-----------------------------------------------------------------------------
(* handle_confirm_key, handle_rename_key and execute_action.               *)

\* What a confirmed dialog is about: what it captured when it was opened.
Captured == dialog.ids

Confirm ==
    /\ VerbIdle /\ dialog.kind \in Verbs /\ dlgOps < MaxDlgOps
    /\ todo' = Captured
    /\ verb' = [kind |-> dialog.kind, bulk |-> dialog.bulk]
    /\ sent' = {} /\ agreed' = dialog.ids
    /\ dlgOps' = dlgOps + 1
    /\ dialog' = Closed
    /\ UNCHANGED <<alive, sessions, marked, under, inTree, query, errors,
                   badge>>

\* One request of the action.  A failure is reported and the others follow,
\* that of a rename in its dialog; a session that is killed leaves the pane
\* before the answer is known.
Request ==
    /\ \E s \in todo :
         /\ todo' = todo \ {s}
         /\ sent' = sent \cup {s}
         /\ \/ /\ s \in alive
               /\ alive' = IF verb.kind = "kill" THEN alive \ {s} ELSE alive
               /\ UNCHANGED <<errors, badge, dialog>>
            \/ /\ verb.kind = "rename"
               /\ dialog' = About("rename", s)
               /\ UNCHANGED <<alive, errors, badge>>
            \/ /\ verb.kind # "rename"
               /\ PushError
               /\ UNCHANGED <<alive, dialog>>
         /\ under' = IF verb.kind = "kill" /\ under = s THEN NoRow ELSE under
    /\ UNCHANGED <<sessions, marked, inTree, query, verb, agreed, dlgOps>>

\* After the last request the list is refreshed, unless a rename was refused;
\* a bulk action clears the marks.
Finish ==
    /\ ~VerbIdle /\ todo = {}
    /\ verb' = NoVerb
    /\ \/ /\ dialog # Closed
          /\ UNCHANGED <<sessions, marked, under>>
       \/ /\ dialog = Closed
          /\ \E found \in {alive, {}} :
               /\ sessions' = found
               /\ marked' = IF verb.bulk THEN {} ELSE marked \cap found
               /\ under' = IF under \in found THEN under ELSE NoRow
    /\ UNCHANGED <<alive, dialog, inTree, query, errors, badge, todo, sent,
                   agreed, dlgOps>>

-----------------------------------------------------------------------------
DlgInit ==
    /\ alive = DlgSessions /\ sessions = DlgSessions
    /\ marked = {} /\ under = NoRow
    /\ dialog = Closed
    /\ inTree = TRUE /\ query = "none"
    /\ errors = 0 /\ badge = 0
    /\ todo = {} /\ verb = NoVerb /\ sent = {} /\ agreed = {}
    /\ dlgOps = 0

DlgNext ==
    \/ DlgRefresh
    \/ SessionAppears
    \/ SessionVanishes
    \/ DlgMoveCursor
    \/ Focuses
    \/ ToggleMark
    \/ EscTree
    \/ FilterKey
    \/ AskAction
    \/ AskOne
    \/ OpenPlain
    \/ CloseDialog
    \/ SubmitGoal
    \/ SpawnTerminal
    \/ Confirm
    \/ Request
    \/ Finish

DlgSpec == DlgInit /\ [][DlgNext]_dlgVars

-----------------------------------------------------------------------------
\* What a dialog asked about is what happens: when a confirmed action ends,
\* the requests it has sent are for exactly the sessions the dialog named,
\* whatever was marked, selected, refreshed or deleted since it was opened and
\* whichever of the requests failed; and the error badge is lit while, and
\* only while, the log has something to show.
DoneAsConfirmed ==
    /\ sent \subseteq agreed
    /\ todo = {} => sent = agreed
    /\ badge > 0 <=> errors > 0
=============================================================================
