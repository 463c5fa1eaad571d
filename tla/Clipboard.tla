------------------------------ MODULE Clipboard ------------------------------
(***************************************************************************)
(* Pasting into a session.                                                 *)
(*                                                                         *)
(* A bracketed paste (or the helper program's clipboard) is written to the *)
(* focused pane's stream.  Ctrl-V is a protocol: the TUI asks the daemon's *)
(* broker, the broker fans the request out to the clip agents connected to *)
(* it, an agent uploads the image with the request's id, and the upload    *)
(* route types the file's path into the pane and wakes the waiting         *)
(* request.  Only when no agent is connected does the TUI read the         *)
(* clipboard of its own host and upload directly.                          *)
(***************************************************************************)
EXTENDS Integers, Sequences, FiniteSets

CONSTANTS
  ClipAgents,     \* agentum clip-agent processes
  Pastes,         \* bound: Ctrl-V presses, each used once
  ClipSessions,   \* sessions the panes may show
  ClipRoom        \* frames the request bus keeps for an agent

\* A text paste has no key of its own, and the TUI is no agent.
ASSUME ClipAssumption ==
  /\ ClipRoom \in Nat \ {0}
  /\ {"text", "noPaste"} \cap Pastes = {} /\ "tui" \notin ClipAgents

VARIABLES
  view,        \* the focused side and the session in each pane
  active,      \* sessions whose tmux pane is alive
  clipAgent,   \* each agent: its socket, its frames, its upload
  ctrlV,       \* each Ctrl-V: where its task is and what it was told
  clipPending, \* clipboard_pending: requests with a oneshot in the map
  outcome,     \* what was sent into a request's oneshot
  pasted       \* [key, by, sess]: who typed what where

clipVars == <<view, active, clipAgent, ctrlV, clipPending, outcome, pasted>>

NoPaste == "noPaste"
NoAgent == [on |-> FALSE, frames |-> <<>>, job |-> NoPaste, step |-> "idle"]
Unused == [pc |-> "idle", sess |-> NoPaste, focused |-> NoPaste, told |-> ""]

ClipInit ==
  /\ view \in [focus: {"tree", "left", "right"}, left: ClipSessions,
               right: ClipSessions]
  /\ active = ClipSessions
  /\ clipAgent = [a \in ClipAgents |-> NoAgent]
  /\ ctrlV = [p \in Pastes |-> Unused]
  /\ clipPending = {} /\ outcome = [p \in Pastes |-> ""] /\ pasted = {}

Connected == {a \in ClipAgents: clipAgent[a].on}
PasteAt(p, pc) == ctrlV[p].pc = pc
Tell(p, what) == ctrlV' = [ctrlV EXCEPT ![p].pc = "told", ![p].told = what]
\* The text that is typed, an upload's path or the clipboard's own text, is known
\* by the key that asked for it.
Types(p, by, s) == pasted' = pasted \cup {[key |-> p, by |-> by, sess |-> s]}

\* Whoever takes the entry out of the map sends the outcome; for anyone later
\* there is nothing to find.
CompleteRequest(p, what) ==
  /\ clipPending' = clipPending \ {p}
  /\ outcome' = IF p \in clipPending THEN [outcome EXCEPT ![p] = what]
                                     ELSE outcome

-----------------------------------------------------------------------------
(* The TUI                                                                 *)

\* Focus or selection moves, or a session's pane dies or comes back.
ViewChanges ==
  /\ \/ /\ view' \in [focus: {"tree", "left", "right"}, left: {view.left},
                      right: {view.right}]
        /\ UNCHANGED active
     \/ /\ view' \in [focus: {view.focus}, left: ClipSessions,
                      right: ClipSessions]
        /\ UNCHANGED active
     \/ /\ \E s \in ClipSessions:
             active' = IF s \in active THEN active \ {s} ELSE active \cup {s}
        /\ UNCHANGED view
  /\ UNCHANGED <<clipAgent, ctrlV, clipPending, outcome, pasted>>

\* handle_paste and paste_from_system_clipboard: text goes as it is, an image
\* is written to a file first and its path goes; both go to the focused pane.
PasteText ==
  /\ view.focus # "tree"
  /\ \E s \in {view[view.focus]} \cap active: Types("text", "tui", s)
  /\ UNCHANGED <<view, active, clipAgent, ctrlV, clipPending, outcome>>

\* spawn_ctrl_v_image_paste: any terminal focus will do, the session is the
\* left pane's.
PressCtrlV(p) ==
  /\ PasteAt(p, "idle") /\ view.focus # "tree"
  /\ ctrlV' = [ctrlV EXCEPT ![p] = [pc |-> "asked", sess |-> view.left,
                                    focused |-> view[view.focus],
                                    told |-> ""]]
  /\ UNCHANGED <<view, active, clipAgent, clipPending, outcome, pasted>>

\* Fault: the terminal falls back to its own clipboard on a timeout too, when
\* an agent may still answer.
DecideOnTimeout(p) ==
  /\ PasteAt(p, "told")
  /\ ctrlV' = [ctrlV EXCEPT ![p].pc =
                 IF ctrlV[p].told \in {"agent_not_connected", "timeout"}
                 THEN "direct" ELSE "done"]
  /\ UNCHANGED <<view, active, clipAgent, clipPending, outcome, pasted>>

\* classify_clipboard_result: only the absence of agents leads to the TUI's
\* own clipboard.
Decide(p) ==
  /\ PasteAt(p, "told")
  /\ ctrlV' = [ctrlV EXCEPT ![p].pc =
                 IF ctrlV[p].told = "agent_not_connected" THEN "direct"
                                                          ELSE "done"]
  /\ UNCHANGED <<view, active, clipAgent, clipPending, outcome, pasted>>

\* spawn_arboard_paste_direct: no image, or an upload without request id,
\* which fails when the pane is gone.
PasteDirect(p) ==
  /\ PasteAt(p, "direct")
  /\ \/ /\ ctrlV[p].sess \in active
        /\ Types(p, "tui", ctrlV[p].sess)
        /\ ctrlV' = [ctrlV EXCEPT ![p].pc = "done", ![p].told = "uploaded"]
     \/ /\ ctrlV' = [ctrlV EXCEPT ![p].pc = "done", ![p].told = "failed"]
        /\ UNCHANGED pasted
  /\ UNCHANGED <<view, active, clipAgent, clipPending, outcome>>

-----------------------------------------------------------------------------
(* POST /api/clipboard/request                                             *)

\* Nobody subscribed: refused at once; otherwise the oneshot is registered.
RequestInserts(p) ==
  /\ PasteAt(p, "asked")
  /\ IF Connected = {}
     THEN Tell(p, "agent_not_connected") /\ UNCHANGED clipPending
     ELSE /\ ctrlV' = [ctrlV EXCEPT ![p].pc = "send"]
          /\ clipPending' = clipPending \cup {p}
  /\ UNCHANGED <<view, active, clipAgent, outcome, pasted>>

\* The broadcast; the last agent may have gone in between.  A slow agent's
\* oldest frame is overwritten.
RequestSends(p) ==
  /\ PasteAt(p, "send")
  /\ IF Connected = {}
     THEN /\ clipPending' = clipPending \ {p}
          /\ Tell(p, "agent_not_connected")
          /\ UNCHANGED clipAgent
     ELSE /\ ctrlV' = [ctrlV EXCEPT ![p].pc = "waiting"]
          /\ clipAgent' =
               [a \in ClipAgents |->
                  IF a \notin Connected THEN clipAgent[a]
                  ELSE LET old == clipAgent[a].frames
                           kept == IF Len(old) < ClipRoom THEN old
                                                          ELSE Tail(old)
                       IN [clipAgent[a] EXCEPT !.frames = Append(kept, p)]]
          /\ UNCHANGED clipPending
  /\ UNCHANGED <<view, active, outcome, pasted>>

RequestAnswers(p) ==
  /\ PasteAt(p, "waiting") /\ outcome[p] # ""
  /\ Tell(p, outcome[p])
  /\ UNCHANGED <<view, active, clipAgent, clipPending, outcome, pasted>>

\* The entry is removed before the answer.
RequestTimesOut(p) ==
  /\ PasteAt(p, "waiting") /\ outcome[p] = ""
  /\ clipPending' = clipPending \ {p}
  /\ Tell(p, "timeout")
  /\ UNCHANGED <<view, active, clipAgent, outcome, pasted>>

\* The TUI's connection breaks: the handler is dropped where it waits.
RequestDropped(p) ==
  /\ PasteAt(p, "waiting")
  /\ ctrlV' = [ctrlV EXCEPT ![p].pc = "done", ![p].told = "dropped"]
  /\ UNCHANGED <<view, active, clipAgent, clipPending, outcome, pasted>>

-----------------------------------------------------------------------------
(* The agents                                                              *)

AgentConnects(a) ==
  /\ ~clipAgent[a].on
  /\ clipAgent' = [clipAgent EXCEPT ![a].on = TRUE]
  /\ UNCHANGED <<view, active, ctrlV, clipPending, outcome, pasted>>

\* Frames not yet forwarded are lost; an upload under way is not.
AgentDisconnects(a) ==
  /\ clipAgent[a].on
  /\ clipAgent' = [clipAgent EXCEPT ![a].on = FALSE, ![a].frames = <<>>]
  /\ UNCHANGED <<view, active, ctrlV, clipPending, outcome, pasted>>

AgentTakes(a) ==
  /\ clipAgent[a].frames # <<>> /\ clipAgent[a].job = NoPaste
  /\ clipAgent' = [clipAgent EXCEPT ![a].job = Head(clipAgent[a].frames),
                                    ![a].frames = Tail(@), ![a].step = "read"]
  /\ UNCHANGED <<view, active, ctrlV, clipPending, outcome, pasted>>

\* The no_image frame; without its socket the agent has no way to say it.
AgentFindsNone(a) ==
  /\ clipAgent[a].step = "read"
  /\ clipAgent' = [clipAgent EXCEPT ![a].job = NoPaste, ![a].step = "idle"]
  /\ IF clipAgent[a].on THEN CompleteRequest(clipAgent[a].job, "no_image")
                        ELSE UNCHANGED <<clipPending, outcome>>
  /\ UNCHANGED <<view, active, ctrlV, pasted>>

\* upload: with both leases, the file is written and its path typed; a pane
\* that is gone, or a failed write, ends the upload with an error.
Upload(a) ==
  /\ clipAgent[a].step = "read"
  /\ LET p == clipAgent[a].job
         s == ctrlV[p].sess
     IN \/ /\ s \in active
           /\ Types(p, a, s)
           /\ clipAgent' = [clipAgent EXCEPT ![a].step = "typed"]
        \/ /\ clipAgent' = [clipAgent EXCEPT ![a].job = NoPaste,
                                             ![a].step = "idle"]
           /\ UNCHANGED pasted
  /\ UNCHANGED <<view, active, ctrlV, clipPending, outcome>>

\* X-Clipboard-Request-Id wakes the request, if it is still there.
UploadReports(a) ==
  /\ clipAgent[a].step = "typed"
  /\ CompleteRequest(clipAgent[a].job, "uploaded")
  /\ clipAgent' = [clipAgent EXCEPT ![a].job = NoPaste, ![a].step = "idle"]
  /\ UNCHANGED <<view, active, ctrlV, pasted>>

AgentSteps(a) ==
  \/ AgentConnects(a) \/ AgentDisconnects(a) \/ AgentTakes(a)
  \/ AgentFindsNone(a) \/ Upload(a) \/ UploadReports(a)

RequestSteps(p) ==
  \/ RequestInserts(p) \/ RequestSends(p) \/ RequestAnswers(p)
  \/ RequestTimesOut(p) \/ RequestDropped(p)

ClipNext ==
  \/ ViewChanges \/ PasteText
  \/ \E p \in Pastes:
       PressCtrlV(p) \/ Decide(p) \/ PasteDirect(p) \/ RequestSteps(p)
  \/ \E a \in ClipAgents: AgentSteps(a)

ClipSpec == ClipInit /\ [][ClipNext]_clipVars

-----------------------------------------------------------------------------
(* Properties                                                              *)

\* The variables stay within their types.
ClipTypeOK ==
  /\ active \subseteq ClipSessions /\ clipPending \subseteq Pastes
  /\ \A a \in ClipAgents:
       /\ clipAgent[a].frames \in Seq(Pastes)
       /\ clipAgent[a].job \in Pastes \cup {NoPaste}
  /\ \A p \in Pastes:
       ctrlV[p].pc \in {"idle", "asked", "send", "waiting", "told", "direct",
                        "done"}

\* The TUI reads its own clipboard only when no agent was given the request:
\* one Ctrl-V is never answered by an agent and by the fallback, however
\* agents come and go between receiver_count, send and the timeout.
FallbackIsExclusive ==
  \A p \in Pastes:
    (PasteAt(p, "direct") \/ [key |-> p, by |-> "tui", sess |-> ctrlV[p].sess]
                               \in pasted)
      => /\ \A a \in ClipAgents: clipAgent[a].job # p
         /\ \A t \in pasted: t.key = p => t.by = "tui"

\* Whatever order timeout, no_image and uploads come in, an entry of
\* clipboard_pending belongs to a handler that waits for it (or to one whose
\* client hung up), and a request told "uploaded" has its path in the pane.
PendingIsAwaited ==
  /\ \A p \in clipPending:
       PasteAt(p, "send") \/ PasteAt(p, "waiting") \/ ctrlV[p].told = "dropped"
  /\ \A p \in Pastes:
       ctrlV[p].told = "uploaded"
         => \E t \in pasted: t.key = p /\ t.sess = ctrlV[p].sess

-----------------------------------------------------------------------------
(* Statements the code does not keep: TLC refutes each of them, see the    *)
(* README, "What does not hold".                                           *)

\* Ctrl-V pastes "into the focused agent pane" (app.rs:4791).
PasteReachesFocus ==
  \A t \in pasted: t.key \in Pastes => t.sess = ctrlV[t.key].focused
=============================================================================
