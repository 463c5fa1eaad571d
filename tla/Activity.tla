----------------------------- MODULE Activity -----------------------------
(***************************************************************************)
(* The activity dot of a session: the watch task classifies what the pane  *)
(* shows and emits an event when the class changes                         *)
(* (agentum-watchdog), the event is persisted and broadcast, the events    *)
(* socket replays the last one of the session and then follows the bus     *)
(* (routes/events.rs), and the terminal UI turns it into a dot (apply_event*)
(* and the session row in agentum-tui).                                    *)
(***************************************************************************)
EXTENDS Integers, Sequences

CONSTANTS BusRoom,      \* events the bus keeps for a slow socket
          MaxShows,     \* bound: changes of the pane
          MaxDials,     \* bound: connections of the socket
          MaxTyped      \* bound: keys typed into the pane

ASSUME ActivityAssumption ==
    /\ BusRoom \in Nat \ {0}
    /\ MaxShows \in Nat /\ MaxDials \in Nat /\ MaxTyped \in Nat

Classes == {"working", "idle", "awaiting"}

VARIABLES
    signed,     \* the agent prints a busy signature; else quiet means idle
    shows,      \* what the agent in the pane does
    quiet,      \* the pane has not changed for IDLE_AFTER_QUIET
    life,       \* status of the session row
    watch,      \* activity in the watch task, "none" when there is no task
    lastEvent,  \* latest persisted agent event of the session
    bus,        \* events the socket has subscribed to and not sent
    sock,       \* the events socket: "down", "replay" or "live"
    dot,        \* the activity set the session is in at the UI
    shown,      \* counts changes of the pane
    dials,      \* counts connections
    typed,      \* counts keys typed
    guessed     \* history: the dot is the UI's own guess since a key press

activityVars == <<signed, shows, quiet, life, watch, lastEvent, bus, sock, dot,
                  shown, dials, typed, guessed>>

AgentEvents ==
    {[kind |-> "finished", state |-> "idle"],
     [kind |-> "awaiting", state |-> "awaiting"],
     [kind |-> "working", state |-> "working"],
     [kind |-> "resolved", state |-> "working"],
     [kind |-> "resolved", state |-> "idle"]}
EndEvents == {[kind |-> "stopped", state |-> "none"],
              [kind |-> "crashed", state |-> "none"]}
NoEvent == [kind |-> "none", state |-> "none"]

\* The variables stay within their types.
ActivityTypeOK ==
    /\ signed \in BOOLEAN /\ quiet \in BOOLEAN
    /\ shows \in Classes
    /\ life \in {"running", "stopped", "crashed"}
    /\ watch \in Classes \cup {"none", "unknown"}
    /\ lastEvent \in AgentEvents \cup {NoEvent}
    /\ bus \in Seq(AgentEvents \cup EndEvents) /\ Len(bus) <= BusRoom
    /\ sock \in {"down", "replay", "live"}
    /\ dot \in Classes \cup {"none"}
    /\ shown \in 0 .. MaxShows /\ dials \in 0 .. MaxDials
    /\ typed \in 0 .. MaxTyped
    /\ guessed \in BOOLEAN

ActivityInit ==
    /\ signed \in BOOLEAN
    /\ shows \in Classes
    /\ quiet = FALSE
    /\ life = "running"
    /\ watch = "none"
    /\ lastEvent = NoEvent
    /\ bus = <<>>
    /\ sock = "down"
    /\ dot = "none"
    /\ shown = 0 /\ dials = 0 /\ typed = 0
    /\ guessed = FALSE

---------------------------------------------------------------------------
(* The pane.                                                               *)

PaneShows ==
    /\ life = "running" /\ shown < MaxShows
    /\ shown' = shown + 1
    /\ shows' \in Classes \ {shows}
    /\ quiet' = FALSE
    /\ UNCHANGED <<signed, life, watch, lastEvent, bus, sock, dot, dials, typed,
                   guessed>>

(***************************************************************************)
(* A pane of an agent that is not working stays the same for three         *)
(* seconds.                                                                *)
(***************************************************************************)
PaneQuiet ==
    /\ shows # "working" /\ ~quiet
    /\ quiet' = TRUE
    /\ UNCHANGED <<signed, shows, life, watch, lastEvent, bus, sock, dot, shown,
                   dials, typed, guessed>>

---------------------------------------------------------------------------
(* The watch task.                                                         *)

(***************************************************************************)
(* emit: the event is persisted and sent to every subscriber; a subscriber *)
(* that lags loses the oldest.                                             *)
(***************************************************************************)
Broadcast(ev) ==
    bus' = IF sock = "down" THEN bus
           ELSE Append(IF Len(bus) = BusRoom THEN Tail(bus) ELSE bus, ev)

Emit(ev) ==
    /\ Broadcast(ev)
    /\ lastEvent' = IF ev \in AgentEvents THEN ev ELSE lastEvent

(***************************************************************************)
(* classify_activity: a prompt first, then the busy signature; an agent    *)
(* without one is idle once its pane is quiet.                             *)
(***************************************************************************)
Classify ==
    IF shows = "awaiting" THEN "awaiting"
    ELSE IF signed THEN shows
    ELSE IF quiet THEN "idle" ELSE "working"

(***************************************************************************)
(* The event a change of activity emits.                                   *)
(***************************************************************************)
Transition(prev, next) ==
    CASE prev = "awaiting" -> [kind |-> "resolved", state |-> next]
      [] prev # "awaiting" /\ next = "awaiting" ->
            [kind |-> "awaiting", state |-> "awaiting"]
      [] prev \in {"working", "unknown"} /\ next = "idle" ->
            [kind |-> "finished", state |-> "idle"]
      [] OTHER -> [kind |-> "working", state |-> "working"]

WatchStarts ==
    /\ life = "running" /\ watch = "none"
    /\ watch' = "unknown"
    /\ UNCHANGED <<signed, shows, quiet, life, lastEvent, bus, sock, dot, shown,
                   dials, typed, guessed>>

WatchSamples ==
    /\ life = "running" /\ watch \notin {"none", Classify}
    /\ Emit(Transition(watch, Classify))
    /\ watch' = Classify
    /\ UNCHANGED <<signed, shows, quiet, life, sock, dot, shown, dials, typed,
                   guessed>>

(***************************************************************************)
(* The session ends: a stop request, or a crash the watch task commits.    *)
(***************************************************************************)
SessionEnds(how) ==
    /\ life = "running"
    /\ how = "crashed" => watch # "none"
    /\ life' = how
    /\ watch' = "none"
    /\ Emit([kind |-> how, state |-> "none"])
    /\ UNCHANGED <<signed, shows, quiet, sock, dot, shown, dials, typed,
                   guessed>>

SessionStarts ==
    /\ life # "running" /\ shown < MaxShows
    /\ life' = "running"
    /\ shown' = shown + 1
    /\ shows' \in Classes
    /\ quiet' = FALSE
    /\ UNCHANGED <<signed, watch, lastEvent, bus, sock, dot, dials, typed,
                   guessed>>

---------------------------------------------------------------------------
(* The events socket and the UI.                                           *)

(***************************************************************************)
(* apply_event for the dot.                                                *)
(***************************************************************************)
ApplyEvent(d, ev) == IF ev = NoEvent THEN d ELSE ev.state

(***************************************************************************)
(* The socket subscribes to the bus before it asks for the snapshot.       *)
(***************************************************************************)
SocketDials ==
    /\ sock = "down" /\ dials < MaxDials
    /\ dials' = dials + 1
    /\ sock' = "replay"
    /\ bus' = <<>>
    /\ UNCHANGED <<signed, shows, quiet, life, watch, lastEvent, dot, shown,
                   typed, guessed>>

SocketReplays ==
    /\ sock = "replay"
    /\ sock' = "live"
    /\ dot' = ApplyEvent(dot, lastEvent)
    /\ guessed' = (guessed /\ lastEvent = NoEvent)
    /\ UNCHANGED <<signed, shows, quiet, life, watch, lastEvent, bus, shown,
                   dials, typed>>

SocketDelivers ==
    /\ sock = "live" /\ bus # <<>>
    /\ bus' = Tail(bus)
    /\ dot' = ApplyEvent(dot, Head(bus))
    /\ guessed' = FALSE
    /\ UNCHANGED <<signed, shows, quiet, life, watch, lastEvent, sock, shown,
                   dials, typed>>

SocketDrops ==
    /\ sock # "down"
    /\ sock' = "down"
    /\ bus' = <<>>
    /\ UNCHANGED <<signed, shows, quiet, life, watch, lastEvent, dot, shown,
                   dials, typed, guessed>>

(***************************************************************************)
(* A key typed into the pane turns the dot green at once, and its echo     *)
(* changes the pane.                                                       *)
(***************************************************************************)
KeyTyped ==
    /\ life = "running" /\ typed < MaxTyped
    /\ typed' = typed + 1
    /\ dot' = "working"
    /\ guessed' = TRUE
    /\ quiet' = FALSE
    /\ UNCHANGED <<signed, shows, life, watch, lastEvent, bus, sock, shown,
                   dials>>

ActivityNext ==
    \/ PaneShows \/ PaneQuiet
    \/ WatchStarts \/ WatchSamples
    \/ \E how \in {"stopped", "crashed"} : SessionEnds(how)
    \/ SessionStarts
    \/ SocketDials \/ SocketReplays \/ SocketDelivers \/ SocketDrops
    \/ KeyTyped

ActivitySpec == ActivityInit /\ [][ActivityNext]_activityVars

---------------------------------------------------------------------------
(***************************************************************************)
(* The row of the session, by the priority the UI draws it with.           *)
(***************************************************************************)
RowDot ==
    IF life = "crashed" THEN "crashed"
    ELSE IF dot \in {"awaiting", "idle"} THEN dot
    ELSE IF dot = "working" /\ life = "running" THEN "working"
    ELSE IF life = "running" THEN "unknown"
    ELSE life

(***************************************************************************)
(* Once the socket has caught up, the dot is the activity of the watch     *)
(* task, in whatever order subscription, snapshot and events fell and      *)
(* however many of them a bus that ran full dropped; only a key press      *)
(* since (guessed) excuses another one.                                    *)
(***************************************************************************)
DotIsCurrent ==
    /\ sock = "live" /\ bus = <<>> /\ ~guessed
    /\ watch \in Classes
    => dot = watch

----------------------------------------------------------------------------
(* Statements the code does not keep: TLC refutes each of them, see the    *)
(* README, "What does not hold".                                           *)

(***************************************************************************)
(* "A dead pane should never look like it's just waiting": the row of a    *)
(* session that does not run shows neither a prompt nor an idle agent once *)
(* the UI has caught up.                                                   *)
(***************************************************************************)
DeadNeverLooksWaiting ==
    sock = "live" /\ bus = <<>> /\ life # "running"
        => RowDot \notin {"awaiting", "idle"}
============================================================================
