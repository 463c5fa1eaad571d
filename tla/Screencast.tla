------------------------------ MODULE Screencast ------------------------------
(***************************************************************************)
(* The two screencast bridges between a pane's WebSocket and a Chromium's  *)
(* CDP socket.                                                             *)
(*                                                                         *)
(* For the local browser (routes/cdp_screencast.rs) the socket's task and  *)
(* the CDP client are joined by two bounded channels: frames wait for room *)
(* in theirs, input is dropped when its own is full.  For a host's browser *)
(* (host_browser.rs) two pumps and a writer run beside each other and the  *)
(* bridge returns when one pump ends.  Chromium stops sending after        *)
(* AckWindow frames without an acknowledgement.                            *)
(***************************************************************************)
EXTENDS Integers, Sequences

CONSTANTS
  FrameDepth,   \* FRAME_CHANNEL_DEPTH
  InputDepth,   \* INPUT_CHANNEL_DEPTH
  AckWindow,    \* frames Chromium sends before it wants an acknowledgement
  Spots,        \* places the pointer can be
  MaxMoves      \* bound: pointer events of the pane

ASSUME CastAssumption ==
  /\ {FrameDepth, InputDepth, AckWindow} \subseteq Nat \ {0}
  /\ MaxMoves \in Nat

VARIABLES
  kind,      \* "local" or "host"
  castPane,  \* the pane: its socket, its pointer, how often it moved
  run,       \* the socket's task: "loop", "sending", "await", "ended"
  pump,      \* the CDP reader: "connect", "select", "sending", "ended"
  inPump,    \* the host bridge's input pump
  frameQ,    \* frames in the channel
  inputQ,    \* commands in the channel
  cdp,       \* Chromium: alive, frames not read yet, frames not acknowledged
  pointer,   \* PointerState
  clicked    \* the last click: where the user saw it, where it landed

castVars ==
  <<kind, castPane, run, pump, inPump, frameQ, inputQ, cdp, pointer, clicked>>

Origin == "origin"
NoClick == [want |-> Origin, got |-> Origin]

CastInit ==
  /\ kind \in {"local", "host"}
  /\ castPane = [open |-> TRUE, at |-> Origin, moves |-> 0]
  /\ run = "loop" /\ inPump = "loop"
  /\ pump = IF kind = "local" THEN "connect" ELSE "select"
  /\ frameQ = 0 /\ inputQ = <<>>
  /\ cdp = [open |-> TRUE, inbox |-> 0, unacked |-> 0]
  /\ pointer = Origin /\ clicked = NoClick

-----------------------------------------------------------------------------
(* The pane and the browser                                                *)

\* Chromium paints; it stops once its window is used up.
ChromeEmits ==
  /\ cdp.open /\ pump # "connect" /\ cdp.unacked < AckWindow
  /\ cdp' = [cdp EXCEPT !.inbox = @ + 1, !.unacked = @ + 1]
  /\ UNCHANGED <<kind, castPane, run, pump, inPump, frameQ, inputQ, pointer,
                 clicked>>

ChromeCloses ==
  /\ cdp.open
  /\ cdp' = [cdp EXCEPT !.open = FALSE]
  /\ UNCHANGED <<kind, castPane, run, pump, inPump, frameQ, inputQ, pointer,
                 clicked>>

PaneCloses ==
  /\ castPane.open
  /\ castPane' = [castPane EXCEPT !.open = FALSE]
  /\ UNCHANGED <<kind, run, pump, inPump, frameQ, inputQ, cdp, pointer,
                 clicked>>

\* A message of the pane: parse_input_message and try_send, or for the host
\* bridge input_to_cdp_calls, whose messages carry their own coordinates.
Reads == castPane.open /\ castPane.moves < MaxMoves
         /\ IF kind = "local" THEN run = "loop" ELSE inPump = "loop"
TrySend(cmd) ==
  inputQ' = IF Len(inputQ) < InputDepth THEN Append(inputQ, cmd) ELSE inputQ

PaneMoves ==
  /\ Reads
  /\ \E p \in Spots:
       /\ castPane' = [castPane EXCEPT !.at = p, !.moves = @ + 1]
       /\ IF kind = "local" THEN TrySend([move |-> TRUE, at |-> p])
                            ELSE UNCHANGED inputQ
  /\ UNCHANGED <<kind, run, pump, inPump, frameQ, cdp, pointer, clicked>>

PaneClicks ==
  /\ Reads
  /\ castPane' = [castPane EXCEPT !.moves = @ + 1]
  /\ IF kind = "local"
     THEN TrySend([move |-> FALSE, at |-> castPane.at]) /\ UNCHANGED clicked
     ELSE /\ clicked' = [want |-> castPane.at, got |-> castPane.at]
          /\ UNCHANGED inputQ
  /\ UNCHANGED <<kind, run, pump, inPump, frameQ, cdp, pointer>>

-----------------------------------------------------------------------------
(* run_screencast_bridge of the local browser                              *)

Local(pc) == kind = "local" /\ pump = pc

BridgeConnects ==
  /\ Local("connect")
  /\ pump' \in IF cdp.open THEN {"select", "ended"} ELSE {"ended"}
  /\ UNCHANGED <<kind, castPane, run, inPump, frameQ, inputQ, cdp, pointer,
                 clicked>>

BridgeReadsFrame ==
  /\ Local("select") /\ cdp.inbox > 0
  /\ pump' = "sending"
  /\ cdp' = [cdp EXCEPT !.inbox = @ - 1]
  /\ UNCHANGED <<kind, castPane, run, inPump, frameQ, inputQ, pointer,
                 clicked>>

\* handle_cdp_message: the frame waits for room in the channel, then Chromium
\* is acknowledged; a failing write ends the bridge.
BridgeSendsFrame ==
  /\ Local("sending") /\ frameQ < FrameDepth
  /\ frameQ' = frameQ + 1
  /\ pump' = IF cdp.open THEN "select" ELSE "ended"
  /\ cdp' = [cdp EXCEPT !.unacked = @ - 1]
  /\ UNCHANGED <<kind, castPane, run, inPump, inputQ, pointer, clicked>>

\* input_command_to_cdp: a move sets the pointer, a click lands on it.
BridgeTakesInput ==
  /\ Local("select") /\ inputQ # <<>>
  /\ LET cmd == Head(inputQ)
     IN IF cmd.move THEN pointer' = cmd.at /\ UNCHANGED clicked
        ELSE clicked' = [want |-> cmd.at, got |-> pointer] /\ UNCHANGED pointer
  /\ inputQ' = Tail(inputQ)
  /\ UNCHANGED <<kind, castPane, run, pump, inPump, frameQ, cdp>>

\* input_tx was dropped and the channel is drained.
BridgeSeesNoPane ==
  /\ Local("select") /\ inputQ = <<>> /\ run \in {"await", "ended"}
  /\ pump' = "ended"
  /\ UNCHANGED <<kind, castPane, run, inPump, frameQ, inputQ, cdp, pointer,
                 clicked>>

BridgeSeesClose ==
  /\ Local("select") /\ ~cdp.open /\ cdp.inbox = 0
  /\ pump' = "ended"
  /\ UNCHANGED <<kind, castPane, run, inPump, frameQ, inputQ, cdp, pointer,
                 clicked>>

-----------------------------------------------------------------------------
(* run, the task of the pane's socket                                      *)

RunTakesFrame ==
  /\ kind = "local" /\ run = "loop" /\ frameQ > 0
  /\ frameQ' = frameQ - 1 /\ run' = "sending"
  /\ UNCHANGED <<kind, castPane, pump, inPump, inputQ, cdp, pointer, clicked>>

\* The socket takes the frame, or breaks.
RunForwards ==
  /\ kind = "local" /\ run = "sending"
  /\ run' = IF castPane.open THEN "loop" ELSE "await"
  /\ UNCHANGED <<kind, castPane, pump, inPump, frameQ, inputQ, cdp, pointer,
                 clicked>>

\* Fault: only the browser's end makes the bridge leave its loop.
RunLeavesWithBrowser ==
  /\ kind = "local" /\ run = "loop"
  /\ frameQ = 0 /\ pump = "ended"
  /\ run' = "await"
  /\ UNCHANGED <<kind, castPane, pump, inPump, frameQ, inputQ, cdp, pointer,
                 clicked>>

\* The pane is gone, or the frame channel is empty and closed; either way
\* input_tx is dropped and the bridge awaited.
RunLeaves ==
  /\ kind = "local" /\ run = "loop"
  /\ ~castPane.open \/ (frameQ = 0 /\ pump = "ended")
  /\ run' = "await"
  /\ UNCHANGED <<kind, castPane, pump, inPump, frameQ, inputQ, cdp, pointer,
                 clicked>>

RunEnds ==
  /\ kind = "local" /\ run = "await" /\ pump = "ended"
  /\ run' = "ended"
  /\ UNCHANGED <<kind, castPane, pump, inPump, frameQ, inputQ, cdp, pointer,
                 clicked>>

-----------------------------------------------------------------------------
(* run_screencast_bridge of a host's browser                               *)

HostReadsFrame ==
  /\ kind = "host" /\ pump = "select" /\ cdp.inbox > 0
  /\ pump' = "sending"
  /\ cdp' = [cdp EXCEPT !.inbox = @ - 1]
  /\ UNCHANGED <<kind, castPane, run, inPump, frameQ, inputQ, pointer,
                 clicked>>

\* The frame goes straight to the desktop; the writer acknowledges it as long
\* as it has not been aborted.
HostSendsFrame ==
  /\ kind = "host" /\ pump = "sending"
  /\ pump' = IF castPane.open THEN "select" ELSE "ended"
  /\ cdp' = IF castPane.open /\ run = "loop"
            THEN [cdp EXCEPT !.unacked = @ - 1] ELSE cdp
  /\ UNCHANGED <<kind, castPane, run, inPump, frameQ, inputQ, pointer,
                 clicked>>

HostPumpEnds ==
  /\ kind = "host"
  /\ \/ /\ pump = "select" /\ ~cdp.open /\ cdp.inbox = 0
        /\ pump' = "ended" /\ UNCHANGED inPump
     \/ /\ inPump = "loop" /\ ~castPane.open
        /\ inPump' = "ended" /\ UNCHANGED pump
  /\ UNCHANGED <<kind, castPane, run, frameQ, inputQ, cdp, pointer, clicked>>

\* One pump has ended: the writer is aborted, the other pump is detached.
HostReturns ==
  /\ kind = "host" /\ run = "loop" /\ (pump = "ended" \/ inPump = "ended")
  /\ run' = "ended"
  /\ UNCHANGED <<kind, castPane, pump, inPump, frameQ, inputQ, cdp, pointer,
                 clicked>>

BridgeSteps ==
  \/ BridgeConnects \/ BridgeReadsFrame \/ BridgeSendsFrame
  \/ BridgeTakesInput \/ BridgeSeesClose
RunSteps == RunTakesFrame \/ RunLeaves \/ RunEnds
HostSteps == HostReadsFrame \/ HostPumpEnds \/ HostReturns

CastNext ==
  \/ ChromeEmits \/ ChromeCloses \/ PaneCloses \/ PaneMoves \/ PaneClicks
  \/ BridgeSteps \/ BridgeSeesNoPane \/ RunSteps \/ RunForwards
  \/ HostSteps \/ HostSendsFrame

CastSpec == CastInit /\ [][CastNext]_castVars

-----------------------------------------------------------------------------
(* Properties                                                              *)

\* The variables stay within their types.
CastTypeOK ==
  /\ run \in {"loop", "sending", "await", "ended"}
  /\ pump \in {"connect", "select", "sending", "ended"}
  /\ frameQ \in 0..FrameDepth /\ Len(inputQ) <= InputDepth
  /\ cdp.inbox <= cdp.unacked /\ cdp.unacked <= AckWindow

\* The reader has a frame for a channel that is full and that nobody reads.
Wedged == kind = "local" /\ run = "await" /\ pump = "sending"
          /\ frameQ = FrameDepth

\* A pane that leaves takes its bridge with it, unless the wedge below has
\* closed: no other order of frames, input, acks and closes keeps it alive.
LeavingEndsBridge == ~castPane.open ~> (run = "ended" \/ Wedged)

-----------------------------------------------------------------------------
(* Statements the code does not keep: TLC refutes each of them, see the    *)
(* README, "What does not hold".                                           *)

\* "we remember the most recent move so a down/up lands where the cursor is"
\* (cdp_screencast.rs:247).
ClickLandsAtCursor == clicked.got = clicked.want

\* The CDP client "ends ... when the browser closes, when we drop `input_tx`
\* (pane disconnected), or on error" (routes/cdp_screencast.rs:111).
BridgeAlwaysEnds == ~castPane.open ~> (run = "ended")
=============================================================================
