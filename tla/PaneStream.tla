----------------------------- MODULE PaneStream -----------------------------
(***************************************************************************)
(* The live stream of a local pane: GET /api/sessions/{id}/stream.         *)
(*                                                                         *)
(* tmux pipes the pane into a log file; a connection replays what its      *)
(* client needs (the missed bytes, a fresh snapshot, or the end of the     *)
(* log) and then tails the log through a bounded channel.  All connections *)
(* of a session share one in-memory checkpoint, from which a reconnecting  *)
(* client that kept its parser is brought up to date.                      *)
(*                                                                         *)
(* A byte is its position in the log; a frame is the interval of positions *)
(* it carries.  A client's parser is the position it has reached, whether  *)
(* bytes were repeated since its last reset, and whether that reset was a  *)
(* refresh in mid-stream.                                                  *)
(***************************************************************************)
EXTENDS Integers, Sequences, FiniteSets

CONSTANTS
  Clients,        \* terminals that watch the session
  Conns,          \* websocket connections
  Sizes,          \* pane sizes a client may ask for (positive numbers)
  MaxLog,         \* bound: bytes the pane writes
  MaxOpens,       \* bound: connections ever made
  MaxKeys,        \* bound: keystrokes typed over all connections
  TailSlots,      \* capacity of the channel between tail task and socket loop
  BackfillBytes   \* how much of the log is sent when capture-pane has nothing

ASSUME StreamAssumption ==
  /\ Sizes \subseteq Nat \ {0}
  /\ MaxLog \in Nat /\ MaxOpens \in Nat /\ MaxKeys \in Nat /\ BackfillBytes \in Nat
  /\ TailSlots \in Nat \ {0}

VARIABLES
  log,         \* bytes in the pane log
  paneSize,    \* size of the tmux window
  typed,       \* keystrokes sent so far, numbered in the order of sending
  typedIn,     \* keystrokes the pane has received
  checkpoint,  \* the session's entry of stream_positions, or NoCheckpoint
  conn,        \* the state of each stream_session task
  parser,      \* what each client's terminal has been fed
  listening,   \* the connection each client reads from
  opens        \* connections made so far

streamVars ==
  <<log, paneSize, typed, typedIn, checkpoint, conn, parser, listening,
    opens>>

NoSize == 0
NoCheckpoint == [pos |-> -1, size |-> NoSize]
NoConn == "none"

Modes == {"none", "delta", "snapshot", "backfill", "refreshed"}
Phases == {"off", "wait", "replay", "delta", "captured", "pinned",
           "early", "live"}

ClosedConn ==
  [phase |-> "off", resume |-> FALSE, size |-> NoSize,
   early |-> <<>>, mode |-> "none", cap |-> 0, start |-> 0,
   cursor |-> 0, queue |-> <<>>, forwarded |-> 0, out |-> <<>>]

FreshParser == [to |-> 0, replayed |-> FALSE, refreshed |-> FALSE]

StreamInit ==
  /\ log = 0 /\ paneSize \in Sizes
  /\ typed = 0 /\ typedIn = <<>>
  /\ checkpoint = NoCheckpoint
  /\ conn = [c \in Conns |-> ClosedConn]
  /\ parser = [k \in Clients |-> FreshParser]
  /\ listening = [k \in Clients |-> NoConn]
  /\ opens = 0

-----------------------------------------------------------------------------
(* Helpers                                                                 *)

\* The client plays a frame of log bytes on the parser it has.
Play(p, f, t) ==
  [p EXCEPT !.to = t, !.replayed = @ \/ f < p.to]

\* ESC c followed by the grid as it was when the log held n bytes.
Repaint(n, refresh) == [to |-> n, replayed |-> FALSE, refreshed |-> refresh]

\* A frame reaches the parser of the client that still reads this connection.
Receive(c, p) ==
  parser' = [k \in Clients |-> IF listening[k] = c THEN p[k] ELSE parser[k]]

SaveCheckpoint(pos, size) == checkpoint' = [pos |-> pos, size |-> size]

InPhase(c, ph) == conn[c].phase = ph

\* Length of the frame made of the first n queued chunks.
QueuedLen(q, n) == IF n = 0 THEN 0 ELSE q[n].to - q[1].from

\* Resume needs the request, a checkpoint, the size it was taken at, and a
\* log that has not shrunk below it.
CanResume(c) ==
  /\ conn[c].resume
  /\ checkpoint # NoCheckpoint
  /\ conn[c].size \in {NoSize, checkpoint.size}
  /\ log >= checkpoint.pos

-----------------------------------------------------------------------------
(* Connecting                                                              *)

PaneWrites ==
  /\ log < MaxLog
  /\ log' = log + 1
  /\ UNCHANGED <<paneSize, typed, typedIn, checkpoint, conn, parser,
                 listening, opens>>

\* A client opens a stream and abandons the one it had; it asks to resume
\* only when it kept a parser.
Open(k, c, resume, redraw) ==
  /\ opens < MaxOpens /\ opens' = opens + 1
  /\ InPhase(c, "off")
  /\ \A other \in Clients \ {k}: listening[other] # c
  /\ resume => listening[k] # NoConn
  /\ conn' = [conn EXCEPT ![c] =
                [ClosedConn EXCEPT !.phase = "wait",
                                   !.resume = resume /\ ~redraw]]
  /\ listening' = [listening EXCEPT ![k] = c]
  /\ UNCHANGED <<log, paneSize, typed, typedIn, checkpoint, parser>>

\* The first resize frame ends the wait; the pane takes that size and the
\* repaint settles (a redraw nudge shrinks and restores it).
FirstResize(c, s) ==
  /\ InPhase(c, "wait")
  /\ paneSize' = s
  /\ conn' = [conn EXCEPT ![c].phase = "replay", ![c].size = s]
  /\ UNCHANGED <<log, typed, typedIn, checkpoint, parser, listening, opens>>

\* Anything else that arrives meanwhile is kept for after the replay.
EarlyInput(c) ==
  /\ InPhase(c, "wait")
  /\ typed < MaxKeys
  /\ typed' = typed + 1
  /\ conn' = [conn EXCEPT ![c].early = Append(@, typed')]
  /\ UNCHANGED <<log, paneSize, typedIn, checkpoint, parser, listening, opens>>

ResizeTimeout(c) ==
  /\ InPhase(c, "wait")
  /\ conn' = [conn EXCEPT ![c].phase = "replay"]
  /\ UNCHANGED <<log, paneSize, typed, typedIn, checkpoint, parser, listening,
                 opens>>

\* The socket fails before the live loop: the task returns and saves nothing.
ReturnEarly(c) ==
  /\ conn[c].phase \in {"wait", "delta", "pinned"}
  /\ conn' = [conn EXCEPT ![c] = ClosedConn]
  /\ UNCHANGED <<log, paneSize, typed, typedIn, checkpoint, parser, listening,
                 opens>>

-----------------------------------------------------------------------------
(* Replay                                                                  *)

\* The bytes between the checkpoint and the end of the log, as of now.
SendDelta(c) ==
  /\ InPhase(c, "replay") /\ CanResume(c)
  /\ conn' = [conn EXCEPT ![c].phase = "delta", ![c].mode = "delta"]
  /\ IF log > checkpoint.pos
     THEN Receive(c, [k \in Clients |-> Play(parser[k], checkpoint.pos, log)])
     ELSE UNCHANGED parser
  /\ UNCHANGED <<log, paneSize, typed, typedIn, checkpoint, listening, opens>>

\* After the send the file is positioned at its end, wherever that is now.
SeekEnd(c) ==
  /\ InPhase(c, "delta")
  /\ conn' = [conn EXCEPT ![c].phase = "early", ![c].resume = FALSE,
                          ![c].start = log, ![c].cursor = log]
  /\ UNCHANGED <<log, paneSize, typed, typedIn, checkpoint, parser, listening,
                 opens>>

Capture(c) ==
  /\ InPhase(c, "replay") /\ ~CanResume(c)
  /\ conn' = [conn EXCEPT ![c].phase = "captured", ![c].resume = FALSE,
                          ![c].mode = "snapshot", ![c].cap = log]
  /\ UNCHANGED <<log, paneSize, typed, typedIn, checkpoint, parser, listening,
                 opens>>

\* The tail starts where the log ends after the capture.
PinTail(c) ==
  /\ InPhase(c, "captured")
  /\ conn' = [conn EXCEPT ![c].phase = "pinned", ![c].start = log,
                          ![c].cursor = log]
  /\ UNCHANGED <<log, paneSize, typed, typedIn, checkpoint, parser, listening,
                 opens>>

SendSnapshot(c) ==
  /\ InPhase(c, "pinned")
  /\ conn' = [conn EXCEPT ![c].phase = "early", ![c].cap = 0]
  /\ Receive(c, [k \in Clients |-> Repaint(conn[c].cap, FALSE)])
  /\ UNCHANGED <<log, paneSize, typed, typedIn, checkpoint, listening, opens>>

\* capture-pane failed or had nothing: the last bytes of the log, without a
\* parser reset.
Backfill(c) ==
  /\ InPhase(c, "replay") /\ ~CanResume(c)
  /\ LET first == IF log > BackfillBytes THEN log - BackfillBytes ELSE 0
     IN IF log > 0
        THEN Receive(c, [k \in Clients |-> Play(parser[k], first, log)])
        ELSE UNCHANGED parser
  /\ conn' = [conn EXCEPT ![c].phase = "early", ![c].resume = FALSE,
                          ![c].mode = "backfill", ![c].start = log, ![c].cursor = log]
  /\ UNCHANGED <<log, paneSize, typed, typedIn, checkpoint, listening, opens>>

\* The keystrokes of the waiting window are typed, and the loop begins.
GoLive(c) ==
  /\ InPhase(c, "early")
  /\ typedIn' = typedIn \o conn[c].early
  /\ conn' = [conn EXCEPT ![c].phase = "live", ![c].early = <<>>]
  /\ UNCHANGED <<log, paneSize, typed, checkpoint, parser, listening, opens>>

-----------------------------------------------------------------------------
(* The live loop                                                           *)

\* The tail task reads what there is and waits when the channel is full.
TailRead(c) ==
  /\ InPhase(c, "live")
  /\ conn[c].cursor < log /\ Len(conn[c].queue) < TailSlots
  /\ conn' = [conn EXCEPT
                ![c].queue = Append(@, [from |-> conn[c].cursor, to |-> log]),
                ![c].cursor = log]
  /\ UNCHANGED <<log, paneSize, typed, typedIn, checkpoint, parser, listening,
                 opens>>

\* Fault: coalescing keeps the newest chunk only.
ForwardNewest(c, n) ==
  /\ InPhase(c, "live")
  /\ n \in 1..Len(conn[c].queue)
  /\ LET q == conn[c].queue
         first == q[n].from
         len == q[n].to - first
     IN /\ conn' = [conn EXCEPT
                      ![c].queue = SubSeq(q, n + 1, Len(q)),
                      ![c].forwarded = @ + len,
                      ![c].out = @ \o [i \in 1..len |-> first + i - 1]]
        /\ Receive(c, [k \in Clients |-> Play(parser[k], first, first + len)])
        /\ SaveCheckpoint(conn[c].start + conn[c].forwarded + len, conn[c].size)
  /\ UNCHANGED <<log, paneSize, typed, typedIn, listening, opens>>

\* Queued chunks are coalesced into one frame, sent, counted and recorded.
Forward(c, n) ==
  /\ InPhase(c, "live")
  /\ n \in 1..Len(conn[c].queue)
  /\ LET q == conn[c].queue
         len == QueuedLen(q, n)
         first == q[1].from
     IN /\ conn' = [conn EXCEPT
                      ![c].queue = SubSeq(q, n + 1, Len(q)),
                      ![c].forwarded = @ + len,
                      ![c].out = @ \o [i \in 1..len |-> first + i - 1]]
        /\ Receive(c, [k \in Clients |-> Play(parser[k], first, first + len)])
        /\ SaveCheckpoint(conn[c].start + conn[c].forwarded + len, conn[c].size)
  /\ UNCHANGED <<log, paneSize, typed, typedIn, listening, opens>>

\* {"refresh":true}: a new snapshot; the tail is left where it is.
Refresh(c) ==
  /\ InPhase(c, "live")
  /\ Receive(c, [k \in Clients |-> Repaint(log, TRUE)])
  /\ conn' = [conn EXCEPT ![c].mode = "refreshed"]
  /\ UNCHANGED <<log, paneSize, typed, typedIn, checkpoint, listening, opens>>

Resize(c, s) ==
  /\ InPhase(c, "live")
  /\ conn' = [conn EXCEPT ![c].size = s]
  /\ SaveCheckpoint(conn[c].start + conn[c].forwarded, s)
  /\ paneSize' = s
  /\ UNCHANGED <<log, typed, typedIn, parser, listening, opens>>

LiveInput(c) ==
  /\ InPhase(c, "live")
  /\ typed < MaxKeys
  /\ typed' = typed + 1
  /\ typedIn' = Append(typedIn, typed')
  /\ UNCHANGED <<log, paneSize, checkpoint, conn, parser, listening, opens>>

\* The loop ends: close frame, socket error or tail error.  The task saves
\* its position once more.
Close(c) ==
  /\ InPhase(c, "live")
  /\ SaveCheckpoint(conn[c].start + conn[c].forwarded, conn[c].size)
  /\ conn' = [conn EXCEPT ![c] = ClosedConn]
  /\ UNCHANGED <<log, paneSize, typed, typedIn, parser, listening, opens>>

\* The daemon restarts: checkpoints were only in memory.
StreamRestart ==
  /\ \E c \in Conns: ~InPhase(c, "off")
  /\ checkpoint' = NoCheckpoint
  /\ conn' = [c \in Conns |-> ClosedConn]
  /\ UNCHANGED <<log, paneSize, typed, typedIn, parser, listening, opens>>

Connect(c) ==
  \/ \E k \in Clients, resume, redraw \in BOOLEAN: Open(k, c, resume, redraw)
  \/ \E s \in Sizes: FirstResize(c, s)
  \/ EarlyInput(c) \/ ResizeTimeout(c) \/ ReturnEarly(c)

Replay(c) ==
  \/ SendDelta(c) \/ SeekEnd(c) \/ Capture(c) \/ PinTail(c)
  \/ SendSnapshot(c) \/ Backfill(c) \/ GoLive(c)

Live(c) ==
  \/ TailRead(c) \/ Refresh(c) \/ LiveInput(c) \/ Close(c)
  \/ \E n \in 1..TailSlots: Forward(c, n)
  \/ \E s \in Sizes: Resize(c, s)

StreamNext ==
  \/ PaneWrites \/ StreamRestart
  \/ \E c \in Conns: Connect(c) \/ Replay(c) \/ Live(c)

StreamSpec == StreamInit /\ [][StreamNext]_streamVars

-----------------------------------------------------------------------------
(* Properties                                                              *)

\* The variables stay within their types.
StreamTypeOK ==
  /\ log \in 0..MaxLog /\ paneSize \in Sizes
  /\ checkpoint.pos \in -1..MaxLog /\ checkpoint.size \in Sizes \cup {NoSize}
  /\ \A c \in Conns:
       /\ conn[c].phase \in Phases /\ conn[c].mode \in Modes
       /\ conn[c].size \in Sizes \cup {NoSize}
       /\ Len(conn[c].queue) \in 0..TailSlots
       /\ conn[c].start \in 0..MaxLog /\ conn[c].cursor \in 0..MaxLog
  /\ \A k \in Clients: listening[k] \in Conns \cup {NoConn}

\* A client painted from a snapshot is never fed a byte the snapshot already
\* shows: stream_session pins the tail after capture-pane, so nothing is
\* replayed over it ("stream through the tail exactly once").
NoReplayOverSnapshot ==
  \A c \in Conns, k \in Clients:
    (InPhase(c, "live") /\ conn[c].mode = "snapshot" /\ listening[k] = c)
      => ~parser[k].replayed

\* Every live connection hands over the log from where its tail began, byte
\* by byte, in order, through coalescing and a channel that fills up.
Running(c) == InPhase(c, "live")

LocalFeed ==
  INSTANCE PaneFeed WITH
    Feeds <- Conns, written <- log,
    from <- [c \in Conns |-> IF Running(c) THEN conn[c].start ELSE -1],
    fed <- [c \in Conns |-> conn[c].out]

LocalStreamFeeds == LocalFeed!FeedSpec

-----------------------------------------------------------------------------
(* Statements the code does not keep: TLC refutes each of them, see the    *)
(* README, "What does not hold".                                           *)

\* A client that resumes is sent only bytes it has not seen: the checkpoint
\* it resumes from is not behind its parser.  ("That's what makes resume
\* reconnects deliver only the missed delta.")
ResumeNeverRepeats ==
  \A c \in Conns, k \in Clients:
    (InPhase(c, "replay") /\ CanResume(c) /\ listening[k] = c)
      => (parser[k].to <= checkpoint.pos \/ parser[k].refreshed)
=============================================================================
