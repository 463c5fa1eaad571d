---------------------------- MODULE RemoteStream ----------------------------
(***************************************************************************)
(* The live stream of a pane on an SSH host, and the host edit it must not *)
(* outlive.                                                                *)
(*                                                                         *)
(* A stream captures the pane with the log offset of that instant, then    *)
(* keeps two long-lived SSH children: a `tail -f` of the remote log from   *)
(* that offset, and a writer for keystrokes.  A tail that ends, or that a  *)
(* probe of the remote log size finds silent twice, is replaced together   *)
(* with a new snapshot.  Every SSH command reloads the host under the      *)
(* host's lifecycle lease.  PUT /api/hosts/{id} holds that lease, cancels  *)
(* every registered stream and waits until their children are reaped, so   *)
(* that no child of the old revision survives the edit.                    *)
(***************************************************************************)
EXTENDS Integers, Sequences, FiniteSets

CONSTANTS
  Streams,        \* stream connections to panes of one host
  MaxRemoteLog,   \* bound: bytes the remote pane writes
  MaxRev,         \* bound: revisions of the host row
  TailAttempts,   \* TAIL_RESPAWN_ATTEMPTS
  LagConfirms     \* REMOTE_TAIL_LAG_CONFIRMATIONS

ASSUME RemoteAssumption ==
  /\ MaxRemoteLog \in Nat /\ MaxRev \in Nat \ {0}
  /\ TailAttempts \in Nat \ {0} /\ LagConfirms \in Nat \ {0}
  /\ {"free", "edit"} \cap Streams = {}

VARIABLES
  remoteLog,   \* bytes in the remote pane log
  hostRev,     \* committed revision of the host
  hostLease,   \* "free", "edit", or the stream that holds it
  edit,        \* the host update in progress: its phase and whom it awaits
  strm         \* the state of each stream_remote_session

remoteVars == <<remoteLog, hostRev, hostLease, edit, strm>>

NoChild == 0            \* revisions count from 1
Unknown == -1           \* an offset that could not be captured
NoProbe == -2
ProbeRunning == -1

ClosedStream ==
  [phase |-> "off", offset |-> Unknown, tries |-> 0, registered |-> FALSE,
   cancel |-> FALSE, tail |-> NoChild, health |-> "ok", pos |-> 0, base |-> 0,
   out |-> <<>>, consumed |-> Unknown, lag |-> 0, probe |-> NoProbe,
   writer |-> NoChild, input |-> "off"]

RemoteInit ==
  /\ remoteLog = 0 /\ hostRev = 1 /\ hostLease = "free"
  /\ edit = [phase |-> "idle", awaiting |-> {}]
  /\ strm = [s \in Streams |-> ClosedStream]

-----------------------------------------------------------------------------
(* Helpers                                                                 *)

At(s, ph) == strm[s].phase = ph
LeaseFree == hostLease = "free"
Sent(s) == strm[s].base + Len(strm[s].out)
Set(s, rec) == strm' = [strm EXCEPT ![s] = rec]

\* Fault: the lag is compared for equality, one probe too late.
ObserveEquality(consumed, lag, size) ==
  CASE consumed = Unknown -> [consumed |-> size, lag |-> 0, silent |-> FALSE]
    [] consumed # Unknown /\ size <= consumed ->
         [consumed |-> size, lag |-> 0, silent |-> FALSE]
    [] OTHER -> [consumed |-> consumed, lag |-> lag + 1,
                 silent |-> lag > LagConfirms]

\* RemoteTailProgress::observe: the new baseline, the observations of lag, and
\* whether they now amount to a silent tail.
Observe(consumed, lag, size) ==
  CASE consumed = Unknown -> [consumed |-> size, lag |-> 0, silent |-> FALSE]
    [] consumed # Unknown /\ size <= consumed ->
         [consumed |-> size, lag |-> 0, silent |-> FALSE]
    [] OTHER -> [consumed |-> consumed, lag |-> lag + 1,
                 silent |-> lag + 1 >= LagConfirms]

\* Fault: the offset of tail -c is taken as one based, and a byte is skipped.
WithTailOneBased(r, p) ==
  [r EXCEPT !.tail = hostRev, !.health = "ok", !.pos = p + 1, !.base = p,
            !.out = <<>>]

\* A tail of the current revision, reading from position p.
WithTail(r, p) ==
  [r EXCEPT !.tail = hostRev, !.health = "ok", !.pos = p, !.base = p,
            !.out = <<>>]

\* The loop is over: cancel is signalled to the helpers, the probe is dropped.
Closing(r) == [r EXCEPT !.phase = "closing", !.cancel = TRUE, !.probe = NoProbe]

Recovering(r) ==
  [r EXCEPT !.phase = "recover", !.tail = NoChild, !.health = "ok", !.tries = 0,
            !.pos = 0, !.base = 0, !.out = <<>>]

-----------------------------------------------------------------------------
(* Connecting                                                              *)

RemoteWrites ==
  /\ remoteLog < MaxRemoteLog
  /\ remoteLog' = remoteLog + 1
  /\ UNCHANGED <<hostRev, hostLease, edit, strm>>

\* Snapshot and offset from one script; the snapshot is sent with the lease
\* still held.
FirstCapture(s) ==
  /\ At(s, "off") /\ LeaseFree
  /\ Set(s, [ClosedStream EXCEPT !.phase = "snap", !.offset = remoteLog])
  /\ hostLease' = s
  /\ UNCHANGED <<remoteLog, hostRev, edit>>

FirstCaptureFails(s) ==
  /\ At(s, "off") /\ LeaseFree
  /\ Set(s, [ClosedStream EXCEPT !.phase = "ready"])
  /\ UNCHANGED <<remoteLog, hostRev, hostLease, edit>>

SendFirstSnapshot(s) ==
  /\ At(s, "snap")
  /\ \E ok \in BOOLEAN:
       Set(s, IF ok THEN [strm[s] EXCEPT !.phase = "ready"] ELSE ClosedStream)
  /\ hostLease' = "free"
  /\ UNCHANGED <<remoteLog, hostRev, edit>>

\* The stream is registered and its tail spawned under one lease.  Without an
\* offset the tail begins at the end of the log.
RegisterAndSpawn(s) ==
  /\ At(s, "ready") /\ LeaseFree
  /\ LET r == [strm[s] EXCEPT !.registered = TRUE]
         p == IF r.offset = Unknown THEN remoteLog ELSE r.offset
     IN \/ Set(s, [WithTail(r, p) EXCEPT !.phase = "loop", !.input = "start",
                                         !.consumed = r.offset,
                                         !.offset = Unknown])
        \/ Set(s, [Recovering(r) EXCEPT !.offset = Unknown])
  /\ UNCHANGED <<remoteLog, hostRev, hostLease, edit>>

-----------------------------------------------------------------------------
(* The tail                                                                *)

TailReads(s) ==
  /\ strm[s].tail # NoChild /\ strm[s].health = "ok"
  /\ strm[s].pos < remoteLog
  /\ Set(s, [strm[s] EXCEPT !.pos = remoteLog])
  /\ UNCHANGED <<remoteLog, hostRev, hostLease, edit>>

\* The SSH channel drops, or stays open and goes silent.
TailBreaks(s) ==
  /\ strm[s].tail # NoChild /\ strm[s].health = "ok"
  /\ \E h \in {"ended", "silent"}: Set(s, [strm[s] EXCEPT !.health = h])
  /\ UNCHANGED <<remoteLog, hostRev, hostLease, edit>>

\* Everything queued goes out as one frame and counts as consumed.
ForwardTail(s) ==
  /\ At(s, "loop") /\ ~strm[s].cancel
  /\ Sent(s) < strm[s].pos
  /\ LET n == strm[s].pos - Sent(s)
     IN Set(s, [strm[s] EXCEPT
                  !.out = @ \o [i \in 1..n |-> Sent(s) + i - 1],
                  !.consumed = IF @ = Unknown THEN @ ELSE @ + n,
                  !.lag = 0])
  /\ UNCHANGED <<remoteLog, hostRev, hostLease, edit>>

TailEnded(s) ==
  /\ At(s, "loop")
  /\ strm[s].health = "ended" /\ Sent(s) = strm[s].pos
  /\ Set(s, Recovering(strm[s]))
  /\ UNCHANGED <<remoteLog, hostRev, hostLease, edit>>

-----------------------------------------------------------------------------
(* The probe of title and log size                                         *)

ProbeStarts(s) ==
  /\ At(s, "loop") /\ strm[s].probe = NoProbe
  /\ Set(s, [strm[s] EXCEPT !.probe = ProbeRunning])
  /\ UNCHANGED <<remoteLog, hostRev, hostLease, edit>>

\* The size is what the log has while the probe holds the lease.
ProbeReads(s) ==
  /\ strm[s].probe = ProbeRunning /\ LeaseFree
  /\ Set(s, [strm[s] EXCEPT !.probe = remoteLog])
  /\ UNCHANGED <<remoteLog, hostRev, hostLease, edit>>

ProbeFails(s) ==
  /\ strm[s].probe = ProbeRunning
  /\ Set(s, [strm[s] EXCEPT !.probe = NoProbe])
  /\ UNCHANGED <<remoteLog, hostRev, hostLease, edit>>

ProbeSays(s) == Observe(strm[s].consumed, strm[s].lag, strm[s].probe)

\* The loop compares the answer with what the tail delivered meanwhile; a
\* silent tail is shut down and replaced.
ProbeResult(s) ==
  /\ At(s, "loop") /\ strm[s].probe \in Nat
  /\ LET o == ProbeSays(s)
         r == [strm[s] EXCEPT !.probe = NoProbe, !.consumed = o.consumed,
                              !.lag = o.lag]
     IN Set(s, IF o.silent THEN Recovering(r) ELSE r)
  /\ UNCHANGED <<remoteLog, hostRev, hostLease, edit>>

-----------------------------------------------------------------------------
(* reestablish_remote_tail                                                 *)

\* Host reload, snapshot with offset and new tail, under one lease.
RecoverSpawns(s) ==
  /\ At(s, "recover") /\ ~strm[s].cancel /\ LeaseFree
  /\ Set(s, [WithTail(strm[s], remoteLog) EXCEPT !.phase = "repaint"])
  /\ UNCHANGED <<remoteLog, hostRev, hostLease, edit>>

RecoverFails(s) ==
  /\ At(s, "recover") /\ ~strm[s].cancel
  /\ Set(s, IF strm[s].tries + 1 < TailAttempts
            THEN [strm[s] EXCEPT !.tries = @ + 1]
            ELSE Closing(strm[s]))
  /\ UNCHANGED <<remoteLog, hostRev, hostLease, edit>>

\* Waiting for the backoff or for the lease gives way to cancellation.
RecoverCancelled(s) ==
  /\ At(s, "recover") /\ strm[s].cancel
  /\ Set(s, Closing(strm[s]))
  /\ UNCHANGED <<remoteLog, hostRev, hostLease, edit>>

RepaintSent(s) ==
  /\ At(s, "repaint") /\ ~strm[s].cancel
  /\ Set(s, [strm[s] EXCEPT !.phase = "loop", !.consumed = strm[s].base,
                            !.lag = 0, !.tries = 0,
                            !.input = IF @ = "off" THEN "start" ELSE @])
  /\ UNCHANGED <<remoteLog, hostRev, hostLease, edit>>

\* The socket fails or cancellation wins: the new tail is shut down again.
RepaintFails(s) ==
  /\ At(s, "repaint")
  /\ Set(s, Closing([strm[s] EXCEPT !.tail = NoChild]))
  /\ UNCHANGED <<remoteLog, hostRev, hostLease, edit>>

-----------------------------------------------------------------------------
(* The input task                                                          *)

\* At its start, and whenever a keystroke finds no writer.
WriterSpawns(s) ==
  /\ strm[s].input \in {"start", "run"} /\ strm[s].writer = NoChild
  /\ ~strm[s].cancel /\ LeaseFree
  /\ Set(s, [strm[s] EXCEPT !.input = "run", !.writer = hostRev])
  /\ UNCHANGED <<remoteLog, hostRev, hostLease, edit>>

\* The spawn fails, or a write fails or times out; the child is reaped and the
\* bytes go through a one-shot send under the lease.
WriterFails(s) ==
  /\ strm[s].input \in {"start", "run"} /\ LeaseFree
  /\ \/ strm[s].writer # NoChild
     \/ strm[s].input = "start"
  /\ Set(s, [strm[s] EXCEPT !.input = "run", !.writer = NoChild])
  /\ UNCHANGED <<remoteLog, hostRev, hostLease, edit>>

InputStops(s) ==
  /\ strm[s].input \in {"start", "run"} /\ strm[s].cancel
  /\ Set(s, [strm[s] EXCEPT !.input = "done", !.writer = NoChild])
  /\ UNCHANGED <<remoteLog, hostRev, hostLease, edit>>

-----------------------------------------------------------------------------
(* Ending a stream                                                         *)

\* The client goes away, or the loop sees that it was cancelled.
LoopBreaks(s) ==
  /\ At(s, "loop")
  /\ Set(s, Closing(strm[s]))
  /\ UNCHANGED <<remoteLog, hostRev, hostLease, edit>>

TailReaped(s) ==
  /\ At(s, "closing") /\ strm[s].tail # NoChild
  /\ Set(s, [strm[s] EXCEPT !.tail = NoChild])
  /\ UNCHANGED <<remoteLog, hostRev, hostLease, edit>>

\* registration.finish: both children are gone; whoever waits is told.
Finish(s) ==
  /\ At(s, "closing")
  /\ strm[s].tail = NoChild /\ strm[s].input \in {"off", "done"}
  /\ Set(s, ClosedStream)
  /\ edit' = [edit EXCEPT !.awaiting = @ \ {s}]
  /\ UNCHANGED <<remoteLog, hostRev, hostLease>>

-----------------------------------------------------------------------------
(* PUT /api/hosts/{id}                                                     *)

EditBegins ==
  /\ edit.phase = "idle" /\ LeaseFree /\ hostRev < MaxRev
  /\ LET live == {s \in Streams: strm[s].registered}
     IN /\ edit' = [phase |-> "draining", awaiting |-> live]
        /\ strm' = [s \in Streams |->
                      IF s \in live THEN [strm[s] EXCEPT !.cancel = TRUE]
                                    ELSE strm[s]]
  /\ hostLease' = "edit"
  /\ UNCHANGED <<remoteLog, hostRev>>

\* All acknowledged: masters are invalidated and the new row is stored.
EditCommits ==
  /\ edit.phase = "draining" /\ edit.awaiting = {}
  /\ hostRev' = hostRev + 1
  /\ hostLease' = "free"
  /\ edit' = [edit EXCEPT !.phase = "idle"]
  /\ UNCHANGED <<remoteLog, strm>>

\* The deadline passes: 409, nothing is changed.
EditTimesOut ==
  /\ edit.phase = "draining" /\ edit.awaiting # {}
  /\ hostLease' = "free"
  /\ edit' = [phase |-> "idle", awaiting |-> {}]
  /\ UNCHANGED <<remoteLog, hostRev, strm>>

TailSteps(s) ==
  \/ TailReads(s) \/ TailBreaks(s) \/ ForwardTail(s) \/ TailEnded(s)
  \/ ProbeStarts(s) \/ ProbeReads(s) \/ ProbeFails(s) \/ ProbeResult(s)

Connects(s) ==
  \/ FirstCapture(s) \/ FirstCaptureFails(s) \/ SendFirstSnapshot(s)
  \/ RegisterAndSpawn(s)

Recovers(s) ==
  \/ RecoverSpawns(s) \/ RecoverFails(s) \/ RecoverCancelled(s)
  \/ RepaintSent(s) \/ RepaintFails(s)

InputSteps(s) == WriterSpawns(s) \/ WriterFails(s) \/ InputStops(s)

Ends(s) == LoopBreaks(s) \/ TailReaped(s) \/ Finish(s)

RemoteNext ==
  \/ RemoteWrites \/ EditBegins \/ EditCommits \/ EditTimesOut
  \/ \E s \in Streams:
       Connects(s) \/ TailSteps(s) \/ Recovers(s) \/ InputSteps(s) \/ Ends(s)

RemoteSpec == RemoteInit /\ [][RemoteNext]_remoteVars

\* Leaving the loop because the stream was cancelled.
LoopSeesCancel(s) == strm[s].cancel /\ LoopBreaks(s)

-----------------------------------------------------------------------------
(* Properties                                                              *)

\* The variables stay within their types.
RemoteTypeOK ==
  /\ remoteLog \in 0..MaxRemoteLog /\ hostRev \in 1..MaxRev
  /\ hostLease \in {"free", "edit"} \cup Streams
  /\ edit.phase \in {"idle", "draining"} /\ edit.awaiting \subseteq Streams
  /\ \A s \in Streams:
       /\ strm[s].phase \in
            {"off", "snap", "ready", "loop", "recover", "repaint", "closing"}
       /\ strm[s].tail \in 0..MaxRev /\ strm[s].writer \in 0..MaxRev
       /\ strm[s].health \in {"ok", "ended", "silent"}
       /\ strm[s].consumed \in -1..(2 * MaxRemoteLog)
       /\ strm[s].lag \in 0..LagConfirms
       /\ strm[s].probe \in -2..MaxRemoteLog

\* Once a host edit is committed no SSH child of the old revision runs: every
\* tail and every input writer belongs to the stored revision, whatever the
\* streams were doing (connecting, recovering, respawning a writer) when the
\* edit began.
NoStaleChild ==
  \A s \in Streams:
    {strm[s].tail, strm[s].writer} \subseteq {NoChild, hostRev}

\* An edit that waits for streams is not waited for by them: it ends without
\* its deadline, because waiting for the lease, for a backoff or for a slow
\* client gives way to cancellation.
EditEnds == (edit.phase = "draining") ~> (edit.phase = "idle")

\* A tail that went silent while the log moved past what the client has got
\* is found by the probes and replaced, or the stream ends.
SilentTail(s) ==
  /\ At(s, "loop") /\ strm[s].health = "silent"
  /\ strm[s].consumed # Unknown /\ remoteLog > strm[s].consumed
  /\ Sent(s) = strm[s].pos

SilentTailReplaced ==
  \A s \in Streams: SilentTail(s) ~> (~At(s, "loop") \/ strm[s].health # "silent")

\* A remote stream hands its client the log from the offset of its snapshot,
\* each byte once and in order; a replaced tail starts a new feed.
RemoteFeed ==
  INSTANCE PaneFeed WITH
    Feeds <- Streams, written <- remoteLog,
    from <- [s \in Streams |-> IF At(s, "loop") THEN strm[s].base ELSE -1],
    fed <- [s \in Streams |-> IF At(s, "loop") THEN strm[s].out ELSE <<>>]

RemoteStreamFeeds == RemoteFeed!FeedSpec

-----------------------------------------------------------------------------
(* Statements the code does not keep: TLC refutes each of them, see the    *)
(* README, "What does not hold".                                           *)

\* The probe condemns a tail only if it stopped forwarding: "only a persistent
\* discrepancy proves the live SSH child stopped forwarding" (sessions.rs:2860).
LagIsReal ==
  \A s \in Streams:
    (At(s, "loop") /\ strm[s].probe \in Nat /\ ProbeSays(s).silent)
      => (strm[s].health # "ok" \/ Sent(s) < remoteLog)
=============================================================================
