------------------------------ MODULE RemoteProofs ------------------------------
(***************************************************************************)
(* Proofs about the way to a host: its streams give way to an edit and     *)
(* hand over the log as a feed does, its connections are those of the      *)
(* saved row, its scripts run once; and about the bridges and the readouts *)
(* that share MCRemote with them.                                          *)
(***************************************************************************)
EXTENDS MCRemote, SequenceTheorems, TLAPS

-------------------------------------------------------------------------------
(* RemoteStream: streams of panes on a host, and the edit they give way to. *)

\* A function on 1 .. n is a sequence of n elements.
LEMMA FunctionIsSeq ==
  ASSUME NEW S, NEW n \in Nat, NEW f \in [1..n -> S]
  PROVE  f \in Seq(S) /\ Len(f) = n
<1>1. f \in Seq(S)
  BY SeqDef
<1>2. Len(f) \in Nat /\ 1..Len(f) = 1..n
  BY <1>1, LenProperties
<1>3. Len(f) = n
  BY <1>2
<1> QED
  BY <1>1, <1>3

\* Positions in the log, one after the other.
LEMMA RunIsSeq ==
  ASSUME NEW n \in Nat, NEW k \in Nat
  PROVE  /\ [i \in 1..n |-> k + i - 1] \in Seq(Nat)
         /\ Len([i \in 1..n |-> k + i - 1]) = n
<1>1. \A i \in 1..n: k + i - 1 \in Nat
  OBVIOUS
<1>2. [i \in 1..n |-> k + i - 1] \in [1..n -> Nat]
  BY <1>1
<1> QED
  BY <1>2, FunctionIsSeq

LivePhases == {"loop", "recover", "repaint", "closing"}
StreamPhases == {"off", "snap", "ready"} \cup LivePhases
StreamStates ==
  [phase: StreamPhases, offset: Int, tries: Nat, registered: BOOLEAN, cancel: BOOLEAN,
   tail: Nat, health: {"ok", "ended", "silent"}, pos: Nat, base: Nat, out: Seq(Nat),
   consumed: Int, lag: Nat, probe: Int, writer: Nat,
   input: {"off", "start", "run", "done"}]

\* One stream: children only of the saved revision and only once registered;
\* what it has sent lies behind what its tail has read.
StreamOk(r) ==
  /\ -1 <= r.offset /\ r.offset <= remoteLog
  /\ r.tail \in {NoChild, hostRev} /\ r.writer \in {NoChild, hostRev}
  /\ r.registered <=> r.phase \in LivePhases
  /\ r.phase \notin LivePhases =>
       r.tail = NoChild /\ r.writer = NoChild /\ r.input = "off" /\ r.lag = 0
  /\ r.phase = "loop" =>
       /\ r.base + Len(r.out) <= r.pos /\ r.pos <= remoteLog
       /\ r.lag < LagConfirms /\ r.consumed <= MaxRemoteLog + r.base + Len(r.out)
  /\ r.phase = "repaint" =>
       r.out = <<>> /\ r.base <= r.pos /\ r.pos <= remoteLog
  /\ -1 <= r.consumed /\ r.consumed <= 2 * MaxRemoteLog
  /\ r.lag <= LagConfirms
  /\ -2 <= r.probe /\ r.probe <= remoteLog

\* While an edit waits nobody takes the lease, and it waits for every stream
\* that is registered.
RemoteInv ==
  /\ remoteLog \in 0..MaxRemoteLog /\ hostRev \in 1..MaxRev
  /\ hostLease \in {"free", "edit"} \cup Streams
  /\ DOMAIN edit = {"phase", "awaiting"}
  /\ edit.phase \in {"idle", "draining"} /\ edit.awaiting \subseteq Streams
  /\ strm \in [Streams -> StreamStates]
  /\ \A s \in Streams: StreamOk(strm[s])
  /\ \A s \in Streams: strm[s].phase = "snap" => hostLease = s
  /\ edit.phase = "draining" =>
       /\ hostLease = "edit" /\ hostRev < MaxRev
       /\ \A s \in Streams: strm[s].registered => s \in edit.awaiting

LEMMA ClosedStreamOk ==
  ASSUME remoteLog \in Nat
  PROVE  ClosedStream \in StreamStates /\ StreamOk(ClosedStream)
<1>1. ClosedStream \in StreamStates
  BY EmptySeq DEF ClosedStream, StreamStates, StreamPhases, LivePhases, Unknown, NoProbe,
     NoChild
<1>2. MaxRemoteLog \in Nat /\ LagConfirms \in Nat \ {0}
  BY RemoteAssumption
<1> QED
  BY <1>1, <1>2 DEF ClosedStream, StreamOk, LivePhases, Unknown, NoProbe, NoChild

LEMMA RemoteStarts == RemoteInit => RemoteInv /\ RemoteFeed!FeedInit
<1> SUFFICES ASSUME RemoteInit PROVE RemoteInv /\ RemoteFeed!FeedInit
  OBVIOUS
<1>1. /\ remoteLog = 0 /\ hostRev = 1 /\ hostLease = "free"
      /\ edit = [phase |-> "idle", awaiting |-> {}]
      /\ strm = [s \in Streams |-> ClosedStream]
  BY DEF RemoteInit
<1>2. ClosedStream \in StreamStates /\ StreamOk(ClosedStream)
  BY <1>1, ClosedStreamOk
<1>3. ClosedStream.phase = "off" /\ ClosedStream.out = <<>>
  BY DEF ClosedStream
<1>4. RemoteInv
  BY <1>1, <1>2, <1>3, RemoteAssumption DEF RemoteInv
<1>5. RemoteFeed!FeedInit
  BY <1>1, <1>3 DEF RemoteFeed!FeedInit, RemoteFeed!Off, At
<1> QED
  BY <1>4, <1>5

\* One stream goes to a state that is in order.
LEMMA StreamMoves ==
  ASSUME RemoteInv, NEW s \in Streams, NEW r \in StreamStates, StreamOk(r), Set(s, r),
         UNCHANGED <<remoteLog, hostRev, edit>>,
         r.registered => strm[s].registered \/ hostLease = "free",
         \/ UNCHANGED hostLease /\ (r.phase = "snap" => strm[s].phase = "snap")
         \/ hostLease \in {"free", s} /\ hostLease' \in {"free", s}
              /\ (r.phase = "snap" => hostLease' = s)
  PROVE  RemoteInv'
<1>1. /\ strm' \in [Streams -> StreamStates] /\ strm'[s] = r
      /\ \A q \in Streams: q # s => strm'[q] = strm[q]
  BY DEF RemoteInv, Set
<1>2. \A q \in Streams: StreamOk(strm'[q])
  BY <1>1 DEF RemoteInv
<1>3. \A q \in Streams: StreamOk(strm[q])'
  BY <1>2 DEF StreamOk
<1>4. "free" \notin Streams /\ "edit" \notin Streams /\ "free" # "edit"
  BY RemoteAssumption
<1>5. \A q \in Streams: strm'[q].phase = "snap" => hostLease' = q
  BY <1>1, <1>4 DEF RemoteInv
<1>6. ASSUME edit.phase = "draining"
      PROVE  /\ hostLease' = "edit" /\ hostRev < MaxRev
             /\ \A q \in Streams: strm'[q].registered => q \in edit.awaiting
  <2>1. hostLease = "edit" /\ hostRev < MaxRev
        /\ \A q \in Streams: strm[q].registered => q \in edit.awaiting
    BY <1>6 DEF RemoteInv
  <2>2. hostLease' = "edit"
    BY <1>4, <2>1
  <2>3. r.registered => strm[s].registered
    BY <1>4, <2>1
  <2> QED
    BY <1>1, <2>1, <2>2, <2>3
<1>7. hostLease' \in {"free", "edit"} \cup Streams
  BY DEF RemoteInv
<1> QED
  BY <1>1, <1>3, <1>5, <1>6, <1>7 DEF RemoteInv

\* A stream that is fed goes on with the same feed, one that is not stays so.
LEMMA FeedRests ==
  ASSUME RemoteInv, NEW s \in Streams, NEW r, Set(s, r), UNCHANGED remoteLog,
         \/ /\ strm[s].phase = "loop" /\ r.phase = "loop"
            /\ r.base = strm[s].base /\ r.out = strm[s].out
         \/ strm[s].phase # "loop" /\ r.phase # "loop"
  PROVE  UNCHANGED RemoteFeed!feedVars
<1>1. \A q \in Streams: strm'[q] = IF q = s THEN r ELSE strm[q]
  BY DEF RemoteInv, Set
<1>2. [q \in Streams |-> IF At(q, "loop") THEN strm[q].base ELSE -1]'
        = [q \in Streams |-> IF At(q, "loop") THEN strm[q].base ELSE -1]
  BY <1>1 DEF At
<1>3. [q \in Streams |-> IF At(q, "loop") THEN strm[q].out ELSE <<>>]'
        = [q \in Streams |-> IF At(q, "loop") THEN strm[q].out ELSE <<>>]
  BY <1>1 DEF At
<1> QED
  BY <1>2, <1>3 DEF RemoteFeed!feedVars

\* A tail is spawned: a feed starts where it reads.
LEMMA FeedStarts ==
  ASSUME RemoteInv, NEW s \in Streams, NEW r, Set(s, r), UNCHANGED remoteLog,
         r.phase = "loop", r.out = <<>>, r.base \in 0..remoteLog
  PROVE  RemoteFeed!FeedNext
<1>1. \A q \in Streams: strm'[q] = IF q = s THEN r ELSE strm[q]
  BY DEF RemoteInv, Set
<1>2. [q \in Streams |-> IF At(q, "loop") THEN strm[q].base ELSE -1]'
        = [[q \in Streams |-> IF At(q, "loop") THEN strm[q].base ELSE -1]
             EXCEPT ![s] = r.base]
  BY <1>1 DEF At
<1>3. [q \in Streams |-> IF At(q, "loop") THEN strm[q].out ELSE <<>>]'
        = [[q \in Streams |-> IF At(q, "loop") THEN strm[q].out ELSE <<>>]
             EXCEPT ![s] = <<>>]
  BY <1>1 DEF At
<1>4. RemoteFeed!Start(s)
  BY <1>2, <1>3 DEF RemoteFeed!Start
<1> QED
  BY <1>4 DEF RemoteFeed!FeedNext

\* A tail is given up: its feed ends.
LEMMA FeedStops ==
  ASSUME RemoteInv, NEW s \in Streams, NEW r, Set(s, r), UNCHANGED remoteLog,
         r.phase # "loop"
  PROVE  RemoteFeed!FeedNext
<1>1. \A q \in Streams: strm'[q] = IF q = s THEN r ELSE strm[q]
  BY DEF RemoteInv, Set
<1> DEFINE F == [q \in Streams |-> IF At(q, "loop") THEN strm[q].base ELSE -1]
           G == [q \in Streams |-> IF At(q, "loop") THEN strm[q].out ELSE <<>>]
<1>2. F' = [q \in Streams |-> IF q \in {s} THEN -1 ELSE F[q]]
  BY <1>1 DEF At
<1>3. G' = [q \in Streams |-> IF q \in {s} THEN <<>> ELSE G[q]]
  BY <1>1 DEF At
<1>4. RemoteFeed!Stop({s})
  BY <1>2, <1>3 DEF RemoteFeed!Stop, RemoteFeed!Off
<1> QED
  BY <1>4 DEF RemoteFeed!FeedNext
Fed == [RemoteFeed!FeedNext]_(RemoteFeed!feedVars)

LEMMA StreamIs ==
  ASSUME RemoteInv, NEW s \in Streams
  PROVE  /\ strm[s] \in StreamStates /\ StreamOk(strm[s])
         /\ remoteLog \in Nat /\ remoteLog <= MaxRemoteLog /\ MaxRemoteLog \in Nat
         /\ hostRev \in Nat \ {0} /\ LagConfirms \in Nat \ {0}
BY RemoteAssumption DEF RemoteInv

\* A stream that is not being captured goes on; what it holds it held before,
\* or it took the lease.
LEMMA StreamGoes ==
  ASSUME RemoteInv, NEW s \in Streams, NEW r \in StreamStates, StreamOk(r), Set(s, r),
         UNCHANGED <<remoteLog, hostRev, hostLease, edit>>,
         r.registered => strm[s].registered \/ hostLease = "free", r.phase # "snap"
  PROVE  RemoteInv'
BY StreamMoves

LEMMA ConnectKeeps ==
  ASSUME RemoteInv, NEW s \in Streams, Connects(s)
  PROVE  RemoteInv' /\ Fed
<1>0. /\ strm[s] \in StreamStates /\ StreamOk(strm[s]) /\ remoteLog \in Nat
      /\ remoteLog <= MaxRemoteLog /\ MaxRemoteLog \in Nat /\ hostRev \in Nat \ {0}
      /\ LagConfirms \in Nat \ {0}
  BY StreamIs
<1>1. /\ ClosedStream \in StreamStates /\ StreamOk(ClosedStream)
      /\ ClosedStream.phase = "off" /\ ~ClosedStream.registered
  BY <1>0, ClosedStreamOk DEF ClosedStream
<1>2. CASE FirstCapture(s)
  <2> DEFINE r == [ClosedStream EXCEPT !.phase = "snap", !.offset = remoteLog]
  <2>1. /\ strm[s].phase = "off" /\ hostLease = "free" /\ hostLease' = s /\ Set(s, r)
        /\ UNCHANGED <<remoteLog, hostRev, edit>>
    BY <1>2 DEF FirstCapture, At, LeaseFree
  <2>2. r \in StreamStates
    <3>1. "snap" \in StreamPhases /\ remoteLog \in Int
      BY <1>0 DEF StreamPhases
    <3> QED
      BY <1>1, <3>1 DEF StreamStates
  <2>3. StreamOk(r) /\ ~r.registered /\ r.phase = "snap"
    <3>1. /\ r.phase = "snap" /\ r.offset = remoteLog
          /\ r.registered = ClosedStream.registered /\ r.tail = ClosedStream.tail
          /\ r.writer = ClosedStream.writer /\ r.input = ClosedStream.input
          /\ r.lag = ClosedStream.lag /\ r.consumed = ClosedStream.consumed
          /\ r.probe = ClosedStream.probe
      BY <1>1 DEF StreamStates
    <3> HIDE DEF r
    <3> QED
      BY <1>0, <1>1, <3>1 DEF StreamOk, LivePhases
  <2> HIDE DEF r
  <2>4. RemoteInv'
    BY <2>1, <2>2, <2>3, StreamMoves
  <2>5. UNCHANGED RemoteFeed!feedVars
    BY <2>1, <2>3, FeedRests
  <2> QED
    BY <2>4, <2>5 DEF Fed
<1>3. CASE FirstCaptureFails(s)
  <2> DEFINE r == [ClosedStream EXCEPT !.phase = "ready"]
  <2>1. /\ strm[s].phase = "off" /\ Set(s, r)
        /\ UNCHANGED <<remoteLog, hostRev, hostLease, edit>>
    BY <1>3 DEF FirstCaptureFails, At
  <2>2. r \in StreamStates
    BY <1>0, <1>1 DEF StreamStates, StreamPhases, LivePhases
  <2>3. StreamOk(r) /\ ~r.registered /\ r.phase = "ready"
    BY <1>0, <1>1 DEF StreamOk, LivePhases, StreamStates
  <2> HIDE DEF r
  <2>4. RemoteInv'
    BY <2>1, <2>2, <2>3, StreamGoes
  <2>5. UNCHANGED RemoteFeed!feedVars
    BY <2>1, <2>3, FeedRests
  <2> QED
    BY <2>4, <2>5 DEF Fed
<1>4. CASE SendFirstSnapshot(s)
  <2>1. PICK ok \in BOOLEAN:
          Set(s, IF ok THEN [strm[s] EXCEPT !.phase = "ready"] ELSE ClosedStream)
    BY <1>4 DEF SendFirstSnapshot
  <2> DEFINE r == IF ok THEN [strm[s] EXCEPT !.phase = "ready"] ELSE ClosedStream
  <2>2. /\ strm[s].phase = "snap" /\ hostLease = s /\ hostLease' = "free" /\ Set(s, r)
        /\ UNCHANGED <<remoteLog, hostRev, edit>>
    BY <1>4, <2>1 DEF SendFirstSnapshot, At, RemoteInv
  <2>3. ~strm[s].registered
    BY <1>0, <2>2 DEF StreamOk, LivePhases
  <2>4. /\ r \in StreamStates /\ StreamOk(r) /\ ~r.registered
        /\ r.phase \notin {"snap", "loop"}
    <3>1. CASE ok
      <4> DEFINE q == [strm[s] EXCEPT !.phase = "ready"]
      <4>1. q \in StreamStates
        BY <1>0 DEF StreamStates, StreamPhases, LivePhases
      <4>2. StreamOk(q) /\ ~q.registered /\ q.phase = "ready"
        BY <1>0, <2>2, <2>3 DEF StreamOk, LivePhases, StreamStates
      <4> QED
        BY <3>1, <4>1, <4>2
    <3>2. CASE ~ok
      BY <1>1, <3>2
    <3> QED
      BY <3>1, <3>2
  <2> HIDE DEF r
  <2>5. RemoteInv'
    BY <2>2, <2>3, <2>4, StreamMoves
  <2>6. UNCHANGED RemoteFeed!feedVars
    BY <2>2, <2>4, FeedRests
  <2> QED
    BY <2>5, <2>6 DEF Fed
<1>5. CASE RegisterAndSpawn(s)
  <2> DEFINE r == [strm[s] EXCEPT !.registered = TRUE]
             p == IF r.offset = Unknown THEN remoteLog ELSE r.offset
             a == [WithTail(r, p) EXCEPT !.phase = "loop", !.input = "start",
                                         !.consumed = r.offset, !.offset = Unknown]
             b == [Recovering(r) EXCEPT !.offset = Unknown]
  <2>1. /\ strm[s].phase = "ready" /\ hostLease = "free"
        /\ Set(s, a) \/ Set(s, b)
        /\ UNCHANGED <<remoteLog, hostRev, hostLease, edit>>
    BY <1>5 DEF RegisterAndSpawn, At, LeaseFree
  <2>2. /\ strm[s].offset \in Int /\ -1 <= strm[s].offset /\ strm[s].offset <= remoteLog
        /\ strm[s].tail = 0 /\ strm[s].writer = 0 /\ strm[s].input = "off" /\ strm[s].lag = 0
        /\ strm[s].consumed \in Int /\ -1 <= strm[s].consumed
        /\ strm[s].consumed <= 2 * MaxRemoteLog
        /\ -2 <= strm[s].probe /\ strm[s].probe <= remoteLog
    BY <1>0, <2>1 DEF StreamOk, LivePhases, StreamStates, NoChild
  <2>3. /\ r \in StreamStates /\ r.registered /\ r.offset = strm[s].offset
        /\ r.tail = 0 /\ r.writer = 0 /\ r.input = "off" /\ r.lag = 0
        /\ r.consumed = strm[s].consumed /\ r.probe = strm[s].probe
    BY <1>0, <2>2 DEF StreamStates
  <2>4. p \in Nat /\ p <= remoteLog
    BY <1>0, <2>2, <2>3 DEF Unknown
  <2> HIDE DEF r, p
  <2>5. <<>> \in Seq(Nat) /\ Len(<<>>) = 0
    BY EmptySeq
  <2>6. /\ a \in StreamStates /\ a.phase = "loop" /\ a.input = "start"
        /\ a.consumed = strm[s].offset /\ a.offset = -1 /\ a.tail = hostRev /\ a.pos = p
        /\ a.base = p /\ a.out = <<>> /\ a.registered /\ a.lag = 0 /\ a.writer = 0
        /\ a.probe = strm[s].probe
    <3>1. "loop" \in StreamPhases /\ -1 \in Int /\ r.offset \in Int
      BY <2>2, <2>3 DEF StreamPhases, LivePhases
    <3> DEFINE t == WithTail(r, p)
    <3>2. /\ t \in StreamStates /\ t.tail = hostRev /\ t.pos = p /\ t.base = p
          /\ t.out = <<>> /\ t.registered /\ t.lag = 0 /\ t.writer = 0
          /\ t.probe = strm[s].probe
      BY <1>0, <2>3, <2>4, <2>5 DEF WithTail, StreamStates
    <3> HIDE DEF t
    <3>3. a = [t EXCEPT !.phase = "loop", !.input = "start", !.consumed = r.offset,
                        !.offset = -1]
      BY DEF t, Unknown
    <3> HIDE DEF a
    <3> QED
      BY <2>3, <3>1, <3>2, <3>3 DEF StreamStates
  <2>7. /\ b \in StreamStates /\ b.phase = "recover" /\ b.offset = -1 /\ b.tail = 0
        /\ b.registered /\ b.lag = 0 /\ b.writer = 0
        /\ b.consumed = strm[s].consumed /\ b.probe = strm[s].probe
    <3>1. "recover" \in StreamPhases /\ -1 \in Int /\ NoChild = 0 /\ Unknown = -1
      BY DEF StreamPhases, LivePhases, NoChild, Unknown
    <3> DEFINE t == Recovering(r)
    <3>2. /\ t \in StreamStates /\ t.tail = 0 /\ t.phase = "recover"
          /\ t.registered /\ t.lag = 0 /\ t.writer = 0
          /\ t.consumed = strm[s].consumed /\ t.probe = strm[s].probe
      BY <2>3, <2>5, <3>1 DEF Recovering, StreamStates
    <3> HIDE DEF t
    <3>3. b = [t EXCEPT !.offset = -1]
      BY <3>1 DEF t
    <3> HIDE DEF b
    <3> QED
      BY <3>1, <3>2, <3>3 DEF StreamStates
  <2> HIDE DEF a, b
  <2>8. StreamOk(a)
    BY <1>0, <2>2, <2>4, <2>5, <2>6 DEF StreamOk, LivePhases, NoChild
  <2>9. StreamOk(b)
    BY <1>0, <2>2, <2>7 DEF StreamOk, LivePhases, NoChild
  <2>10. CASE Set(s, a)
    <3>1. RemoteInv'
      BY <2>1, <2>6, <2>8, <2>10, StreamGoes
    <3>2. a.base \in 0..remoteLog
      BY <1>0, <2>4, <2>6
    <3>3. RemoteFeed!FeedNext
      BY <2>1, <2>6, <2>10, <3>2, FeedStarts
    <3> QED
      BY <3>1, <3>3 DEF Fed
  <2>11. CASE Set(s, b)
    <3>1. RemoteInv'
      BY <2>1, <2>7, <2>9, <2>11, StreamGoes
    <3>2. UNCHANGED RemoteFeed!feedVars
      BY <2>1, <2>7, <2>11, FeedRests
    <3> QED
      BY <3>1, <3>2 DEF Fed
  <2> QED
    BY <2>1, <2>10, <2>11
<1> QED
  BY <1>2, <1>3, <1>4, <1>5 DEF Connects
\* A stream that is fed, or is not, goes on as it was.
LEMMA StreamRests ==
  ASSUME RemoteInv, NEW s \in Streams, NEW r \in StreamStates, StreamOk(r), Set(s, r),
         UNCHANGED <<remoteLog, hostRev, hostLease, edit>>,
         r.registered => strm[s].registered \/ hostLease = "free",
         r.phase = strm[s].phase, r.base = strm[s].base, r.out = strm[s].out
  PROVE  RemoteInv' /\ Fed
<1>1. RemoteInv'
  BY StreamMoves
<1>2. UNCHANGED RemoteFeed!feedVars
  BY FeedRests
<1> QED
  BY <1>1, <1>2 DEF Fed

\* A stream stops being fed, or was not.
LEMMA StreamStops ==
  ASSUME RemoteInv, NEW s \in Streams, NEW r \in StreamStates, StreamOk(r), Set(s, r),
         UNCHANGED <<remoteLog, hostRev, hostLease, edit>>,
         r.registered => strm[s].registered \/ hostLease = "free",
         r.phase \notin {"loop", "snap"}
  PROVE  RemoteInv' /\ Fed
<1>1. RemoteInv'
  BY StreamGoes
<1>2. RemoteFeed!FeedNext
  BY FeedStops
<1> QED
  BY <1>1, <1>2 DEF Fed

\* The tail of a stream that is being recovered is gone, its writer is not.
LEMMA RecoveringIs ==
  ASSUME RemoteInv, NEW s \in Streams, NEW r \in StreamStates,
         r.registered, r.writer \in {NoChild, hostRev},
         -1 <= r.offset, r.offset <= remoteLog, -2 <= r.probe, r.probe <= remoteLog,
         -1 <= r.consumed, r.consumed <= 2 * MaxRemoteLog, r.lag <= LagConfirms
  PROVE  /\ Recovering(r) \in StreamStates /\ StreamOk(Recovering(r))
         /\ Recovering(r).phase = "recover" /\ Recovering(r).registered
<1> DEFINE t == Recovering(r)
<1>0. <<>> \in Seq(Nat) /\ "recover" \in StreamPhases /\ NoChild = 0
  BY EmptySeq DEF StreamPhases, LivePhases, NoChild
<1>1. /\ t \in StreamStates /\ t.phase = "recover" /\ t.offset = r.offset
      /\ t.tail = 0 /\ t.registered /\ t.lag = r.lag /\ t.writer = r.writer
      /\ t.consumed = r.consumed /\ t.probe = r.probe
  BY <1>0 DEF Recovering, StreamStates
<1> HIDE DEF t
<1>2. StreamOk(t)
  BY <1>0, <1>1 DEF StreamOk, LivePhases
<1> QED
  BY <1>1, <1>2 DEF t

\* A stream that leaves its loop keeps its children until they are reaped.
LEMMA ClosingIs ==
  ASSUME RemoteInv, NEW s \in Streams, NEW r \in StreamStates,
         r.registered, r.tail \in {NoChild, hostRev}, r.writer \in {NoChild, hostRev},
         -1 <= r.offset, r.offset <= remoteLog,
         -1 <= r.consumed, r.consumed <= 2 * MaxRemoteLog, r.lag <= LagConfirms
  PROVE  /\ Closing(r) \in StreamStates /\ StreamOk(Closing(r))
         /\ Closing(r).phase = "closing" /\ Closing(r).registered
<1> DEFINE t == Closing(r)
<1>0. "closing" \in StreamPhases /\ NoProbe = -2 /\ -2 \in Int /\ remoteLog \in Nat
  BY StreamIs DEF StreamPhases, LivePhases, NoProbe
<1>1. /\ t \in StreamStates /\ t.phase = "closing" /\ t.offset = r.offset
      /\ t.tail = r.tail /\ t.registered /\ t.lag = r.lag /\ t.writer = r.writer
      /\ t.consumed = r.consumed /\ t.probe = -2
  BY <1>0 DEF Closing, StreamStates
<1> HIDE DEF t
<1>2. StreamOk(t)
  BY <1>0, <1>1 DEF StreamOk, LivePhases
<1> QED
  BY <1>1, <1>2 DEF t

LEMMA SentArithmetic ==
  ASSUME NEW b \in Nat, NEW l \in Nat, NEW p \in Nat, NEW top \in Nat, NEW m \in Nat,
         NEW c \in Int, b + l < p, p <= top, top <= m, -1 <= c, c <= m + b + l,
         NEW n, n = p - (b + l)
  PROVE  /\ n \in Nat \ {0} /\ n <= top - b - l /\ b + l \in Nat /\ b + l + n = p
         /\ b + (l + n) = p /\ c + n \in Int /\ -1 <= c + n
         /\ c + n <= m + b + (l + n) /\ c + n <= 2 * m /\ c <= m + b + (l + n)
OBVIOUS

\* Everything that was read is sent: the next bytes of the feed.
LEMMA ForwardKeeps ==
  ASSUME RemoteInv, NEW s \in Streams, ForwardTail(s)
  PROVE  RemoteInv' /\ Fed
<1>0. /\ strm[s] \in StreamStates /\ StreamOk(strm[s]) /\ remoteLog \in Nat
      /\ remoteLog <= MaxRemoteLog /\ MaxRemoteLog \in Nat /\ LagConfirms \in Nat \ {0}
  BY StreamIs
<1> DEFINE base == strm[s].base
           out == strm[s].out
           pos == strm[s].pos
           n == pos - (base + Len(out))
           new == [i \in 1..n |-> base + Len(out) + i - 1]
           con == IF strm[s].consumed = -1 THEN strm[s].consumed ELSE strm[s].consumed + n
           r == [strm[s] EXCEPT !.out = out \o new, !.consumed = con, !.lag = 0]
<1>1. /\ strm[s].phase = "loop" /\ base + Len(out) < pos
      /\ Set(s, r) /\ UNCHANGED <<remoteLog, hostRev, hostLease, edit>>
  BY DEF ForwardTail, At, Sent, Set, Unknown
<1>2. /\ out \in Seq(Nat) /\ Len(out) \in Nat /\ base \in Nat /\ pos \in Nat
      /\ pos <= remoteLog /\ strm[s].consumed \in Int
      /\ -1 <= strm[s].consumed /\ strm[s].consumed <= MaxRemoteLog + base + Len(out)
      /\ strm[s].consumed <= 2 * MaxRemoteLog
  BY <1>0, <1>1, LenProperties DEF StreamStates, StreamOk
<1>a. n = pos - (base + Len(out))
  OBVIOUS
<1> DEFINE c == strm[s].consumed
           l == Len(out)
<1> HIDE DEF n, base, pos, c, out
<1>3. /\ n \in Nat \ {0} /\ n <= remoteLog - base - l /\ base + l \in Nat
      /\ base + l + n = pos /\ base + (l + n) = pos
      /\ c + n \in Int /\ -1 <= c + n /\ c + n <= MaxRemoteLog + base + (l + n)
      /\ c + n <= 2 * MaxRemoteLog /\ c <= MaxRemoteLog + base + (l + n)
  <2>1. l \in Nat /\ base \in Nat /\ pos \in Nat /\ c \in Int /\ base + l < pos
        /\ -1 <= c /\ c <= MaxRemoteLog + base + l /\ n = pos - (base + l)
    BY <1>1, <1>2, <1>a DEF c, n, base, pos, out
  <2> HIDE DEF l
  <2> QED
    BY <1>0, <1>2, <2>1, SentArithmetic
<1>4. con \in Int /\ -1 <= con /\ con <= MaxRemoteLog + base + (l + n)
      /\ con <= 2 * MaxRemoteLog
  <2>1. con = c \/ con = c + n
    BY DEF c
  <2> QED
    BY <1>2, <1>3, <2>1 DEF c
<1> HIDE DEF n, con
<1>5. new \in Seq(Nat) /\ Len(new) = n
  BY <1>3, RunIsSeq
<1> HIDE DEF new
<1>6. out \o new \in Seq(Nat) /\ Len(out \o new) = Len(out) + n
  BY <1>2, <1>5, ConcatProperties
<1>7. /\ r \in StreamStates /\ r.phase = "loop" /\ r.base = base /\ r.pos = pos
      /\ r.out = out \o new /\ r.consumed = con /\ r.lag = 0
      /\ r.offset = strm[s].offset /\ r.tail = strm[s].tail /\ r.writer = strm[s].writer
      /\ r.registered = strm[s].registered /\ r.probe = strm[s].probe
  BY <1>0, <1>1, <1>4, <1>6 DEF StreamStates, base, pos
<1> HIDE DEF r
<1>8. /\ r.base + Len(r.out) <= r.pos /\ r.pos <= remoteLog
      /\ r.consumed <= MaxRemoteLog + r.base + Len(r.out)
  <2>1. Len(r.out) = l + n
    BY <1>6, <1>7
  <2>2. pos <= remoteLog /\ base + (l + n) = pos /\ pos \in Nat
    BY <1>2, <1>3
  <2>3. MaxRemoteLog + base + (l + n) = MaxRemoteLog + r.base + Len(r.out)
    BY <1>7, <2>1
  <2> HIDE DEF l
  <2> QED
    BY <1>4, <1>7, <2>1, <2>2, <2>3
<1>9. StreamOk(r)
  BY <1>0, <1>1, <1>4, <1>7, <1>8 DEF StreamOk, LivePhases
<1>10. RemoteInv'
  BY <1>0, <1>1, <1>7, <1>9, StreamGoes
<1>11. RemoteFeed!Feed(s)
  <2> DEFINE F == [q \in Streams |-> IF At(q, "loop") THEN strm[q].base ELSE -1]
             G == [q \in Streams |-> IF At(q, "loop") THEN strm[q].out ELSE <<>>]
  <2>1. \A q \in Streams: strm'[q] = IF q = s THEN r ELSE strm[q]
    BY <1>1 DEF RemoteInv, Set
  <2>2. F[s] = base /\ G[s] = out
    BY <1>1 DEF At, out, base
  <2>3. G' = [G EXCEPT ![s] = out \o new]
    BY <1>1, <1>7, <2>1 DEF At
  <2>4. F' = F
    BY <1>1, <1>7, <2>1 DEF At, base
  <2>5. new = [i \in 1..n |-> F[s] + Len(G[s]) + i - 1]
    BY <2>2 DEF new
  <2>6. n \in 1..(remoteLog - F[s] - Len(G[s])) /\ F[s] # -1
    <3>1. base \in Nat
      BY <1>2 DEF base
    <3> HIDE DEF F, G
    <3> QED
      BY <1>0, <1>3, <2>2, <3>1
  <2>7. G' = [G EXCEPT ![s] = @ \o [i \in 1..n |-> F[s] + Len(G[s]) + i - 1]]
    BY <2>2, <2>3, <2>5
  <2>8. UNCHANGED <<remoteLog, F>>
    BY <1>1, <2>4
  <2> HIDE DEF F, G
  <2>9. /\ F[s] # -1
        /\ \E k \in 1..(remoteLog - F[s] - Len(G[s])):
             G' = [G EXCEPT ![s] = @ \o [i \in 1..k |-> F[s] + Len(G[s]) + i - 1]]
        /\ UNCHANGED <<remoteLog, F>>
    BY <2>6, <2>7, <2>8
  <2> QED
    BY <2>9 DEF RemoteFeed!Feed, RemoteFeed!Off, F, G
<1> QED
  BY <1>10, <1>11 DEF Fed, RemoteFeed!FeedNext
\* What a probe's answer makes of a stream in its loop.
LEMMA ObserveIs ==
  ASSUME NEW c \in Int, NEW l \in Nat, NEW n \in Nat, l < LagConfirms,
         LagConfirms \in Nat \ {0}
  PROVE  LET o == Observe(c, l, n)
         IN /\ o.consumed \in {c, n} /\ o.lag \in Nat /\ o.lag <= LagConfirms
            /\ ~o.silent => o.lag < LagConfirms
<1>1. CASE c = -1
  BY <1>1 DEF Observe, Unknown
<1>2. CASE c # -1 /\ n <= c
  BY <1>2 DEF Observe, Unknown
<1>3. CASE c # -1 /\ ~(n <= c)
  <2>1. Observe(c, l, n)
          = [consumed |-> c, lag |-> l + 1, silent |-> (l + 1 >= LagConfirms)]
    BY <1>3 DEF Observe, Unknown
  <2> DEFINE q == Observe(c, l, n)
  <2> DEFINE late == (l + 1 >= LagConfirms)
  <2>5. q = [consumed |-> c, lag |-> l + 1, silent |-> late]
    BY <2>1
  <2> HIDE DEF late, q
  <2>2. q.consumed = c /\ q.lag = l + 1 /\ q.silent = late
    BY <2>5
  <2>4. ~q.silent => ~(l + 1 >= LagConfirms)
    BY <2>2, Zenon DEF late
  <2>3. q.lag \in Nat /\ q.lag <= LagConfirms /\ (~q.silent => q.lag < LagConfirms)
    BY <2>2, <2>4
  <2> QED
    BY <2>2, <2>3 DEF q
<1> QED
  BY <1>1, <1>2, <1>3

LEMMA TailProbeKeeps ==
  ASSUME RemoteInv, NEW s \in Streams, ProbeResult(s)
  PROVE  RemoteInv' /\ Fed
<1>0. /\ strm[s] \in StreamStates /\ StreamOk(strm[s]) /\ remoteLog \in Nat
      /\ remoteLog <= MaxRemoteLog /\ MaxRemoteLog \in Nat /\ hostRev \in Nat \ {0}
      /\ LagConfirms \in Nat \ {0}
  BY StreamIs
<1> DEFINE o == ProbeSays(s)
           r == [strm[s] EXCEPT !.probe = NoProbe, !.consumed = o.consumed, !.lag = o.lag]
<1>1. /\ strm[s].phase = "loop" /\ strm[s].probe \in Nat
      /\ Set(s, IF o.silent THEN Recovering(r) ELSE r)
      /\ UNCHANGED <<remoteLog, hostRev, hostLease, edit>>
  BY DEF ProbeResult, At
<1>2. /\ strm[s].consumed \in Int /\ strm[s].lag \in Nat /\ strm[s].lag < LagConfirms
      /\ -1 <= strm[s].consumed /\ strm[s].consumed <= 2 * MaxRemoteLog
      /\ strm[s].probe <= remoteLog /\ strm[s].registered
      /\ strm[s].base + Len(strm[s].out) <= strm[s].pos /\ strm[s].pos <= remoteLog
      /\ strm[s].consumed <= MaxRemoteLog + strm[s].base + Len(strm[s].out)
      /\ strm[s].base \in Nat /\ Len(strm[s].out) \in Nat /\ strm[s].out \in Seq(Nat)
  BY <1>0, <1>1, LenProperties DEF StreamStates, StreamOk, LivePhases
<1>3. /\ o.consumed \in {strm[s].consumed, strm[s].probe} /\ o.lag \in Nat
      /\ o.lag <= LagConfirms /\ (~o.silent => o.lag < LagConfirms)
  BY <1>0, <1>1, <1>2, ObserveIs DEF ProbeSays
<1> HIDE DEF o
<1>4. /\ o.consumed \in Int /\ -1 <= o.consumed /\ o.consumed <= 2 * MaxRemoteLog
      /\ o.consumed <= MaxRemoteLog + strm[s].base + Len(strm[s].out)
  <2>1. CASE o.consumed = strm[s].consumed
    BY <1>2, <2>1
  <2>2. CASE o.consumed = strm[s].probe
    <3> DEFINE x == strm[s].probe
               y == strm[s].base
               z == Len(strm[s].out)
    <3>1. x \in Nat /\ y \in Nat /\ z \in Nat /\ x <= remoteLog
      BY <1>1, <1>2
    <3> HIDE DEF x, y, z
    <3>2. x \in Int /\ -1 <= x /\ x <= 2 * MaxRemoteLog /\ x <= MaxRemoteLog + y + z
      BY <1>0, <3>1
    <3> QED
      BY <2>2, <3>2 DEF x, y, z
  <2> QED
    BY <1>3, <2>1, <2>2
<1>5. /\ r \in StreamStates /\ r.probe = -2 /\ r.consumed = o.consumed /\ r.lag = o.lag
      /\ r.phase = "loop" /\ r.offset = strm[s].offset /\ r.tail = strm[s].tail
      /\ r.writer = strm[s].writer /\ r.registered = strm[s].registered
      /\ r.pos = strm[s].pos /\ r.base = strm[s].base /\ r.out = strm[s].out
  <2>1. NoProbe = -2 /\ -2 \in Int
    BY DEF NoProbe
  <2> QED
    BY <1>0, <1>1, <1>3, <1>4, <2>1 DEF StreamStates
<1> HIDE DEF r
<1>6. /\ r.registered /\ r.writer \in {NoChild, hostRev} /\ -1 <= r.offset
      /\ r.offset <= remoteLog /\ -2 <= r.probe /\ r.probe <= remoteLog
      /\ r.tail \in {NoChild, hostRev}
  BY <1>0, <1>2, <1>5 DEF StreamOk
<1>7. CASE o.silent
  <2>1. /\ Recovering(r) \in StreamStates /\ StreamOk(Recovering(r))
        /\ Recovering(r).phase = "recover"
    BY <1>3, <1>4, <1>5, <1>6, RecoveringIs
  <2>2. Set(s, Recovering(r))
    BY <1>1, <1>7
  <2> QED
    BY <1>1, <1>2, <2>1, <2>2, StreamStops
<1>8. CASE ~o.silent
  <2>1. StreamOk(r)
    BY <1>2, <1>3, <1>4, <1>5, <1>6, <1>8 DEF StreamOk, LivePhases
  <2>2. Set(s, r)
    BY <1>1, <1>8
  <2> QED
    BY <1>1, <1>2, <1>5, <2>1, <2>2, StreamRests
<1> QED
  BY <1>7, <1>8

LEMMA TailKeeps ==
  ASSUME RemoteInv, NEW s \in Streams, TailSteps(s)
  PROVE  RemoteInv' /\ Fed
<1>0. /\ strm[s] \in StreamStates /\ StreamOk(strm[s]) /\ remoteLog \in Nat
      /\ remoteLog <= MaxRemoteLog /\ MaxRemoteLog \in Nat /\ hostRev \in Nat \ {0}
      /\ LagConfirms \in Nat \ {0}
  BY StreamIs
<1>1. CASE TailReads(s)
  <2> DEFINE r == [strm[s] EXCEPT !.pos = remoteLog]
  <2>1. Set(s, r) /\ UNCHANGED <<remoteLog, hostRev, hostLease, edit>>
        /\ strm[s].pos < remoteLog
    BY <1>1 DEF TailReads
  <2>2. /\ r \in StreamStates /\ r.pos = remoteLog /\ r.phase = strm[s].phase
        /\ r.offset = strm[s].offset /\ r.tail = strm[s].tail /\ r.writer = strm[s].writer
        /\ r.registered = strm[s].registered /\ r.input = strm[s].input
        /\ r.base = strm[s].base /\ r.out = strm[s].out /\ r.lag = strm[s].lag
        /\ r.consumed = strm[s].consumed /\ r.probe = strm[s].probe
    BY <1>0 DEF StreamStates
  <2> HIDE DEF r
  <2>3. strm[s].base \in Nat /\ Len(strm[s].out) \in Nat /\ strm[s].pos \in Nat
    BY <1>0, LenProperties DEF StreamStates
  <2>4. StreamOk(r)
    <3>1. /\ strm[s].phase = "loop" => r.base + Len(r.out) <= r.pos
          /\ strm[s].phase = "repaint" => r.base <= r.pos
      <4> DEFINE x == strm[s].pos
                 y == strm[s].base
                 z == Len(strm[s].out)
      <4>1. /\ x \in Nat /\ y \in Nat /\ z \in Nat /\ x < remoteLog
            /\ strm[s].phase = "loop" => y + z <= x
            /\ strm[s].phase = "repaint" => y <= x
        BY <1>0, <2>1, <2>3 DEF StreamOk
      <4>2. r.base = y /\ Len(r.out) = z /\ r.pos = remoteLog
        BY <2>2
      <4> HIDE DEF x, y, z
      <4> QED
        BY <1>0, <4>1, <4>2
    <3>2. r.pos <= remoteLog
      BY <1>0, <2>2
    <3> QED
      BY <1>0, <2>2, <3>1, <3>2 DEF StreamOk
  <2> QED
    BY <2>1, <2>2, <2>4, StreamRests
<1>2. CASE TailBreaks(s)
  <2>1. PICK h \in {"ended", "silent"}: Set(s, [strm[s] EXCEPT !.health = h])
    BY <1>2 DEF TailBreaks
  <2> DEFINE r == [strm[s] EXCEPT !.health = h]
  <2>2. Set(s, r) /\ UNCHANGED <<remoteLog, hostRev, hostLease, edit>>
    BY <1>2, <2>1 DEF TailBreaks
  <2>3. /\ r \in StreamStates /\ r.pos = strm[s].pos /\ r.phase = strm[s].phase
        /\ r.offset = strm[s].offset /\ r.tail = strm[s].tail /\ r.writer = strm[s].writer
        /\ r.registered = strm[s].registered /\ r.input = strm[s].input
        /\ r.base = strm[s].base /\ r.out = strm[s].out /\ r.lag = strm[s].lag
        /\ r.consumed = strm[s].consumed /\ r.probe = strm[s].probe
    BY <1>0 DEF StreamStates
  <2> HIDE DEF r
  <2>4. StreamOk(r)
    BY <1>0, <2>3 DEF StreamOk
  <2> QED
    BY <2>2, <2>3, <2>4, StreamRests
<1>3. CASE TailEnded(s)
  <2>1. /\ strm[s].phase = "loop" /\ Set(s, Recovering(strm[s]))
        /\ UNCHANGED <<remoteLog, hostRev, hostLease, edit>>
    BY <1>3 DEF TailEnded, At
  <2>2. strm[s].registered
    BY <1>0, <2>1 DEF StreamOk, LivePhases
  <2>3. /\ Recovering(strm[s]) \in StreamStates /\ StreamOk(Recovering(strm[s]))
        /\ Recovering(strm[s]).phase = "recover"
    BY <1>0, <2>2, RecoveringIs DEF StreamOk
  <2> QED
    BY <2>1, <2>2, <2>3, StreamStops
<1>4. ASSUME NEW n \in Int, -2 <= n, n <= remoteLog,
             Set(s, [strm[s] EXCEPT !.probe = n]),
             UNCHANGED <<remoteLog, hostRev, hostLease, edit>>
      PROVE  RemoteInv' /\ Fed
  <2> DEFINE r == [strm[s] EXCEPT !.probe = n]
  <2>1. Set(s, r)
    BY <1>4
  <2>3. /\ r \in StreamStates /\ r.pos = strm[s].pos /\ r.phase = strm[s].phase
        /\ r.offset = strm[s].offset /\ r.tail = strm[s].tail /\ r.writer = strm[s].writer
        /\ r.registered = strm[s].registered /\ r.input = strm[s].input
        /\ r.base = strm[s].base /\ r.out = strm[s].out /\ r.lag = strm[s].lag
        /\ r.consumed = strm[s].consumed /\ r.probe = n
    BY <1>0 DEF StreamStates
  <2> HIDE DEF r
  <2>4. StreamOk(r)
    BY <1>0, <1>4, <2>3 DEF StreamOk
  <2> QED
    BY <1>4, <2>1, <2>3, <2>4, StreamRests
<1>5. CASE ProbeStarts(s) \/ ProbeReads(s) \/ ProbeFails(s)
  <2>1. /\ -1 \in Int /\ -2 \in Int /\ remoteLog \in Int /\ -2 <= -1 /\ -1 <= remoteLog
        /\ -2 <= remoteLog
    BY <1>0
  <2>2. /\ UNCHANGED <<remoteLog, hostRev, hostLease, edit>>
        /\ \/ Set(s, [strm[s] EXCEPT !.probe = -1])
           \/ Set(s, [strm[s] EXCEPT !.probe = remoteLog])
           \/ Set(s, [strm[s] EXCEPT !.probe = -2])
    BY <1>5 DEF ProbeStarts, ProbeReads, ProbeFails, ProbeRunning, NoProbe
  <2>3. CASE Set(s, [strm[s] EXCEPT !.probe = -1])
    BY <1>4, <2>1, <2>2, <2>3
  <2>4. CASE Set(s, [strm[s] EXCEPT !.probe = remoteLog])
    BY <1>0, <1>4, <2>1, <2>2, <2>4
  <2>5. CASE Set(s, [strm[s] EXCEPT !.probe = -2])
    BY <1>4, <2>1, <2>2, <2>5
  <2> QED
    BY <2>2, <2>3, <2>4, <2>5
<1> QED
  BY <1>1, <1>2, <1>3, <1>5, ForwardKeeps, TailProbeKeeps DEF TailSteps
LEMMA RecoverKeeps ==
  ASSUME RemoteInv, NEW s \in Streams, Recovers(s)
  PROVE  RemoteInv' /\ Fed
<1>0. /\ strm[s] \in StreamStates /\ StreamOk(strm[s]) /\ remoteLog \in Nat
      /\ remoteLog <= MaxRemoteLog /\ MaxRemoteLog \in Nat /\ hostRev \in Nat \ {0}
      /\ LagConfirms \in Nat \ {0}
  BY StreamIs
<1>r. /\ strm[s].phase \in LivePhases => strm[s].registered
      /\ strm[s].tail \in {NoChild, hostRev} /\ strm[s].writer \in {NoChild, hostRev}
      /\ -1 <= strm[s].offset /\ strm[s].offset <= remoteLog
      /\ -1 <= strm[s].consumed /\ strm[s].consumed <= 2 * MaxRemoteLog
      /\ strm[s].lag <= LagConfirms
      /\ -2 <= strm[s].probe /\ strm[s].probe <= remoteLog
  BY <1>0 DEF StreamOk
<1>c. ASSUME NEW r \in StreamStates, strm[s].phase \in LivePhases,
             r.registered = strm[s].registered, r.tail \in {NoChild, hostRev},
             r.writer = strm[s].writer, r.offset = strm[s].offset,
             r.consumed = strm[s].consumed, r.lag = strm[s].lag,
             Set(s, Closing(r)), UNCHANGED <<remoteLog, hostRev, hostLease, edit>>
      PROVE  RemoteInv' /\ Fed
  <2>1. /\ Closing(r) \in StreamStates /\ StreamOk(Closing(r))
        /\ Closing(r).phase = "closing"
    BY <1>r, <1>c, ClosingIs
  <2> QED
    BY <1>r, <1>c, <2>1, StreamStops
<1>1. CASE RecoverSpawns(s)
  <2> DEFINE t == WithTail(strm[s], remoteLog)
             r == [t EXCEPT !.phase = "repaint"]
  <2>1. /\ strm[s].phase = "recover" /\ hostLease = "free" /\ Set(s, r)
        /\ UNCHANGED <<remoteLog, hostRev, hostLease, edit>>
    BY <1>1 DEF RecoverSpawns, At, LeaseFree
  <2>2. <<>> \in Seq(Nat) /\ "repaint" \in StreamPhases
    BY EmptySeq DEF StreamPhases, LivePhases
  <2>3. /\ t \in StreamStates /\ t.tail = hostRev /\ t.pos = remoteLog /\ t.base = remoteLog
        /\ t.out = <<>> /\ t.registered = strm[s].registered /\ t.writer = strm[s].writer
        /\ t.offset = strm[s].offset /\ t.consumed = strm[s].consumed
        /\ t.lag = strm[s].lag /\ t.probe = strm[s].probe
    BY <1>0, <2>2 DEF WithTail, StreamStates
  <2> HIDE DEF t
  <2>4. /\ r \in StreamStates /\ r.phase = "repaint"
        /\ r.tail = hostRev /\ r.pos = remoteLog /\ r.base = remoteLog
        /\ r.out = <<>> /\ r.registered = strm[s].registered /\ r.writer = strm[s].writer
        /\ r.offset = strm[s].offset /\ r.consumed = strm[s].consumed
        /\ r.lag = strm[s].lag /\ r.probe = strm[s].probe
    BY <2>2, <2>3 DEF StreamStates
  <2> HIDE DEF r
  <2>5. strm[s].registered
    BY <1>r, <2>1 DEF LivePhases
  <2>6. StreamOk(r)
    BY <1>0, <1>r, <2>4, <2>5 DEF StreamOk, LivePhases
  <2> QED
    BY <2>1, <2>4, <2>5, <2>6, StreamStops
<1>2. CASE RecoverFails(s)
  <2>1. /\ strm[s].phase = "recover"
        /\ UNCHANGED <<remoteLog, hostRev, hostLease, edit>>
        /\ \/ Set(s, [strm[s] EXCEPT !.tries = @ + 1])
           \/ Set(s, Closing(strm[s]))
    BY <1>2 DEF RecoverFails, At
  <2>2. strm[s].phase \in LivePhases
    BY <2>1 DEF LivePhases
  <2>3. CASE Set(s, Closing(strm[s]))
    BY <1>0, <1>r, <1>c, <2>1, <2>2, <2>3
  <2>4. CASE Set(s, [strm[s] EXCEPT !.tries = @ + 1])
    <3> DEFINE r == [strm[s] EXCEPT !.tries = @ + 1]
    <3>1. strm[s].tries + 1 \in Nat
      BY <1>0 DEF StreamStates
    <3>2. /\ r \in StreamStates /\ r.phase = strm[s].phase /\ r.tail = strm[s].tail
          /\ r.pos = strm[s].pos /\ r.base = strm[s].base /\ r.input = strm[s].input
          /\ r.out = strm[s].out /\ r.registered = strm[s].registered
          /\ r.writer = strm[s].writer
          /\ r.offset = strm[s].offset /\ r.consumed = strm[s].consumed
          /\ r.lag = strm[s].lag /\ r.probe = strm[s].probe
      BY <1>0, <3>1 DEF StreamStates
    <3>3. Set(s, r)
      BY <2>4
    <3> HIDE DEF r
    <3>4. StreamOk(r)
      BY <1>0, <3>2 DEF StreamOk
    <3> QED
      BY <2>1, <3>2, <3>3, <3>4, StreamRests
  <2> QED
    BY <2>1, <2>3, <2>4
<1>3. CASE RecoverCancelled(s)
  <2>1. /\ strm[s].phase \in LivePhases /\ Set(s, Closing(strm[s]))
        /\ UNCHANGED <<remoteLog, hostRev, hostLease, edit>>
    BY <1>3 DEF RecoverCancelled, At, LivePhases
  <2> QED
    BY <1>0, <1>r, <1>c, <2>1
<1>4. CASE RepaintSent(s)
  <2> DEFINE in == IF strm[s].input = "off" THEN "start" ELSE strm[s].input
             r == [strm[s] EXCEPT !.phase = "loop", !.consumed = strm[s].base,
                                  !.lag = 0, !.tries = 0, !.input = in]
  <2>1. /\ strm[s].phase = "repaint" /\ Set(s, r)
        /\ UNCHANGED <<remoteLog, hostRev, hostLease, edit>>
    BY <1>4 DEF RepaintSent, At
  <2>2. /\ strm[s].out = <<>> /\ strm[s].base <= strm[s].pos /\ strm[s].pos <= remoteLog
        /\ strm[s].base \in Nat /\ strm[s].pos \in Nat /\ strm[s].registered
        /\ in \in {"off", "start", "run", "done"} /\ "loop" \in StreamPhases
        /\ strm[s].base \in Int
    BY <1>0, <2>1 DEF StreamOk, StreamStates, StreamPhases, LivePhases
  <2> HIDE DEF in
  <2>3. /\ r \in StreamStates /\ r.phase = "loop" /\ r.tail = strm[s].tail
        /\ r.pos = strm[s].pos /\ r.base = strm[s].base
        /\ r.out = strm[s].out /\ r.registered = strm[s].registered
        /\ r.writer = strm[s].writer
        /\ r.offset = strm[s].offset /\ r.consumed = strm[s].base
        /\ r.lag = 0 /\ r.probe = strm[s].probe
    BY <1>0, <2>2 DEF StreamStates
  <2> HIDE DEF r
  <2>4. Len(r.out) = 0
    BY <2>2, <2>3, EmptySeq
  <2>5. StreamOk(r)
    <3>1. /\ r.base + Len(r.out) <= r.pos /\ r.pos <= remoteLog
          /\ r.consumed <= MaxRemoteLog + r.base + Len(r.out)
          /\ -1 <= r.consumed /\ r.consumed <= 2 * MaxRemoteLog
      BY <1>0, <2>2, <2>3, <2>4
    <3> QED
      BY <1>0, <1>r, <2>2, <2>3, <3>1 DEF StreamOk, LivePhases
  <2>6. RemoteInv'
    BY <2>1, <2>2, <2>3, <2>5, StreamGoes
  <2>7. r.base \in 0..remoteLog
    BY <1>0, <2>2, <2>3
  <2>8. RemoteFeed!FeedNext
    BY <2>1, <2>2, <2>3, <2>7, FeedStarts
  <2> QED
    BY <2>6, <2>8 DEF Fed
<1>5. CASE RepaintFails(s)
  <2> DEFINE r == [strm[s] EXCEPT !.tail = NoChild]
  <2>1. /\ strm[s].phase \in LivePhases /\ Set(s, Closing(r))
        /\ UNCHANGED <<remoteLog, hostRev, hostLease, edit>>
    BY <1>5 DEF RepaintFails, At, LivePhases
  <2>2. /\ r \in StreamStates /\ r.registered = strm[s].registered /\ r.tail = NoChild
        /\ r.writer = strm[s].writer /\ r.offset = strm[s].offset
        /\ r.consumed = strm[s].consumed /\ r.lag = strm[s].lag
    BY <1>0 DEF StreamStates, NoChild
  <2> HIDE DEF r
  <2> QED
    BY <1>0, <1>c, <2>1, <2>2
<1> QED
  BY <1>1, <1>2, <1>3, <1>4, <1>5 DEF Recovers

LEMMA InputKeeps ==
  ASSUME RemoteInv, NEW s \in Streams, InputSteps(s)
  PROVE  RemoteInv' /\ Fed
<1>0. /\ strm[s] \in StreamStates /\ StreamOk(strm[s]) /\ hostRev \in Nat
  BY StreamIs
<1>1. strm[s].input \in {"start", "run"}
      /\ UNCHANGED <<remoteLog, hostRev, hostLease, edit>>
  BY DEF InputSteps, WriterSpawns, WriterFails, InputStops
<1>2. strm[s].registered
  BY <1>0, <1>1 DEF StreamOk
<1>3. PICK in \in {"run", "done"}, w \in {NoChild, hostRev}:
        Set(s, [strm[s] EXCEPT !.input = in, !.writer = w])
  BY DEF InputSteps, WriterSpawns, WriterFails, InputStops
<1> DEFINE r == [strm[s] EXCEPT !.input = in, !.writer = w]
<1>4. /\ r \in StreamStates /\ r.phase = strm[s].phase /\ r.tail = strm[s].tail
      /\ r.pos = strm[s].pos /\ r.base = strm[s].base
      /\ r.out = strm[s].out /\ r.registered = strm[s].registered
      /\ r.writer = w
      /\ r.offset = strm[s].offset /\ r.consumed = strm[s].consumed
      /\ r.lag = strm[s].lag /\ r.probe = strm[s].probe
  <2>1. in \in {"off", "start", "run", "done"} /\ w \in Nat
    BY <1>0 DEF NoChild
  <2> QED
    BY <1>0, <2>1 DEF StreamStates
<1>5. Set(s, r)
  BY <1>3
<1> HIDE DEF r
<1>6. StreamOk(r)
  BY <1>0, <1>2, <1>4 DEF StreamOk
<1> QED
  BY <1>1, <1>2, <1>4, <1>5, <1>6, StreamRests

LEMMA EndKeeps ==
  ASSUME RemoteInv, NEW s \in Streams, Ends(s)
  PROVE  RemoteInv' /\ Fed
<1>0. /\ strm[s] \in StreamStates /\ StreamOk(strm[s]) /\ remoteLog \in Nat
  BY StreamIs
<1>1. CASE LoopBreaks(s)
  <2>1. /\ strm[s].phase = "loop" /\ Set(s, Closing(strm[s]))
        /\ UNCHANGED <<remoteLog, hostRev, hostLease, edit>>
    BY <1>1 DEF LoopBreaks, At
  <2>2. strm[s].registered
    BY <1>0, <2>1 DEF StreamOk, LivePhases
  <2>3. /\ Closing(strm[s]) \in StreamStates /\ StreamOk(Closing(strm[s]))
        /\ Closing(strm[s]).phase = "closing"
    BY <1>0, <2>2, ClosingIs DEF StreamOk
  <2> QED
    BY <2>1, <2>2, <2>3, StreamStops
<1>2. CASE TailReaped(s)
  <2> DEFINE r == [strm[s] EXCEPT !.tail = NoChild]
  <2>1. /\ strm[s].phase = "closing" /\ Set(s, r)
        /\ UNCHANGED <<remoteLog, hostRev, hostLease, edit>>
    BY <1>2 DEF TailReaped, At
  <2>2. /\ r \in StreamStates /\ r.phase = strm[s].phase /\ r.tail = NoChild
        /\ r.pos = strm[s].pos /\ r.base = strm[s].base
        /\ r.out = strm[s].out /\ r.registered = strm[s].registered
        /\ r.writer = strm[s].writer /\ r.input = strm[s].input
        /\ r.offset = strm[s].offset /\ r.consumed = strm[s].consumed
        /\ r.lag = strm[s].lag /\ r.probe = strm[s].probe
    BY <1>0 DEF StreamStates, NoChild
  <2> HIDE DEF r
  <2>3. StreamOk(r)
    BY <1>0, <2>1, <2>2 DEF StreamOk, LivePhases
  <2>4. r.phase \notin {"loop", "snap"} /\ (r.registered => strm[s].registered)
    BY <2>1, <2>2
  <2> QED
    BY <2>1, <2>2, <2>3, <2>4, StreamStops
<1>3. CASE Finish(s)
  <2>1. /\ strm[s].phase = "closing" /\ Set(s, ClosedStream)
        /\ edit' = [edit EXCEPT !.awaiting = @ \ {s}]
        /\ UNCHANGED <<remoteLog, hostRev, hostLease>>
    BY <1>3 DEF Finish, At
  <2>2. /\ ClosedStream \in StreamStates /\ StreamOk(ClosedStream)
        /\ ClosedStream.phase = "off" /\ ~ClosedStream.registered
    BY <1>0, ClosedStreamOk DEF ClosedStream
  <2>3. /\ DOMAIN edit' = {"phase", "awaiting"} /\ edit'.phase = edit.phase
        /\ edit'.awaiting = edit.awaiting \ {s}
    BY <2>1 DEF RemoteInv
  <2>4. /\ strm' \in [Streams -> StreamStates] /\ strm'[s] = ClosedStream
        /\ \A q \in Streams: q # s => strm'[q] = strm[q]
    BY <2>1, <2>2 DEF RemoteInv, Set
  <2>5. \A q \in Streams: StreamOk(strm'[q])
    BY <2>2, <2>4 DEF RemoteInv
  <2>6. \A q \in Streams: StreamOk(strm[q])'
    BY <2>1, <2>5 DEF StreamOk
  <2>7. RemoteInv'
    <3>1. \A q \in Streams: strm'[q].phase = "snap" => hostLease' = q
      BY <2>1, <2>2, <2>4 DEF RemoteInv
    <3>2. ASSUME edit'.phase = "draining"
          PROVE  /\ hostLease' = "edit" /\ hostRev' < MaxRev
                 /\ \A q \in Streams: strm'[q].registered => q \in edit'.awaiting
      BY <2>1, <2>2, <2>3, <2>4, <3>2 DEF RemoteInv
    <3> QED
      BY <2>1, <2>3, <2>4, <2>6, <3>1, <3>2 DEF RemoteInv
  <2>8. RemoteFeed!FeedNext
    BY <2>1, <2>2, FeedStops
  <2> QED
    BY <2>7, <2>8 DEF Fed
<1> QED
  BY <1>1, <1>2, <1>3 DEF Ends
LEMMA EditKeeps ==
  ASSUME RemoteInv, EditBegins \/ EditCommits \/ EditTimesOut
  PROVE  RemoteInv' /\ Fed
<1>1. CASE EditBegins
  <2> DEFINE live == {s \in Streams: strm[s].registered}
  <2>1. /\ hostLease = "free" /\ hostRev < MaxRev /\ hostLease' = "edit"
        /\ edit' = [phase |-> "draining", awaiting |-> live]
        /\ strm' = [s \in Streams |-> IF s \in live THEN [strm[s] EXCEPT !.cancel = TRUE]
                                                  ELSE strm[s]]
        /\ UNCHANGED <<remoteLog, hostRev>>
    BY <1>1 DEF EditBegins, LeaseFree
  <2>2. ASSUME NEW s \in Streams
        PROVE  /\ strm'[s] \in StreamStates /\ StreamOk(strm'[s])
               /\ strm'[s].phase = strm[s].phase /\ strm'[s].base = strm[s].base
               /\ strm'[s].out = strm[s].out /\ strm'[s].registered = strm[s].registered
    <3> DEFINE r == [strm[s] EXCEPT !.cancel = TRUE]
    <3>0. strm[s] \in StreamStates /\ StreamOk(strm[s])
      BY StreamIs
    <3>1. /\ r \in StreamStates /\ r.phase = strm[s].phase /\ r.tail = strm[s].tail
          /\ r.pos = strm[s].pos /\ r.base = strm[s].base /\ r.input = strm[s].input
          /\ r.out = strm[s].out /\ r.registered = strm[s].registered
          /\ r.writer = strm[s].writer
          /\ r.offset = strm[s].offset /\ r.consumed = strm[s].consumed
          /\ r.lag = strm[s].lag /\ r.probe = strm[s].probe
      BY <3>0 DEF StreamStates
    <3>2. strm'[s] = r \/ strm'[s] = strm[s]
      BY <2>1
    <3> HIDE DEF r
    <3>3. StreamOk(r)
      BY <3>0, <3>1 DEF StreamOk
    <3> QED
      BY <3>0, <3>1, <3>2, <3>3
  <2>3. strm' \in [Streams -> StreamStates]
    BY <2>1, <2>2
  <2>4. \A s \in Streams: StreamOk(strm[s])'
    BY <2>1, <2>2 DEF StreamOk
  <2>5. \A s \in Streams: strm'[s].phase # "snap"
    BY <2>1, <2>2, RemoteAssumption DEF RemoteInv
  <2>6. RemoteInv'
    <3>1. /\ DOMAIN edit' = {"phase", "awaiting"} /\ edit'.phase = "draining"
          /\ edit'.awaiting = live
      BY <2>1
    <3>2. \A s \in Streams: strm'[s].registered => s \in live
      BY <2>2
    <3>3. live \subseteq Streams
      OBVIOUS
    <3> HIDE DEF live
    <3> QED
      BY <2>1, <2>3, <2>4, <2>5, <3>1, <3>2, <3>3 DEF RemoteInv
  <2>7. UNCHANGED RemoteFeed!feedVars
    BY <2>1, <2>2 DEF RemoteFeed!feedVars, At
  <2> QED
    BY <2>6, <2>7 DEF Fed
<1>2. CASE EditCommits
  <2>1. /\ edit.phase = "draining" /\ edit.awaiting = {} /\ hostRev' = hostRev + 1
        /\ hostLease' = "free" /\ edit' = [edit EXCEPT !.phase = "idle"]
        /\ UNCHANGED <<remoteLog, strm>>
    BY <1>2 DEF EditCommits
  <2>2. \A s \in Streams: ~strm[s].registered
    BY <2>1 DEF RemoteInv
  <2>3. \A s \in Streams: strm[s].tail = NoChild /\ strm[s].writer = NoChild
    BY <2>2 DEF RemoteInv, StreamOk
  <2>4. \A s \in Streams: StreamOk(strm[s])'
    BY <2>1, <2>3 DEF RemoteInv, StreamOk
  <2>5. hostRev' \in 1..MaxRev
    BY <2>1, RemoteAssumption DEF RemoteInv
  <2>6. /\ DOMAIN edit' = {"phase", "awaiting"} /\ edit'.phase = "idle"
        /\ edit'.awaiting = {}
    BY <2>1 DEF RemoteInv
  <2>7. \A s \in Streams: strm[s].phase # "snap"
    BY <2>1, RemoteAssumption DEF RemoteInv
  <2>8. RemoteInv'
    BY <2>1, <2>4, <2>5, <2>6, <2>7 DEF RemoteInv
  <2>9. UNCHANGED RemoteFeed!feedVars
    BY <2>1 DEF RemoteFeed!feedVars, At
  <2> QED
    BY <2>8, <2>9 DEF Fed
<1>3. CASE EditTimesOut
  <2>1. /\ edit.phase = "draining" /\ hostLease' = "free"
        /\ edit' = [phase |-> "idle", awaiting |-> {}]
        /\ UNCHANGED <<remoteLog, hostRev, strm>>
    BY <1>3 DEF EditTimesOut
  <2>2. \A s \in Streams: strm[s].phase # "snap"
    BY <2>1, RemoteAssumption DEF RemoteInv
  <2>3. \A s \in Streams: StreamOk(strm[s])'
    BY <2>1 DEF RemoteInv, StreamOk
  <2>4. RemoteInv'
    BY <2>1, <2>2, <2>3 DEF RemoteInv
  <2>5. UNCHANGED RemoteFeed!feedVars
    BY <2>1 DEF RemoteFeed!feedVars, At
  <2> QED
    BY <2>4, <2>5 DEF Fed
<1> QED
  BY <1>1, <1>2, <1>3

LEMMA WriteKeeps ==
  ASSUME RemoteInv, RemoteWrites
  PROVE  RemoteInv' /\ Fed
<1>1. /\ remoteLog < MaxRemoteLog /\ remoteLog' = remoteLog + 1
      /\ UNCHANGED <<hostRev, hostLease, edit, strm>>
  BY DEF RemoteWrites
<1>2. remoteLog \in Nat /\ MaxRemoteLog \in Nat
  BY RemoteAssumption DEF RemoteInv
<1>3. ASSUME NEW s \in Streams PROVE StreamOk(strm[s])'
  <2>1. strm[s] \in StreamStates /\ StreamOk(strm[s])
    BY DEF RemoteInv
  <2>2. /\ strm[s].offset \in Int /\ strm[s].pos \in Nat /\ strm[s].probe \in Int
    BY <2>1 DEF StreamStates
  <2> QED
    BY <1>1, <1>2, <2>1, <2>2 DEF StreamOk
<1>4. remoteLog' \in 0..MaxRemoteLog
  BY <1>1, <1>2
<1>5. RemoteInv'
  BY <1>1, <1>3, <1>4 DEF RemoteInv
<1>6. RemoteFeed!Write
  BY <1>1, <1>2 DEF RemoteFeed!Write, At
<1> QED
  BY <1>5, <1>6 DEF Fed, RemoteFeed!FeedNext

LEMMA RemoteSteps ==
  ASSUME RemoteInv, [RemoteNext]_remoteVars
  PROVE  RemoteInv' /\ Fed
<1>1. CASE UNCHANGED remoteVars
  <2>1. UNCHANGED <<remoteLog, hostRev, hostLease, edit, strm>>
    BY <1>1 DEF remoteVars
  <2>2. RemoteInv'
    BY <2>1 DEF RemoteInv, StreamOk
  <2>3. UNCHANGED RemoteFeed!feedVars
    BY <2>1 DEF RemoteFeed!feedVars, At
  <2> QED
    BY <2>2, <2>3 DEF Fed
<1> QED
  BY <1>1, WriteKeeps, EditKeeps, ConnectKeeps, TailKeeps, RecoverKeeps, InputKeeps, EndKeeps
  DEF RemoteNext

LEMMA RemoteSafe == RemoteInv => RemoteTypeOK /\ NoStaleChild
<1> SUFFICES ASSUME RemoteInv PROVE RemoteTypeOK /\ NoStaleChild
  OBVIOUS
<1>1. ASSUME NEW s \in Streams
      PROVE  /\ strm[s].phase \in
                   {"off", "snap", "ready", "loop", "recover", "repaint", "closing"}
             /\ strm[s].tail \in 0..MaxRev /\ strm[s].writer \in 0..MaxRev
             /\ strm[s].health \in {"ok", "ended", "silent"}
             /\ strm[s].consumed \in -1..(2 * MaxRemoteLog)
             /\ strm[s].lag \in 0..LagConfirms
             /\ strm[s].probe \in -2..MaxRemoteLog
             /\ {strm[s].tail, strm[s].writer} \subseteq {NoChild, hostRev}
  <2>1. /\ strm[s] \in StreamStates /\ StreamOk(strm[s]) /\ remoteLog \in Nat
        /\ remoteLog <= MaxRemoteLog /\ MaxRemoteLog \in Nat
        /\ hostRev \in 1..MaxRev /\ MaxRev \in Nat /\ LagConfirms \in Nat
    BY StreamIs, RemoteAssumption DEF RemoteInv
  <2>2. /\ strm[s].phase \in StreamPhases /\ strm[s].health \in {"ok", "ended", "silent"}
        /\ strm[s].consumed \in Int /\ strm[s].lag \in Nat /\ strm[s].probe \in Int
    BY <2>1 DEF StreamStates
  <2>3. /\ strm[s].tail \in {0, hostRev} /\ strm[s].writer \in {0, hostRev}
        /\ -1 <= strm[s].consumed /\ strm[s].consumed <= 2 * MaxRemoteLog
        /\ strm[s].lag <= LagConfirms
        /\ -2 <= strm[s].probe /\ strm[s].probe <= remoteLog
    BY <2>1 DEF StreamOk, NoChild
  <2>4. strm[s].tail \in 0..MaxRev /\ strm[s].writer \in 0..MaxRev
    BY <2>1, <2>3
  <2>5. /\ strm[s].consumed \in -1..(2 * MaxRemoteLog)
        /\ strm[s].lag \in 0..LagConfirms /\ strm[s].probe \in -2..MaxRemoteLog
    BY <2>1, <2>2, <2>3
  <2> QED
    BY <2>2, <2>3, <2>4, <2>5 DEF StreamPhases, LivePhases, NoChild
<1> QED
  BY <1>1 DEF RemoteInv, RemoteTypeOK, NoStaleChild

-------------------------------------------------------------------------------
(* SshControl: the pooled connections of a host.                           *)

Pcs == {"idle", "queued", "legacy", "probe", "interactive", "generation", "rearm",
        "ensure", "reset", "close", "store", "attempt", "replay", "ran"}
OpRecords == [pc: Pcs, rev: 0..MaxHostRev, gen: Nat, runs: {0, 1}]
MasterRecords == [gen: Nat, fwd: SUBSET (1..MaxBoots)]

RowOK ==
  /\ DOMAIN row = {"saved", "rev"} /\ row.rev \in 1..MaxHostRev
  /\ lastGen \in Nat /\ boots \in 1..MaxBoots
  /\ hostLock \in Actors \cup {NoOne}

OpsOK ==
  /\ op \in [Actors -> OpRecords]
  /\ op["exec"].pc # "ran" => op["exec"].runs = 0

\* Every live master is one of the saved row.
MastersOK ==
  /\ master \in [Roles -> [Revs -> MasterRecords]]
  /\ \A v \in Revs: /\ master["interactive"][v].gen <= lastGen
                    /\ master["streaming"][v].gen <= 1
                    /\ master["interactive"][v].gen = 0
                         => master["interactive"][v].fwd = {}
  /\ \A r \in Roles, v \in Revs: MasterUp(r, v) => row.saved /\ v = row.rev

\* Forwards that are remembered are this daemon's, and there.
TunnelsOK ==
  /\ tunnels \subseteq [gen: 1..lastGen, mac: {boots}]
  /\ \A t \in tunnels, v \in Revs:
       t.gen = master["interactive"][v].gen => boots \in master["interactive"][v].fwd
  /\ bootPass = "reset" =>
       \A v \in Revs: master["interactive"][v].fwd \subseteq {boots}

\* Whoever holds the lock works with the saved row; an edit that has closed the
\* masters finds none, and what is armed is armed on the generation checked.
HolderOK ==
  hostLock # NoOne =>
    /\ row.saved /\ op[hostLock].rev = row.rev
    /\ op[hostLock].pc = "store" => \A r \in Roles, v \in Revs: ~MasterUp(r, v)
    /\ op[hostLock].pc = "rearm" =>
         /\ op[hostLock].gen \in 1..lastGen
         /\ master["interactive"][row.rev].gen \in {0, op[hostLock].gen}

SshInv == RowOK /\ OpsOK /\ MastersOK /\ TunnelsOK /\ HolderOK

LEMMA SshStarts == SshInit => SshInv
<1> SUFFICES ASSUME SshInit PROVE SshInv
  OBVIOUS
<1>1. /\ MaxHostRev \in Nat \ {0} /\ MaxBoots \in Nat \ {0}
      /\ 1 \in 1..MaxHostRev /\ 1 \in 1..MaxBoots /\ 0 \in 0..MaxHostRev
  BY SshAssumption
<1>2. RowOK
  BY <1>1 DEF SshInit, RowOK
<1>3. IdleOp \in OpRecords
  BY <1>1 DEF IdleOp, OpRecords, Pcs
<1>4. OpsOK
  <2>1. op = [a \in Actors |-> IdleOp] /\ "exec" \in Actors
    BY DEF SshInit, Actors
  <2>2. op["exec"] = IdleOp
    BY <2>1
  <2> QED
    BY <1>3, <2>1, <2>2 DEF OpsOK, IdleOp
<1>5. Dead \in MasterRecords /\ Dead.gen = 0 /\ Dead.fwd = {}
  BY DEF Dead, MasterRecords
<1>6. master \in [Roles -> [Revs -> MasterRecords]]
      /\ \A r \in Roles, v \in Revs: master[r][v] = Dead
  BY <1>5 DEF SshInit
<1>7. MastersOK
  BY <1>5, <1>6 DEF SshInit, MastersOK, MasterUp, Roles
<1>8. TunnelsOK
  BY DEF SshInit, TunnelsOK
<1> QED
  BY <1>2, <1>4, <1>7, <1>8 DEF SshInit, SshInv, HolderOK

\* The record of one actor changes.
LEMMA OpMoves ==
  ASSUME OpsOK, NEW a \in Actors, NEW rec \in OpRecords,
         a = "exec" /\ rec.pc # "ran" => rec.runs = 0,
         op' = [op EXCEPT ![a] = rec]
  PROVE  OpsOK' /\ op'[a] = rec
<1>1. op' \in [Actors -> OpRecords] /\ op'[a] = rec
      /\ \A b \in Actors \ {a}: op'[b] = op[b]
  BY DEF OpsOK
<1>2. "exec" \in Actors
  BY DEF Actors
<1> QED
  BY <1>1, <1>2 DEF OpsOK

\* An actor goes on to another place.
LEMMA OpGoes ==
  ASSUME OpsOK, NEW a \in Actors, NEW p \in Pcs,
         op[a].pc # "ran", p # "ran",
         op' = [op EXCEPT ![a].pc = p]
  PROVE  /\ OpsOK'
         /\ op'[a].pc = p /\ op'[a].rev = op[a].rev /\ op'[a].gen = op[a].gen
<1> DEFINE rec == [op[a] EXCEPT !.pc = p]
<1>1. op[a] \in OpRecords
  BY DEF OpsOK
<1>2. /\ rec \in OpRecords /\ rec.pc = p /\ rec.rev = op[a].rev
      /\ rec.gen = op[a].gen /\ rec.runs = op[a].runs
  BY <1>1 DEF OpRecords
<1>3. op' = [op EXCEPT ![a] = rec]
  OBVIOUS
<1>4. a = "exec" => rec.runs = 0
  BY <1>2 DEF OpsOK
<1> HIDE DEF rec
<1> QED
  BY <1>2, <1>3, <1>4, OpMoves

LEMMA OpEnds ==
  ASSUME OpsOK, NEW a \in Actors, EndOp(a)
  PROVE  OpsOK' /\ hostLock' = NoOne
<1>1. IdleOp \in OpRecords /\ IdleOp.runs = 0
  BY SshAssumption DEF IdleOp, OpRecords, Pcs
<1> QED
  BY <1>1, OpMoves DEF EndOp

LEMMA DeadMaster ==
  Dead \in MasterRecords /\ Dead.gen = 0 /\ Dead.fwd = {}
BY DEF Dead, MasterRecords

\* A master is replaced by another state of it.
LEMMA MasterSet ==
  ASSUME MastersOK, NEW r \in Roles, NEW v \in Revs, NEW m \in MasterRecords,
         master' = [master EXCEPT ![r][v] = m]
  PROVE  /\ master' \in [Roles -> [Revs -> MasterRecords]]
         /\ master'[r][v] = m
         /\ \A q \in Roles, u \in Revs:
              q # r \/ u # v => master'[q][u] = master[q][u]
BY DEF MastersOK

\* A command opens the master that its socket path lacks.
LEMMA MasterOpens ==
  ASSUME RowOK, MastersOK, TunnelsOK, NEW r \in Roles, row.saved,
         OpenMaster(r, row.rev), UNCHANGED <<row, tunnels, boots, bootPass>>
  PROVE  MastersOK' /\ TunnelsOK' /\ lastGen' \in Nat /\ lastGen <= lastGen'
<1> DEFINE m == [gen |-> IF r = "interactive" THEN lastGen + 1 ELSE 1, fwd |-> {}]
<1>1. /\ row.rev \in Revs /\ lastGen \in Nat
      /\ lastGen' = IF r = "interactive" THEN lastGen + 1 ELSE lastGen
  BY DEF RowOK, Revs, OpenMaster
<1>2. m \in MasterRecords /\ m.fwd = {}
      /\ m.gen = IF r = "interactive" THEN lastGen + 1 ELSE 1
  BY <1>1 DEF MasterRecords
<1>3. master' = [master EXCEPT ![r][row.rev] = m]
  BY DEF OpenMaster
<1> HIDE DEF m
<1>4. /\ master' \in [Roles -> [Revs -> MasterRecords]]
      /\ master'[r][row.rev] = m
      /\ \A q \in Roles, u \in Revs:
           q # r \/ u # row.rev => master'[q][u] = master[q][u]
  BY <1>1, <1>2, <1>3 DEF MastersOK
<1>5. r = "interactive" \/ r = "streaming"
  BY DEF Roles
<1>6. \A v \in Revs: /\ master["interactive"][v].gen <= lastGen
                     /\ master["streaming"][v].gen <= 1
                     /\ master["interactive"][v].gen \in Nat
                     /\ master["streaming"][v].gen \in Nat
                     /\ master["interactive"][v].gen = 0
                          => master["interactive"][v].fwd = {}
  BY DEF MastersOK, MasterRecords, Roles
<1>7. \A v \in Revs: /\ master'["interactive"][v].gen <= lastGen'
                     /\ master'["streaming"][v].gen <= 1
                     /\ master'["interactive"][v].gen = 0
                          => master'["interactive"][v].fwd = {}
  <2> TAKE v \in Revs
  <2>1. CASE r = "interactive"
    BY <1>1, <1>2, <1>4, <1>6, <2>1 DEF Roles
  <2>2. CASE r = "streaming"
    BY <1>1, <1>2, <1>4, <1>6, <2>2 DEF Roles
  <2> QED
    BY <1>5, <2>1, <2>2
<1>8. MastersOK'
  <2>1. \A q \in Roles, v \in Revs:
          master'[q][v].gen # 0 => row.saved /\ v = row.rev
    BY <1>4 DEF MastersOK, MasterUp
  <2> QED
    BY <1>4, <1>7, <2>1 DEF MastersOK, MasterUp
<1>9. TunnelsOK'
  <2>1. tunnels \subseteq [gen: 1..lastGen, mac: {boots}]
    BY DEF TunnelsOK
  <2>2. tunnels \subseteq [gen: 1..lastGen', mac: {boots}]
    BY <1>1, <2>1
  <2>3. ASSUME NEW t \in tunnels, NEW v \in Revs,
               t.gen = master'["interactive"][v].gen
        PROVE  boots \in master'["interactive"][v].fwd
    <3>1. t.gen \in 1..lastGen
      BY <2>1
    <3>2. ~(r = "interactive" /\ v = row.rev)
      BY <1>1, <1>2, <1>4, <2>3, <3>1
    <3>3. master'["interactive"][v] = master["interactive"][v]
      BY <1>4, <3>2 DEF Roles
    <3> QED
      BY <2>3, <3>3 DEF TunnelsOK
  <2>4. ASSUME bootPass = "reset", NEW v \in Revs
        PROVE  master'["interactive"][v].fwd \subseteq {boots}
    BY <1>2, <1>4, <2>4 DEF TunnelsOK, Roles
  <2> QED
    BY <2>2, <2>3, <2>4 DEF TunnelsOK
<1> QED
  BY <1>1, <1>8, <1>9
\* Masters exit, with what they forwarded.
LEMMA MastersExit ==
  ASSUME RowOK, MastersOK, TunnelsOK,
         master' \in [Roles -> [Revs -> MasterRecords]],
         \A r \in Roles, v \in Revs: master'[r][v] \in {master[r][v], Dead},
         UNCHANGED <<row, lastGen, boots>>, tunnels' \in {tunnels, {}},
         bootPass' = bootPass \/ \A v \in Revs: master'["interactive"][v].fwd = {}
  PROVE  MastersOK' /\ TunnelsOK'
<1>1. \A v \in Revs: /\ master["interactive"][v].gen <= lastGen
                     /\ master["streaming"][v].gen <= 1
                     /\ master["interactive"][v].gen = 0
                          => master["interactive"][v].fwd = {}
  BY DEF MastersOK
<1>2. /\ \A v \in Revs: master'["interactive"][v] \in {master["interactive"][v], Dead}
      /\ \A v \in Revs: master'["streaming"][v] \in {master["streaming"][v], Dead}
  BY DEF Roles
<1>3. MastersOK'
  <2>1. \A v \in Revs: /\ master'["interactive"][v].gen <= lastGen
                       /\ master'["streaming"][v].gen <= 1
                       /\ master'["interactive"][v].gen = 0
                            => master'["interactive"][v].fwd = {}
    <3> TAKE v \in Revs
    <3>1. CASE master'["interactive"][v] = Dead
      BY <1>1, <1>2, <3>1, DeadMaster DEF RowOK
    <3>2. CASE master'["interactive"][v] = master["interactive"][v]
      BY <1>1, <1>2, <3>2, DeadMaster DEF RowOK
    <3> QED
      BY <1>2, <3>1, <3>2
  <2>2. \A r \in Roles, v \in Revs: MasterUp(r, v)' => row.saved /\ v = row.rev
    <3> TAKE r \in Roles, v \in Revs
    <3>1. MasterUp(r, v)' => MasterUp(r, v)
      BY DeadMaster DEF MasterUp
    <3> QED
      BY <3>1 DEF MastersOK
  <2> QED
    BY <2>1, <2>2 DEF MastersOK, MasterUp
<1>4. TunnelsOK'
  <2>1. tunnels' \subseteq [gen: 1..lastGen, mac: {boots}]
    BY DEF TunnelsOK
  <2>2. ASSUME NEW t \in tunnels', NEW v \in Revs,
               t.gen = master'["interactive"][v].gen
        PROVE  boots \in master'["interactive"][v].fwd
    <3>1. t \in tunnels /\ t.gen \in 1..lastGen
      BY <2>1, <2>2
    <3>2. master'["interactive"][v] = master["interactive"][v]
      BY <1>2, <2>2, <3>1, DeadMaster
    <3> QED
      BY <2>2, <3>1, <3>2 DEF TunnelsOK
  <2>3. ASSUME bootPass' = "reset", NEW v \in Revs
        PROVE  master'["interactive"][v].fwd \subseteq {boots}
    BY <1>2, <2>3, DeadMaster DEF TunnelsOK
  <2> QED
    BY <2>1, <2>2, <2>3 DEF TunnelsOK
<1> QED
  BY <1>3, <1>4

LEMMA MastersClose ==
  ASSUME RowOK, MastersOK, NEW rs \in SUBSET Roles,
         master' = [r \in Roles |-> IF r \in rs THEN ClosedFor(row.rev)[r] ELSE master[r]]
  PROVE  /\ master' \in [Roles -> [Revs -> MasterRecords]]
         /\ \A r \in Roles, v \in Revs: master'[r][v] \in {master[r][v], Dead}
         /\ rs = Roles => \A r \in Roles, v \in Revs:
                            master'[r][v].gen = 0
                              /\ (r = "interactive" => master'[r][v].fwd = {})
<1>1. row.rev \in Revs /\ master \in [Roles -> [Revs -> MasterRecords]]
  BY DEF RowOK, Revs, MastersOK
<1>2. ASSUME NEW r \in Roles
      PROVE  /\ ClosedFor(row.rev)[r] \in [Revs -> MasterRecords]
             /\ ClosedFor(row.rev)[r][row.rev] = Dead
             /\ \A v \in Revs: v # row.rev => ClosedFor(row.rev)[r][v] = master[r][v]
  <2>1. ClosedFor(row.rev)[r] = [master[r] EXCEPT ![row.rev] = Dead]
    BY DEF ClosedFor
  <2>2. master[r] \in [Revs -> MasterRecords]
    BY <1>1
  <2> QED
    BY <1>1, <2>1, <2>2, DeadMaster
<1>3. \A r \in Roles: ClosedFor(row.rev)[r] \in [Revs -> MasterRecords]
  BY <1>2
<1>4. \A r \in Roles: master'[r] = IF r \in rs THEN ClosedFor(row.rev)[r] ELSE master[r]
  OBVIOUS
<1>5. master' \in [Roles -> [Revs -> MasterRecords]]
  BY <1>1, <1>3
<1>6. \A r \in Roles, v \in Revs: master'[r][v] \in {master[r][v], Dead}
  BY <1>1, <1>2, <1>4
<1>7. ASSUME rs = Roles, NEW r \in Roles, NEW v \in Revs
      PROVE  /\ master'[r][v].gen = 0
             /\ r = "interactive" => master'[r][v].fwd = {}
  <2>1. CASE v = row.rev
    BY <1>1, <1>2, <1>4, <1>7, <2>1, DeadMaster
  <2>2. CASE v # row.rev
    <3>1. master'[r][v] = master[r][v]
      BY <1>1, <1>2, <1>4, <1>7, <2>2
    <3>2. master[r][v].gen = 0
      BY <2>2 DEF MastersOK, MasterUp
    <3> QED
      BY <3>1, <3>2 DEF MastersOK
  <2> QED
    BY <2>1, <2>2
<1> QED
  BY <1>5, <1>6, <1>7

\* A forward is armed on the master of the saved row.
LEMMA MasterArms ==
  ASSUME RowOK, MastersOK, TunnelsOK, row.saved, NEW bound \in BOOLEAN,
         Arm(row.rev, bound), UNCHANGED <<row, lastGen, boots, bootPass>>
  PROVE  /\ MastersOK'
         /\ \A v \in Revs: master'["interactive"][v].gen = master["interactive"][v].gen
         /\ MasterUp("interactive", row.rev)
         /\ UNCHANGED tunnels => TunnelsOK'
         /\ bound => master'["interactive"][row.rev].fwd = {boots}
         /\ \A v \in Revs: v # row.rev =>
              master'["interactive"][v] = master["interactive"][v]
         /\ bootPass = "reset" =>
              \A v \in Revs: master'["interactive"][v].fwd \subseteq {boots}
<1>1. /\ row.rev \in Revs /\ master \in [Roles -> [Revs -> MasterRecords]]
      /\ boots \in 1..MaxBoots /\ "interactive" \in Roles
  BY DEF RowOK, Revs, MastersOK, Roles
<1>2. CASE master' = master /\ ~bound
  BY <1>1, <1>2 DEF Arm, MastersOK, MasterUp, TunnelsOK
<1>3. CASE master' = [master EXCEPT !["interactive"][row.rev].fwd = {MacPort}]
  <2> DEFINE m == [master["interactive"][row.rev] EXCEPT !.fwd = {boots}]
  <2>1. master["interactive"][row.rev] \in MasterRecords
    BY <1>1
  <2>2. m \in MasterRecords /\ m.fwd = {boots} /\ m.gen = master["interactive"][row.rev].gen
    BY <1>1, <2>1 DEF MasterRecords
  <2>3. master' = [master EXCEPT !["interactive"][row.rev] = m]
    BY <1>3 DEF MacPort
  <2> HIDE DEF m
  <2>4. /\ master' \in [Roles -> [Revs -> MasterRecords]]
        /\ master'["interactive"][row.rev] = m
        /\ \A q \in Roles, u \in Revs:
             q # "interactive" \/ u # row.rev => master'[q][u] = master[q][u]
    BY <1>1, <2>2, <2>3
  <2>5. \A q \in Roles, u \in Revs: master'[q][u].gen = master[q][u].gen
    BY <2>2, <2>4
  <2>6. MasterUp("interactive", row.rev)
    BY DEF Arm
  <2>7. MastersOK'
    <3>1. \A v \in Revs: /\ master'["interactive"][v].gen <= lastGen
                         /\ master'["streaming"][v].gen <= 1
      BY <2>5 DEF MastersOK, Roles
    <3>2. \A v \in Revs: master'["interactive"][v].gen = 0
                           => master'["interactive"][v].fwd = {}
      <4> SUFFICES ASSUME NEW v \in Revs, master'["interactive"][v].gen = 0
                   PROVE  master'["interactive"][v].fwd = {}
        OBVIOUS
      <4>1. v # row.rev
        BY <2>6, <2>5, <1>1 DEF MasterUp
      <4> QED
        BY <1>1, <2>4, <4>1 DEF MastersOK
    <3>3. \A r \in Roles, v \in Revs: MasterUp(r, v)' => row.saved /\ v = row.rev
      BY <2>5 DEF MastersOK, MasterUp
    <3> QED
      BY <2>4, <3>1, <3>2, <3>3 DEF MastersOK, MasterUp
  <2>8. \A v \in Revs: v # row.rev =>
          master'["interactive"][v] = master["interactive"][v]
    BY <1>1, <2>4
  <2>9. bootPass = "reset" =>
          \A v \in Revs: master'["interactive"][v].fwd \subseteq {boots}
    BY <2>2, <2>4, <2>8 DEF TunnelsOK
  <2>10. ASSUME UNCHANGED tunnels PROVE TunnelsOK'
    <3>1. ASSUME NEW t \in tunnels, NEW v \in Revs,
                 t.gen = master'["interactive"][v].gen
          PROVE  boots \in master'["interactive"][v].fwd
      BY <1>1, <2>2, <2>4, <2>5, <3>1 DEF TunnelsOK
    <3>2. tunnels' \subseteq [gen: 1..lastGen', mac: {boots'}]
      BY <2>10 DEF TunnelsOK
    <3>3. UNCHANGED <<bootPass, boots>>
      OBVIOUS
    <3> QED
      BY <2>9, <2>10, <3>1, <3>2, <3>3 DEF TunnelsOK
  <2> QED
    BY <1>1, <2>2, <2>4, <2>5, <2>6, <2>7, <2>8, <2>9, <2>10
<1> QED
  BY <1>2, <1>3 DEF Arm

\* A forward that was armed is remembered.
LEMMA ForwardRemembered ==
  ASSUME RowOK, MastersOK, TunnelsOK, row.saved, Arm(row.rev, TRUE),
         UNCHANGED <<row, lastGen, boots, bootPass>>,
         NEW g, g = master["interactive"][row.rev].gen, Remember(g)
  PROVE  MastersOK' /\ TunnelsOK'
<1>1. /\ MastersOK'
      /\ \A v \in Revs: master'["interactive"][v].gen = master["interactive"][v].gen
      /\ MasterUp("interactive", row.rev)
      /\ master'["interactive"][row.rev].fwd = {boots}
      /\ bootPass = "reset" =>
           \A v \in Revs: master'["interactive"][v].fwd \subseteq {boots}
  BY MasterArms
<1>2. row.rev \in Revs /\ master["interactive"][row.rev].gen \in Nat /\ lastGen \in Nat
  BY DEF RowOK, Revs, MastersOK, MasterRecords, Roles
<1>3. g \in 1..lastGen
  BY <1>1, <1>2 DEF MasterUp, MastersOK
<1>4. tunnels' = {[gen |-> g, mac |-> boots]}
  <2>1. \A t \in tunnels: t.mac = boots
    BY DEF TunnelsOK
  <2> QED
    BY <2>1 DEF Remember, MacPort
<1>5. tunnels' \subseteq [gen: 1..lastGen', mac: {boots'}]
  BY <1>3, <1>4
<1>6. ASSUME NEW t \in tunnels', NEW v \in Revs,
             t.gen = master'["interactive"][v].gen
      PROVE  boots \in master'["interactive"][v].fwd
  <2>1. t.gen = g /\ g # 0
    BY <1>3, <1>4
  <2>2. MasterUp("interactive", v)
    BY <1>1, <1>6, <2>1 DEF MasterUp
  <2>3. v = row.rev
    BY <2>2 DEF MastersOK, Roles
  <2> QED
    BY <1>1, <2>3
<1>7. UNCHANGED <<boots, bootPass>>
  OBVIOUS
<1> QED
  BY <1>1, <1>5, <1>6, <1>7 DEF TunnelsOK
LEMMA Holding ==
  ASSUME SshInv, NEW a \in Actors, NEW p, HoldsLock(a, p)
  PROVE  /\ hostLock = a /\ op[a].pc = p /\ hostLock # NoOne
         /\ row.saved /\ op[a].rev = row.rev /\ row.rev \in Revs
         /\ op[a] \in OpRecords
         /\ p = "store" => \A r \in Roles, v \in Revs: ~MasterUp(r, v)
         /\ p = "rearm" => /\ op[a].gen \in 1..lastGen
                           /\ master["interactive"][row.rev].gen \in {0, op[a].gen}
<1>1. hostLock = a /\ op[a].pc = p
  BY DEF HoldsLock
<1>2. hostLock # NoOne
  BY <1>1 DEF Actors, NoOne
<1> QED
  BY <1>1, <1>2 DEF SshInv, HolderOK, RowOK, Revs, OpsOK

\* An operation ends, and the lock is free.
LEMMA LockFreed == hostLock' = NoOne => HolderOK'
BY DEF HolderOK

\* The holder goes on to a place where nothing more is asked of it.
LEMMA HolderGoes ==
  ASSUME SshInv, NEW a \in Actors, NEW p, HoldsLock(a, p), p # "ran",
         NEW q \in Pcs \ {"ran", "store", "rearm"}, Goto(a, q), UNCHANGED row
  PROVE  OpsOK' /\ HolderOK' /\ UNCHANGED hostLock
<1>1. /\ hostLock = a /\ op[a].pc = p /\ row.saved /\ op[a].rev = row.rev
  BY Holding
<1>2. OpsOK' /\ op'[a].pc = q /\ op'[a].rev = op[a].rev
  BY <1>1, OpGoes DEF SshInv, Goto
<1>3. hostLock' = hostLock
  BY DEF Goto
<1> QED
  BY <1>1, <1>2, <1>3 DEF HolderOK

LEMMA BeginKeeps ==
  ASSUME SshInv, NEW a \in Listed, Begin(a)
  PROVE  SshInv'
<1> DEFINE rec == [IdleOp EXCEPT !.pc = "queued", !.rev = row.rev]
<1>1. a \in Actors /\ a # "exec" /\ row.saved
      /\ UNCHANGED <<row, master, lastGen, tunnels, hostLock, boots, bootPass>>
  BY DEF Listed, Actors, Begin
<1>2. rec \in OpRecords /\ rec.pc = "queued" /\ rec.rev = row.rev
  <2>1. row.rev \in 0..MaxHostRev
    BY SshAssumption DEF SshInv, RowOK
  <2>2. IdleOp \in OpRecords
    BY SshAssumption DEF IdleOp, OpRecords, Pcs
  <2>3. "queued" \in Pcs
    BY DEF Pcs
  <2> QED
    BY <2>1, <2>2, <2>3 DEF OpRecords
<1>3. op' = [op EXCEPT ![a] = rec]
  BY DEF Begin
<1> HIDE DEF rec
<1>4. OpsOK' /\ op'[a] = rec
  BY <1>1, <1>2, <1>3, OpMoves DEF SshInv
<1>5. \A b \in Actors \ {a}: op'[b] = op[b]
  BY <1>3 DEF SshInv, OpsOK
<1>6. HolderOK'
  <2> SUFFICES ASSUME hostLock # NoOne
               PROVE  HolderOK'
    BY <1>1 DEF HolderOK
  <2>1. CASE hostLock = a
    BY <1>1, <1>2, <1>4, <2>1 DEF HolderOK
  <2>2. CASE hostLock # a
    <3>1. hostLock \in Actors \ {a}
      BY <2>2 DEF SshInv, RowOK
    <3>2. op'[hostLock] = op[hostLock]
      BY <1>5, <3>1
    <3> QED
      BY <1>1, <3>2 DEF SshInv, HolderOK, MasterUp
  <2> QED
    BY <2>1, <2>2
<1> QED
  BY <1>1, <1>4, <1>6 DEF SshInv, RowOK, MastersOK, TunnelsOK, MasterUp

LEMMA FirstStepIs ==
  \A a \in Actors: FirstStep(a) \in {"legacy", "reset", "close", "attempt"}
BY DEF FirstStep, Actors

LEMMA AcquireKeeps ==
  ASSUME SshInv, NEW a \in Actors, Acquire(a)
  PROVE  SshInv'
<1>1. UNCHANGED <<row, master, lastGen, tunnels, boots, bootPass>>
  BY DEF Acquire
<1>2. CASE row.saved
  <2> DEFINE rec == [op[a] EXCEPT !.pc = FirstStep(a), !.rev = row.rev]
  <2>1. hostLock' = a /\ op' = [op EXCEPT ![a] = rec]
    BY <1>2 DEF Acquire
  <2>2. op[a] \in OpRecords /\ op[a].pc \in {"idle", "queued"}
    BY DEF SshInv, OpsOK, Acquire
  <2>3. row.rev \in 0..MaxHostRev
    BY SshAssumption DEF SshInv, RowOK
  <2>4. FirstStep(a) \in Pcs \ {"store", "rearm"}
    BY FirstStepIs DEF Pcs
  <2>5. /\ rec \in OpRecords /\ rec.pc = FirstStep(a) /\ rec.rev = row.rev
        /\ rec.runs = op[a].runs
    BY <2>2, <2>3, <2>4 DEF OpRecords
  <2>6. a = "exec" => rec.runs = 0
    BY <2>2, <2>5 DEF SshInv, OpsOK
  <2> HIDE DEF rec
  <2>7. OpsOK' /\ op'[a] = rec
    BY <2>1, <2>5, <2>6, OpMoves DEF SshInv
  <2>8. HolderOK'
    BY <1>1, <1>2, <2>1, <2>4, <2>5, <2>7 DEF HolderOK
  <2>9. RowOK'
    BY <1>1, <2>1 DEF SshInv, RowOK
  <2> QED
    BY <1>1, <2>7, <2>8, <2>9 DEF SshInv, MastersOK, TunnelsOK, MasterUp
<1>3. CASE ~row.saved
  <2>1. hostLock' = NoOne /\ op' = [op EXCEPT ![a] = IdleOp]
    BY <1>3 DEF Acquire
  <2>2. OpsOK' /\ HolderOK'
    BY <2>1, OpEnds, LockFreed DEF SshInv, EndOp
  <2>3. RowOK'
    BY <1>1, <2>1 DEF SshInv, RowOK
  <2> QED
    BY <1>1, <2>2, <2>3 DEF SshInv, MastersOK, TunnelsOK, MasterUp
<1> QED
  BY <1>2, <1>3

LEMMA RetireKeeps ==
  ASSUME SshInv, NEW a \in Actors, RetireLegacy(a)
  PROVE  SshInv'
<1>1. HoldsLock(a, "legacy")
      /\ UNCHANGED <<row, master, lastGen, tunnels, boots, bootPass>>
  BY DEF RetireLegacy
<1>2. OpsOK' /\ HolderOK' /\ hostLock' \in {hostLock, NoOne}
  <2>1. CASE Goto(a, "probe")
    BY <1>1, <2>1, HolderGoes DEF Pcs
  <2>2. CASE EndOp(a)
    BY <2>2, OpEnds, LockFreed DEF SshInv
  <2> QED
    BY <2>1, <2>2 DEF RetireLegacy
<1> QED
  BY <1>1, <1>2 DEF SshInv, RowOK, MastersOK, TunnelsOK, MasterUp

\* A master that is kept, or opened in the place of one that is missing or stuck.
LEMMA ProbeKeeps ==
  ASSUME SshInv, NEW a \in Actors, NEW r \in Roles, NEW p, HoldsLock(a, p),
         ProbeRepair(a, r) \/ UNCHANGED <<master, lastGen>>,
         UNCHANGED <<row, tunnels, boots, bootPass>>, hostLock' \in {hostLock, NoOne}
  PROVE  RowOK' /\ MastersOK' /\ TunnelsOK'
<1>1. row.saved /\ op[a].rev = row.rev
  BY Holding
<1>2. CASE UNCHANGED <<master, lastGen>>
  BY <1>2 DEF SshInv, RowOK, MastersOK, TunnelsOK, MasterUp
<1>3. CASE OpenMaster(r, op[a].rev)
  <2>1. MastersOK' /\ TunnelsOK' /\ lastGen' \in Nat
    BY <1>1, <1>3, MasterOpens DEF SshInv
  <2> QED
    BY <2>1 DEF SshInv, RowOK
<1> QED
  BY <1>2, <1>3 DEF ProbeRepair

LEMMA WarmKeeps ==
  ASSUME SshInv, NEW a \in Actors, WarmStreaming(a) \/ WarmInteractive(a)
  PROVE  SshInv'
<1>1. CASE WarmStreaming(a)
  <2>1. /\ HoldsLock(a, "probe") /\ Goto(a, "interactive")
        /\ UNCHANGED <<row, tunnels, boots, bootPass>>
        /\ ProbeRepair(a, "streaming") \/ UNCHANGED <<master, lastGen>>
    BY <1>1 DEF WarmStreaming
  <2>2. OpsOK' /\ HolderOK' /\ UNCHANGED hostLock
    BY <2>1, HolderGoes DEF Pcs
  <2>3. RowOK' /\ MastersOK' /\ TunnelsOK'
    BY <2>1, <2>2, ProbeKeeps DEF Roles
  <2> QED
    BY <2>2, <2>3 DEF SshInv
<1>2. CASE WarmInteractive(a)
  <2>1. /\ HoldsLock(a, "interactive") /\ (Goto(a, "generation") \/ EndOp(a))
        /\ UNCHANGED <<row, tunnels, boots, bootPass>>
        /\ ProbeRepair(a, "interactive") \/ UNCHANGED <<master, lastGen>>
    BY <1>2 DEF WarmInteractive
  <2>2. OpsOK' /\ HolderOK' /\ hostLock' \in {hostLock, NoOne}
    <3>1. CASE Goto(a, "generation")
      BY <2>1, <3>1, HolderGoes DEF Pcs
    <3>2. CASE EndOp(a)
      BY <3>2, OpEnds, LockFreed DEF SshInv
    <3> QED
      BY <2>1, <3>1, <3>2
  <2>3. RowOK' /\ MastersOK' /\ TunnelsOK'
    BY <2>1, <2>2, ProbeKeeps DEF Roles
  <2> QED
    BY <2>2, <2>3 DEF SshInv
<1> QED
  BY <1>1, <1>2

LEMMA CheckKeeps ==
  ASSUME SshInv, NEW a \in Actors, CheckGeneration(a)
  PROVE  SshInv'
<1>1. /\ HoldsLock(a, "generation")
      /\ UNCHANGED <<row, master, lastGen, tunnels, boots, bootPass>>
  BY DEF CheckGeneration
<1>2. /\ hostLock = a /\ op[a].pc = "generation" /\ row.saved
      /\ op[a].rev = row.rev /\ row.rev \in Revs /\ op[a] \in OpRecords
  BY <1>1, Holding
<1>3. OpsOK' /\ HolderOK' /\ hostLock' \in {hostLock, NoOne}
  <2>1. CASE MasterUp("interactive", op[a].rev)
    <3> DEFINE g == master["interactive"][row.rev].gen
               rec == [op[a] EXCEPT !.pc = "rearm", !.gen = g]
    <3>1. g \in Nat /\ g # 0 /\ g <= lastGen /\ lastGen \in Nat
      BY <1>2, <2>1 DEF SshInv, MastersOK, RowOK, MasterUp, MasterRecords, Roles
    <3>2. op' = [op EXCEPT ![a] = rec] /\ hostLock' = hostLock
      BY <1>2, <2>1 DEF CheckGeneration
    <3>3. /\ rec \in OpRecords /\ rec.pc = "rearm" /\ rec.rev = row.rev /\ rec.gen = g
          /\ rec.runs = op[a].runs
      BY <1>2, <3>1 DEF OpRecords, Pcs
    <3>4. a = "exec" => rec.runs = 0
      BY <1>2, <3>3 DEF SshInv, OpsOK
    <3> HIDE DEF rec
    <3>5. OpsOK' /\ op'[a] = rec
      BY <3>2, <3>3, <3>4, OpMoves DEF SshInv
    <3>6. HolderOK'
      BY <1>1, <1>2, <3>1, <3>2, <3>3, <3>5 DEF HolderOK
    <3> QED
      BY <3>2, <3>5, <3>6
  <2>2. CASE EndOp(a)
    BY <2>2, OpEnds, LockFreed DEF SshInv
  <2> QED
    BY <2>1, <2>2 DEF CheckGeneration
<1> QED
  BY <1>1, <1>3 DEF SshInv, RowOK, MastersOK, TunnelsOK, MasterUp
LEMMA RearmKeeps ==
  ASSUME SshInv, NEW a \in Actors, RearmDesired(a)
  PROVE  SshInv'
<1>1. /\ HoldsLock(a, "rearm")
      /\ UNCHANGED <<row, lastGen, boots, bootPass>>
      /\ AfterRearm(a) \/ EndOp(a)
  BY DEF RearmDesired
<1>2. /\ hostLock = a /\ op[a].pc = "rearm" /\ row.saved
      /\ op[a].rev = row.rev /\ row.rev \in Revs
      /\ op[a].gen \in 1..lastGen
      /\ master["interactive"][row.rev].gen \in {0, op[a].gen}
  BY <1>1, Holding
<1>3. OpsOK' /\ HolderOK' /\ hostLock' \in {hostLock, NoOne}
  <2>1. CASE Goto(a, "ensure")
    BY <1>1, <2>1, HolderGoes DEF Pcs
  <2>2. CASE EndOp(a)
    BY <2>2, OpEnds, LockFreed DEF SshInv
  <2> QED
    BY <1>1, <2>1, <2>2 DEF AfterRearm
<1>4. MastersOK' /\ TunnelsOK'
  <2>1. CASE UNCHANGED <<master, tunnels>>
    BY <1>1, <2>1 DEF SshInv, MastersOK, TunnelsOK, MasterUp
  <2>2. CASE Arm(op[a].rev, TRUE) /\ Remember(op[a].gen)
    <3>1. op[a].gen = master["interactive"][row.rev].gen
      BY <1>2, <2>2 DEF Arm, MasterUp
    <3> QED
      BY <1>1, <1>2, <2>2, <3>1, ForwardRemembered DEF SshInv
  <2>3. CASE Arm(op[a].rev, FALSE) /\ UNCHANGED tunnels
    BY <1>1, <1>2, <2>3, MasterArms DEF SshInv
  <2> QED
    BY <2>1, <2>2, <2>3 DEF RearmDesired
<1> QED
  BY <1>1, <1>3, <1>4 DEF SshInv, RowOK

LEMMA EnsureKeeps ==
  ASSUME SshInv, NEW a \in Actors, EnsureReverseTunnel(a)
  PROVE  SshInv'
<1>1. /\ HoldsLock(a, "ensure")
      /\ UNCHANGED <<row, lastGen, boots, bootPass>> /\ EndOp(a)
  BY DEF EnsureReverseTunnel
<1>2. row.saved /\ op[a].rev = row.rev
  BY <1>1, Holding
<1>3. OpsOK' /\ HolderOK' /\ hostLock' = NoOne
  BY <1>1, OpEnds, LockFreed DEF SshInv
<1>4. MastersOK' /\ TunnelsOK'
  <2>1. CASE UNCHANGED <<master, tunnels>>
    BY <1>1, <2>1 DEF SshInv, MastersOK, TunnelsOK, MasterUp
  <2>2. CASE Arm(op[a].rev, TRUE) /\ Remember(master["interactive"][op[a].rev].gen)
    BY <1>1, <1>2, <2>2, ForwardRemembered DEF SshInv
  <2>3. CASE Arm(op[a].rev, FALSE) /\ UNCHANGED tunnels
    BY <1>1, <1>2, <2>3, MasterArms DEF SshInv
  <2> QED
    BY <2>1, <2>2, <2>3 DEF EnsureReverseTunnel
<1> QED
  BY <1>1, <1>3, <1>4 DEF SshInv, RowOK

\* Every master of the host is closed.
LEMMA AllClosed ==
  ASSUME SshInv, NEW a \in Actors, NEW p, HoldsLock(a, p),
         master' = ClosedFor(op[a].rev)
  PROVE  /\ master' \in [Roles -> [Revs -> MasterRecords]]
         /\ \A r \in Roles, v \in Revs: master'[r][v] \in {master[r][v], Dead}
         /\ \A r \in Roles, v \in Revs: master'[r][v].gen = 0
         /\ \A v \in Revs: master'["interactive"][v].fwd = {}
<1>1. op[a].rev = row.rev
  BY Holding
<1>2. ClosedFor(row.rev)
        = [r \in Roles |-> IF r \in Roles THEN ClosedFor(row.rev)[r] ELSE master[r]]
  BY DEF ClosedFor
<1>3. master' = [r \in Roles |-> IF r \in Roles THEN ClosedFor(row.rev)[r] ELSE master[r]]
  BY <1>1, <1>2
<1> QED
  BY <1>3, MastersClose DEF SshInv, Roles

LEMMA ResetKeeps ==
  ASSUME SshInv, NEW consumers \in BOOLEAN, BootReset(consumers)
  PROVE  SshInv'
<1>1. /\ HoldsLock("boot", "reset") /\ UNCHANGED <<row, lastGen, boots>>
      /\ Goto("boot", "legacy") \/ EndOp("boot")
      /\ "boot" \in Actors
  BY DEF BootReset, Actors
<1>2. OpsOK' /\ HolderOK' /\ hostLock' \in {hostLock, NoOne}
  <2>1. CASE Goto("boot", "legacy")
    BY <1>1, <2>1, HolderGoes DEF Pcs
  <2>2. CASE EndOp("boot")
    BY <1>1, <2>2, OpEnds, LockFreed DEF SshInv
  <2> QED
    BY <1>1, <2>1, <2>2
<1>3. MastersOK' /\ TunnelsOK'
  <2>1. CASE master' = ClosedFor(op["boot"].rev) /\ tunnels' = {}
    <3>1. /\ master' \in [Roles -> [Revs -> MasterRecords]]
          /\ \A r \in Roles, v \in Revs: master'[r][v] \in {master[r][v], Dead}
          /\ \A v \in Revs: master'["interactive"][v].fwd = {}
      BY <1>1, <2>1, AllClosed
    <3> QED
      BY <1>1, <2>1, <3>1, MastersExit DEF SshInv
  <2>2. CASE bootPass' = "failed" /\ UNCHANGED <<master, tunnels>>
    BY <1>1, <2>2 DEF SshInv, MastersOK, TunnelsOK, MasterUp
  <2> QED
    BY <2>1, <2>2 DEF BootReset
<1> QED
  BY <1>1, <1>2, <1>3 DEF SshInv, RowOK

LEMMA CloseKeeps ==
  ASSUME SshInv, NEW a \in {"edit", "remove"}, CloseMasters(a)
  PROVE  SshInv'
<1>1. /\ HoldsLock(a, "close") /\ a \in Actors /\ a # "exec"
      /\ UNCHANGED <<row, lastGen, tunnels, boots, bootPass>>
  BY DEF CloseMasters, Actors
<1>2. /\ hostLock = a /\ op[a].pc = "close" /\ row.saved /\ op[a].rev = row.rev
  BY <1>1, Holding
<1>3. CASE master' = ClosedFor(op[a].rev) /\ Goto(a, "store")
  <2>1. /\ master' \in [Roles -> [Revs -> MasterRecords]]
        /\ \A r \in Roles, v \in Revs: master'[r][v] \in {master[r][v], Dead}
        /\ \A r \in Roles, v \in Revs: master'[r][v].gen = 0
    BY <1>1, <1>3, AllClosed
  <2>2. MastersOK' /\ TunnelsOK'
    BY <1>1, <2>1, MastersExit DEF SshInv
  <2>3. OpsOK' /\ op'[a].pc = "store" /\ op'[a].rev = op[a].rev /\ hostLock' = hostLock
    BY <1>1, <1>2, <1>3, OpGoes DEF SshInv, Goto, Pcs
  <2>4. HolderOK'
    BY <1>1, <1>2, <2>1, <2>3 DEF HolderOK, MasterUp
  <2> QED
    BY <1>1, <2>2, <2>3, <2>4 DEF SshInv, RowOK
<1>4. ASSUME EndOp(a), NEW rs \in SUBSET Roles,
             master' = [r \in Roles |-> IF r \in rs THEN ClosedFor(op[a].rev)[r]
                                                    ELSE master[r]]
      PROVE  SshInv'
  <2>1. OpsOK' /\ HolderOK' /\ hostLock' = NoOne
    BY <1>1, <1>4, OpEnds, LockFreed DEF SshInv
  <2>2. MastersOK' /\ TunnelsOK'
    <3>1. master' = [r \in Roles |-> IF r \in rs THEN ClosedFor(row.rev)[r] ELSE master[r]]
      BY <1>2, <1>4
    <3>2. /\ master' \in [Roles -> [Revs -> MasterRecords]]
          /\ \A r \in Roles, v \in Revs: master'[r][v] \in {master[r][v], Dead}
      BY <3>1, MastersClose DEF SshInv
    <3> QED
      BY <1>1, <3>2, MastersExit DEF SshInv
  <2> QED
    BY <1>1, <2>1, <2>2 DEF SshInv, RowOK
<1> QED
  BY <1>3, <1>4 DEF CloseMasters

LEMMA NoMastersAnyRow ==
  ASSUME SshInv, \A r \in Roles, v \in Revs: ~MasterUp(r, v),
         UNCHANGED <<master, lastGen, boots, bootPass>>, tunnels' \in {tunnels, {}}
  PROVE  MastersOK' /\ TunnelsOK'
<1>1. MastersOK'
  BY DEF SshInv, MastersOK, MasterUp
<1> QED
  BY <1>1 DEF SshInv, TunnelsOK

LEMMA StoreEditKeeps ==
  ASSUME SshInv, NEW moved \in BOOLEAN, StoreEdit(moved)
  PROVE  SshInv'
<1>1. /\ HoldsLock("edit", "store") /\ "edit" \in Actors
      /\ UNCHANGED <<master, lastGen, boots, bootPass>>
  BY DEF StoreEdit, Actors
<1>2. /\ hostLock = "edit" /\ row.saved /\ op["edit"].rev = row.rev
      /\ op["edit"].pc = "store" /\ op["edit"] \in OpRecords
      /\ \A r \in Roles, v \in Revs: ~MasterUp(r, v)
  BY <1>1, Holding
<1>3. CASE Goto("edit", "legacy") /\ UNCHANGED <<row, tunnels>>
  <2>1. OpsOK' /\ HolderOK' /\ UNCHANGED hostLock
    BY <1>1, <1>3, HolderGoes DEF Pcs
  <2> QED
    BY <1>1, <1>3, <2>1 DEF SshInv, RowOK, MastersOK, TunnelsOK, MasterUp
<1>4. CASE row.rev < MaxHostRev /\ row' = [row EXCEPT !.rev = @ + 1]
  <2>1. /\ DOMAIN row' = {"saved", "rev"} /\ row'.rev = row.rev + 1
        /\ row'.saved = row.saved /\ row'.rev \in 1..MaxHostRev
        /\ row.rev + 1 \in 0..MaxHostRev
    BY <1>4, SshAssumption DEF SshInv, RowOK
  <2>2. CASE moved
    <3>1. tunnels' = {} /\ EndOp("edit")
      BY <1>4, <2>1, <2>2 DEF StoreEdit, SshInv, RowOK
    <3>2. OpsOK' /\ HolderOK' /\ hostLock' = NoOne
      BY <1>1, <3>1, OpEnds, LockFreed DEF SshInv
    <3>3. MastersOK' /\ TunnelsOK'
      BY <1>1, <1>2, <3>1, NoMastersAnyRow
    <3> QED
      BY <1>1, <2>1, <3>2, <3>3 DEF SshInv, RowOK
  <2>3. CASE ~moved
    <3> DEFINE rec == [op["edit"] EXCEPT !.pc = "legacy", !.rev = row.rev + 1]
    <3>1. UNCHANGED <<tunnels, hostLock>> /\ op' = [op EXCEPT !["edit"] = rec]
      <4>1. row' # row
        BY <2>1 DEF SshInv, RowOK
      <4>2. /\ UNCHANGED <<tunnels, hostLock>>
            /\ op' = [op EXCEPT !["edit"].pc = "legacy", !["edit"].rev = row.rev + 1]
        BY <2>3, <4>1, Zenon DEF StoreEdit
      <4>3. op \in [Actors -> OpRecords]
        BY DEF SshInv, OpsOK
      <4> QED
        BY <1>1, <1>2, <4>2, <4>3
    <3>2. rec \in OpRecords /\ rec.pc = "legacy" /\ rec.rev = row.rev + 1
      BY <1>2, <2>1 DEF OpRecords, Pcs
    <3> HIDE DEF rec
    <3>3. OpsOK' /\ op'["edit"] = rec
      BY <1>1, <3>1, <3>2, OpMoves DEF SshInv
    <3>4. HolderOK'
      BY <1>2, <2>1, <3>1, <3>2, <3>3 DEF HolderOK
    <3>5. MastersOK' /\ TunnelsOK'
      BY <1>1, <1>2, <3>1, NoMastersAnyRow
    <3> QED
      BY <1>1, <2>1, <3>1, <3>3, <3>4, <3>5 DEF SshInv, RowOK
  <2> QED
    BY <2>2, <2>3
<1> QED
  BY <1>3, <1>4 DEF StoreEdit

LEMMA StoreRemoveKeeps ==
  ASSUME SshInv, StoreRemove
  PROVE  SshInv'
<1>1. /\ HoldsLock("remove", "store") /\ "remove" \in Actors
      /\ UNCHANGED <<master, lastGen, boots, bootPass>>
  BY DEF StoreRemove, Actors
<1>2. \A r \in Roles, v \in Revs: ~MasterUp(r, v)
  BY <1>1, Holding
<1>3. CASE Goto("remove", "legacy") /\ UNCHANGED <<row, tunnels>>
  <2>1. OpsOK' /\ HolderOK' /\ UNCHANGED hostLock
    BY <1>1, <1>3, HolderGoes DEF Pcs
  <2> QED
    BY <1>1, <1>3, <2>1 DEF SshInv, RowOK, MastersOK, TunnelsOK, MasterUp
<1>4. CASE row' = [row EXCEPT !.saved = FALSE] /\ tunnels' = {} /\ EndOp("remove")
  <2>1. OpsOK' /\ HolderOK' /\ hostLock' = NoOne
    BY <1>1, <1>4, OpEnds, LockFreed DEF SshInv
  <2>2. MastersOK' /\ TunnelsOK'
    BY <1>1, <1>2, <1>4, NoMastersAnyRow
  <2>3. DOMAIN row' = {"saved", "rev"} /\ row'.rev = row.rev
    BY <1>4 DEF SshInv, RowOK
  <2> QED
    BY <1>1, <2>1, <2>2, <2>3 DEF SshInv, RowOK
<1> QED
  BY <1>3, <1>4 DEF StoreRemove
\* A script is run by one attempt at most.
LEMMA ExecMoves ==
  ASSUME SshInv, NEW p \in Pcs \ {"ran", "store", "rearm"}, HoldsLock("exec", p),
         NEW q \in {"ran", "replay"}, NEW n \in {0, 1}, q = "replay" => n = 0,
         op' = [op EXCEPT !["exec"].pc = q, !["exec"].runs = @ + n],
         UNCHANGED <<row, hostLock>>
  PROVE  OpsOK' /\ HolderOK'
<1>1. /\ hostLock = "exec" /\ op["exec"].pc = p /\ row.saved
      /\ op["exec"].rev = row.rev /\ op["exec"] \in OpRecords /\ "exec" \in Actors
  BY Holding DEF Actors
<1>2. op["exec"].runs = 0
  BY <1>1 DEF SshInv, OpsOK
<1> DEFINE rec == [op["exec"] EXCEPT !.pc = q, !.runs = n]
<1>3. rec \in OpRecords /\ rec.pc = q /\ rec.rev = row.rev /\ rec.runs = n
  BY <1>1 DEF OpRecords, Pcs
<1>4. op' = [op EXCEPT !["exec"] = rec]
  <2>1. op \in [Actors -> OpRecords]
    BY DEF SshInv, OpsOK
  <2>2. 0 + n = n
    OBVIOUS
  <2> QED
    BY <1>1, <1>2, <2>1, <2>2
<1> HIDE DEF rec
<1>5. OpsOK' /\ op'["exec"] = rec
  BY <1>1, <1>3, <1>4, OpMoves DEF SshInv
<1> QED
  BY <1>1, <1>3, <1>5 DEF HolderOK

LEMMA AttemptKeeps ==
  ASSUME SshInv, Attempt
  PROVE  SshInv'
<1>1. /\ HoldsLock("exec", "attempt") /\ "exec" \in Actors
      /\ UNCHANGED <<row, tunnels, hostLock, boots, bootPass>>
  BY DEF Attempt, Actors
<1>2. row.saved /\ op["exec"].rev = row.rev /\ "attempt" \in Pcs \ {"ran", "store", "rearm"}
  BY <1>1, Holding DEF Pcs
<1>3. RowOK' /\ MastersOK' /\ TunnelsOK'
  <2>1. CASE UNCHANGED <<master, lastGen>>
    BY <1>1, <2>1 DEF SshInv, RowOK, MastersOK, TunnelsOK, MasterUp
  <2>2. CASE OpenMaster("interactive", op["exec"].rev)
    <3>1. MastersOK' /\ TunnelsOK' /\ lastGen' \in Nat
      BY <1>1, <1>2, <2>2, MasterOpens DEF SshInv, Roles
    <3> QED
      BY <1>1, <3>1 DEF SshInv, RowOK
  <2> QED
    BY <2>1, <2>2 DEF Attempt
<1>4. OpsOK' /\ HolderOK'
  <2>1. CASE op' = [op EXCEPT !["exec"].pc = "ran", !["exec"].runs = @ + 1]
    BY <1>1, <1>2, <2>1, ExecMoves
  <2>2. ASSUME NEW f \in {"preSession", "midSession", "timeout"},
               NEW ran \in IF f = "preSession" THEN {0} ELSE {0, 1},
               op' = [op EXCEPT !["exec"].pc = IF ReplaySafe(f) THEN "replay" ELSE "ran",
                                !["exec"].runs = @ + ran]
        PROVE  OpsOK' /\ HolderOK'
    <3>1. CASE f = "preSession"
      <4>1. op' = [op EXCEPT !["exec"].pc = "replay", !["exec"].runs = @ + 0]
        BY <2>2, <3>1 DEF ReplaySafe
      <4> QED
        BY <1>1, <1>2, <4>1, ExecMoves
    <3>2. CASE f # "preSession"
      <4>1. op' = [op EXCEPT !["exec"].pc = "ran", !["exec"].runs = @ + ran]
        BY <2>2, <3>2 DEF ReplaySafe
      <4>2. ran \in {0, 1}
        BY <2>2, <3>2
      <4> QED
        BY <1>1, <1>2, <4>1, <4>2, ExecMoves
    <3> QED
      BY <3>1, <3>2
  <2> QED
    BY <2>1, <2>2 DEF Attempt
<1> QED
  BY <1>3, <1>4 DEF SshInv

LEMMA ReplayKeeps ==
  ASSUME SshInv, ReplayUnpooled
  PROVE  SshInv'
<1>1. /\ HoldsLock("exec", "replay") /\ "replay" \in Pcs \ {"ran", "store", "rearm"}
      /\ UNCHANGED <<row, master, lastGen, tunnels, hostLock, boots, bootPass>>
  BY DEF ReplayUnpooled, Pcs
<1>2. OpsOK' /\ HolderOK'
  BY <1>1, ExecMoves DEF ReplayUnpooled
<1> QED
  BY <1>1, <1>2 DEF SshInv, RowOK, MastersOK, TunnelsOK, MasterUp

LEMMA ExecDoneKeeps ==
  ASSUME SshInv, ExecDone
  PROVE  SshInv'
<1>1. EndOp("exec") /\ UNCHANGED <<row, master, lastGen, tunnels, boots, bootPass>>
  BY DEF ExecDone
<1>2. OpsOK' /\ HolderOK' /\ hostLock' = NoOne
  BY <1>1, OpEnds, LockFreed DEF SshInv, Actors
<1> QED
  BY <1>1, <1>2 DEF SshInv, RowOK, MastersOK, TunnelsOK, MasterUp

LEMMA DeathKeeps ==
  ASSUME SshInv, NEW r \in Roles, NEW v \in Revs, MasterDies(r, v)
  PROVE  SshInv'
<1>1. /\ master' = [master EXCEPT ![r][v] = Dead]
      /\ UNCHANGED <<row, lastGen, tunnels, hostLock, op, boots, bootPass>>
  BY DEF MasterDies
<1>2. /\ master' \in [Roles -> [Revs -> MasterRecords]]
      /\ \A q \in Roles, u \in Revs: master'[q][u] \in {master[q][u], Dead}
  BY <1>1, DeadMaster DEF SshInv, MastersOK
<1>3. MastersOK' /\ TunnelsOK'
  BY <1>1, <1>2, MastersExit DEF SshInv
<1>4. HolderOK'
  <2> SUFFICES ASSUME hostLock # NoOne PROVE HolderOK'
    BY <1>1 DEF HolderOK
  <2>1. "interactive" \in Roles /\ row.rev \in Revs
    BY DEF Roles, SshInv, RowOK, Revs
  <2>2. \A q \in Roles, u \in Revs: master'[q][u].gen \in {master[q][u].gen, 0}
    BY <1>2, DeadMaster
  <2>3. \A q \in Roles, u \in Revs: ~MasterUp(q, u) => ~MasterUp(q, u)'
    BY <2>2 DEF MasterUp
  <2> QED
    BY <1>1, <2>1, <2>2, <2>3 DEF SshInv, HolderOK
<1> QED
  BY <1>1, <1>3, <1>4 DEF SshInv, RowOK, OpsOK

LEMMA RestartKeeps ==
  ASSUME SshInv, DaemonRestarts
  PROVE  SshInv'
<1>1. /\ boots' = boots + 1 /\ boots < MaxBoots /\ MaxBoots \in Nat
      /\ tunnels' = {} /\ hostLock' = NoOne /\ bootPass' = "due"
      /\ op' = [a \in Actors |-> IdleOp]
      /\ UNCHANGED <<row, master, lastGen>>
  BY SshAssumption DEF DaemonRestarts
<1>2. RowOK'
  BY <1>1 DEF SshInv, RowOK
<1>3. IdleOp \in OpRecords /\ IdleOp.runs = 0 /\ "exec" \in Actors
  BY SshAssumption DEF IdleOp, OpRecords, Pcs, Actors
<1>4. OpsOK'
  BY <1>1, <1>3 DEF OpsOK
<1> QED
  BY <1>1, <1>2, <1>4 DEF SshInv, MastersOK, TunnelsOK, HolderOK, MasterUp

LEMMA SshSteps == SshInv /\ [SshNext]_sshVars => SshInv'
<1> SUFFICES ASSUME SshInv, [SshNext]_sshVars PROVE SshInv'
  OBVIOUS
<1>1. CASE UNCHANGED sshVars
  BY <1>1 DEF sshVars, SshInv, RowOK, OpsOK, MastersOK, TunnelsOK, HolderOK, MasterUp
<1>2. ASSUME NEW a \in Actors, WarmSteps(a) PROVE SshInv'
  BY <1>2, RetireKeeps, WarmKeeps, CheckKeeps, RearmKeeps DEF WarmSteps
<1>3. CASE LockedSteps
  <2>1. "session" \in Actors /\ "boot" \in Actors
    BY DEF Actors
  <2>2. ASSUME NEW a \in {"session", "boot"}, EnsureReverseTunnel(a) PROVE SshInv'
    BY <2>1, <2>2, EnsureKeeps
  <2> QED
    BY <1>2, <1>3, <2>2, ResetKeeps, CloseKeeps, StoreEditKeeps, StoreRemoveKeeps,
       AttemptKeeps, ReplayKeeps, ExecDoneKeeps DEF LockedSteps
<1> QED
  BY <1>1, <1>3, BeginKeeps, AcquireKeeps, DeathKeeps, RestartKeeps DEF SshNext

LEMMA SshSafe == SshInv => SshTypeOK /\ OnlyCurrentMasters /\ ForwardsAreOurs /\ ScriptRunsOnce
<1> SUFFICES ASSUME SshInv
             PROVE  SshTypeOK /\ OnlyCurrentMasters /\ ForwardsAreOurs /\ ScriptRunsOnce
  OBVIOUS
<1>1. SshTypeOK
  <2>1. row.rev \in Revs /\ hostLock \in Actors \cup {NoOne} /\ lastGen \in Nat
        /\ boots \in 1..MaxBoots
    BY DEF SshInv, RowOK, Revs
  <2>2. ASSUME NEW r \in Roles, NEW v \in Revs
        PROVE  master[r][v].gen \in 0..lastGen + 1 /\ master[r][v].fwd \subseteq 1..MaxBoots
    <3>1. master[r][v] \in MasterRecords
      BY DEF SshInv, MastersOK
    <3>2. master[r][v].gen <= lastGen \/ master[r][v].gen <= 1
      BY DEF SshInv, MastersOK, Roles
    <3> QED
      BY <2>1, <3>1, <3>2 DEF MasterRecords
  <2>3. tunnels \subseteq [gen: 1..lastGen, mac: 1..MaxBoots]
    BY <2>1 DEF SshInv, TunnelsOK
  <2>4. \A a \in Actors: op[a].rev \in 0..MaxHostRev
    BY DEF SshInv, OpsOK, OpRecords
  <2> QED
    BY <2>1, <2>2, <2>3, <2>4 DEF SshTypeOK
<1>2. OnlyCurrentMasters
  BY DEF SshInv, MastersOK, OnlyCurrentMasters
<1>3. ForwardsAreOurs
  <2>1. \A t \in tunnels: t.mac = boots
    BY DEF SshInv, TunnelsOK
  <2> QED
    BY <2>1 DEF SshInv, TunnelsOK, ForwardsAreOurs, MacPort
<1>4. ScriptRunsOnce
  <2>1. op["exec"] \in OpRecords
    BY DEF SshInv, OpsOK, Actors
  <2> QED
    BY <2>1 DEF OpRecords, ScriptRunsOnce
<1> QED
  BY <1>1, <1>2, <1>3, <1>4

-------------------------------------------------------------------------------
(* Readouts: the polled usage and the agent's plan.                        *)

\* Whoever scans or calls the vendor holds the cache's lock, and whoever scans
\* found the cached answer too old; no call ended after it was cached.
UsageInv ==
  /\ ReadTypeOK
  /\ \A v \in Viewers: viewer[v] \in {"scanning", "calling"} => usageLock = v
  /\ \A v \in Viewers: viewer[v] = "scanning" =>
       cachedAt = Never \/ usageNow - cachedAt >= UsageTtl
  /\ lastDone <= cachedAt

LEMMA UsageStarts == ReadInit => UsageInv
BY ReadoutAssumption
DEF ReadInit, UsageInv, ReadTypeOK, Never, NoPlan, NoReply, Asked, Nobody

\* A step of a viewer, or of the clock.
LEMMA UsageSteps ==
  ASSUME UsageInv, UsageNext, UNCHANGED planVars
  PROVE  UsageInv'
<1>1. UNCHANGED <<plan, planReply, fetching, shown, panel>>
  BY DEF planVars
<1> DEFINE Steps == {"idle", "waiting", "scanning", "calling"}
<1>2. /\ usageNow \in 0..MaxUsageNow /\ MaxUsageNow \in Nat /\ UsageTtl \in Nat
      /\ cachedAt \in {-1} \cup 0..MaxUsageNow /\ lastDone \in {-1} \cup 0..MaxUsageNow
      /\ usageLock \in Viewers \cup {Nobody} /\ Nobody \notin Viewers
      /\ viewer \in [Viewers -> Steps]
  BY ReadoutAssumption DEF UsageInv, ReadTypeOK, Never
<1>3. CASE TimePasses
  BY <1>1, <1>2, <1>3 DEF TimePasses, UsageInv, ReadTypeOK, Never
<1>4. ASSUME NEW v \in Viewers, AskUsage(v) PROVE UsageInv'
  BY <1>1, <1>2, <1>4 DEF AskUsage, UsageInv, ReadTypeOK, Never
<1>5. ASSUME NEW v \in Viewers, TakeCache(v) PROVE UsageInv'
  BY <1>1, <1>2, <1>5 DEF TakeCache, Fresh, UsageInv, ReadTypeOK, Never
<1>6. ASSUME NEW v \in Viewers, ScanClaude(v) PROVE UsageInv'
  BY <1>1, <1>2, <1>6 DEF ScanClaude, Answer, UsageInv, ReadTypeOK, Never
<1>7. ASSUME NEW v \in Viewers, FetchOauthUsage(v) PROVE UsageInv'
  BY <1>1, <1>2, <1>7 DEF FetchOauthUsage, Answer, UsageInv, ReadTypeOK, Never
<1>8. ASSUME NEW v \in Viewers, ViewerLeaves(v) PROVE UsageInv'
  BY <1>1, <1>2, <1>8 DEF ViewerLeaves, UsageInv, ReadTypeOK, Never
<1> QED
  BY <1>3, <1>4, <1>5, <1>6, <1>7, <1>8 DEF UsageNext

\* A step of the agent's plan, of the daemon or of the panel.
LEMMA PlanSteps ==
  ASSUME UsageInv, PlanNext, UNCHANGED usageVars
  PROVE  UsageInv'
<1>1. UNCHANGED <<usageNow, cachedAt, usageLock, viewer, lastDone>>
  BY DEF usageVars
<1>2. /\ plan \in 0..MaxPlans /\ planReply \in -3..MaxPlans /\ MaxPlans \in Nat
      /\ fetching \in BOOLEAN /\ panel \in BOOLEAN /\ shown \in {-1} \cup 0..MaxPlans
  BY ReadoutAssumption DEF UsageInv, ReadTypeOK, NoPlan, NoReply
<1>3. /\ plan' \in 0..MaxPlans /\ planReply' \in -3..MaxPlans
      /\ fetching' \in BOOLEAN /\ panel' \in BOOLEAN /\ shown' \in {-1} \cup 0..MaxPlans
  <2>1. CASE PlanChanges
    <3>1. fetching' \in BOOLEAN /\ panel' \in BOOLEAN
      BY <1>2, <2>1, Zenon DEF PlanChanges, SpawnTasksFetch
    <3>2. planReply' = -2 \/ planReply' = planReply
      BY <2>1, Zenon DEF PlanChanges, SpawnTasksFetch, Asked
    <3>3. planReply' \in -3..MaxPlans
      BY <1>2, <3>2
    <3>4. plan' \in 0..MaxPlans /\ shown' = shown
      BY <1>2, <2>1 DEF PlanChanges
    <3> QED
      BY <1>2, <3>1, <3>3, <3>4, Zenon
  <2>2. CASE Navigate
    BY <1>2, <2>2 DEF Navigate, SpawnTasksFetch, Asked
  <2>3. CASE TogglePanel
    <3>1. fetching' \in BOOLEAN /\ panel' \in BOOLEAN
      BY <1>2, <2>3, Zenon DEF TogglePanel, SpawnTasksFetch
    <3>2. planReply' = -2 \/ planReply' = planReply
      BY <2>3, Zenon DEF TogglePanel, SpawnTasksFetch, Asked
    <3>3. planReply' \in -3..MaxPlans
      BY <1>2, <3>2
    <3>4. plan' = plan /\ shown' = shown
      BY <2>3, Zenon DEF TogglePanel
    <3> QED
      BY <1>2, <3>1, <3>3, <3>4, Zenon
  <2>4. CASE GetAgentTasks
    BY <1>2, <2>4 DEF GetAgentTasks, Failed
  <2>5. CASE ApplyTasks
    <3>1. shown' \in {-1} \cup 0..MaxPlans
      BY <1>2, <2>5 DEF ApplyTasks, Failed, NoReply, Asked, NoPlan
    <3>2. planReply' = -3
      BY <2>5 DEF ApplyTasks, NoReply
    <3>3. fetching' \in BOOLEAN /\ panel' \in BOOLEAN /\ plan' = plan
      BY <1>2, <2>5, Zenon DEF ApplyTasks
    <3>4. planReply' \in -3..MaxPlans
      BY <1>2, <3>2
    <3> QED
      BY <1>2, <3>1, <3>3, <3>4, Zenon
  <2>6. CASE RefreshTick
    BY <1>2, <2>6 DEF RefreshTick, SpawnTasksFetch, Asked
  <2>7. CASE ClearPlan
    BY <1>2, <2>7 DEF ClearPlan, NoPlan
  <2> QED
    BY <2>1, <2>2, <2>3, <2>4, <2>5, <2>6, <2>7 DEF PlanNext
<1> QED
  BY <1>1, <1>3 DEF UsageInv, ReadTypeOK, NoPlan, NoReply

LEMMA ReadSteps == UsageInv /\ [ReadNext]_readVars => UsageInv'
<1> SUFFICES ASSUME UsageInv, [ReadNext]_readVars PROVE UsageInv'
  OBVIOUS
<1>1. CASE UNCHANGED readVars
  BY <1>1 DEF readVars, usageVars, planVars, UsageInv, ReadTypeOK
<1> QED
  BY <1>1, UsageSteps, PlanSteps DEF ReadNext

\* The cache paces the calls.
LEMMA CallIsPaced ==
  ASSUME UsageInv, NEW v \in Viewers, viewer[v] = "scanning"
  PROVE  lastDone = Never \/ usageNow - lastDone >= UsageTtl
BY ReadoutAssumption DEF UsageInv, ReadTypeOK, Never

-------------------------------------------------------------------------------
(* Screencast bridges.                                                     *)

\* Chromium has been acknowledged what was read and sent; a frame that is
\* being sent is not yet.
CastInv ==
  /\ CastTypeOK
  /\ frameQ \in Nat /\ \E S: inputQ \in Seq(S)
  /\ DOMAIN cdp = {"open", "inbox", "unacked"} /\ cdp.inbox \in Nat /\ cdp.unacked \in Nat
  /\ pump = "sending" => cdp.inbox < cdp.unacked

LEMMA CastStarts == CastInit => CastInv
<1> SUFFICES ASSUME CastInit PROVE CastInv
  OBVIOUS
<1>1. <<>> \in Seq({}) /\ Len(<<>>) = 0
  OBVIOUS
<1>2. /\ FrameDepth \in Nat /\ InputDepth \in Nat /\ AckWindow \in Nat
      /\ 0 <= InputDepth
  BY CastAssumption
<1>3. \E S: inputQ \in Seq(S)
  BY <1>1 DEF CastInit
<1> QED
  BY <1>1, <1>2, <1>3 DEF CastInit, CastInv, CastTypeOK

LEMMA CastSteps == CastInv /\ [CastNext]_castVars => CastInv'
<1> SUFFICES ASSUME CastInv, [CastNext]_castVars PROVE CastInv'
  OBVIOUS
<1>1. /\ FrameDepth \in Nat /\ InputDepth \in Nat /\ AckWindow \in Nat
      /\ frameQ \in 0..FrameDepth /\ Len(inputQ) <= InputDepth /\ Len(inputQ) \in Nat
      /\ DOMAIN cdp = {"open", "inbox", "unacked"} /\ cdp.inbox \in Nat /\ cdp.unacked \in Nat
      /\ cdp.inbox <= cdp.unacked /\ cdp.unacked <= AckWindow
      /\ pump = "sending" => cdp.inbox < cdp.unacked
      /\ run \in {"loop", "sending", "await", "ended"}
      /\ pump \in {"connect", "select", "sending", "ended"}
  <2>1. Len(inputQ) \in Nat
    BY LenProperties DEF CastInv
  <2> QED
    BY <2>1, CastAssumption DEF CastInv, CastTypeOK
<1>2. PICK S: inputQ \in Seq(S)
  BY DEF CastInv
<1>3. ASSUME NEW cmd, TrySend(cmd)
      PROVE  (\E T: inputQ' \in Seq(T)) /\ Len(inputQ') <= InputDepth
  <2>1. CASE Len(inputQ) < InputDepth
    <3>1. inputQ \in Seq(S \cup {cmd})
      BY <1>2, SeqMonotonic
    <3>2. /\ Append(inputQ, cmd) \in Seq(S \cup {cmd})
          /\ Len(Append(inputQ, cmd)) = Len(inputQ) + 1
      BY <3>1, AppendProperties
    <3>3. inputQ' = Append(inputQ, cmd)
      BY <1>3, <2>1 DEF TrySend
    <3> QED
      BY <1>1, <2>1, <3>2, <3>3
  <2>2. CASE ~(Len(inputQ) < InputDepth)
    BY <1>1, <1>2, <1>3, <2>2 DEF TrySend
  <2> QED
    BY <2>1, <2>2
<1>4. CASE inputQ' = inputQ
  <2>1. (\E T: inputQ' \in Seq(T)) /\ Len(inputQ') <= InputDepth
    BY <1>1, <1>2, <1>4
  <2>2. /\ frameQ' \in 0..FrameDepth
        /\ run' \in {"loop", "sending", "await", "ended"}
        /\ pump' \in {"connect", "select", "sending", "ended"}
        /\ DOMAIN cdp' = {"open", "inbox", "unacked"} /\ cdp'.inbox \in Nat /\ cdp'.unacked \in Nat
        /\ cdp'.inbox <= cdp'.unacked /\ cdp'.unacked <= AckWindow
        /\ pump' = "sending" => cdp'.inbox < cdp'.unacked
    <3>1. CASE ChromeEmits \/ ChromeCloses
      <4>1. UNCHANGED <<frameQ, run, pump>>
        BY <3>1 DEF ChromeEmits, ChromeCloses
      <4>2. CASE ChromeEmits
        <5>1. /\ cdp' = [cdp EXCEPT !.inbox = @ + 1, !.unacked = @ + 1]
              /\ cdp.unacked < AckWindow /\ pump' = pump
          BY <4>1, <4>2 DEF ChromeEmits
        <5>2. cdp.inbox \in Nat /\ cdp.unacked \in Nat
          BY <1>1
        <5>3. /\ DOMAIN cdp' = {"open", "inbox", "unacked"} /\ cdp'.inbox \in Nat /\ cdp'.unacked \in Nat
              /\ cdp'.inbox = cdp.inbox + 1 /\ cdp'.unacked = cdp.unacked + 1
          BY <1>1, <5>1, <5>2
        <5>4. /\ cdp'.inbox <= cdp'.unacked /\ cdp'.unacked <= AckWindow
              /\ pump' = "sending" => cdp'.inbox < cdp'.unacked
          BY <1>1, <5>1, <5>2, <5>3
        <5> QED
          BY <1>1, <4>1, <5>3, <5>4
      <4>3. CASE ChromeCloses
        <5>1. cdp' = [cdp EXCEPT !.open = FALSE] /\ pump' = pump
          BY <4>1, <4>3 DEF ChromeCloses
        <5>2. /\ DOMAIN cdp' = {"open", "inbox", "unacked"} /\ cdp'.inbox \in Nat /\ cdp'.unacked \in Nat
              /\ cdp'.inbox = cdp.inbox /\ cdp'.unacked = cdp.unacked
          BY <1>1, <5>1
        <5> QED
          BY <1>1, <4>1, <5>1, <5>2
      <4> QED
        BY <3>1, <4>2, <4>3
    <3>7. CASE PaneCloses \/ PaneMoves \/ PaneClicks
      <4>1. UNCHANGED <<frameQ, run, pump, cdp>>
        BY <3>7 DEF PaneCloses, PaneMoves, PaneClicks
      <4> QED
        BY <1>1, <4>1
    <3>2. CASE BridgeConnects \/ BridgeReadsFrame \/ BridgeTakesInput \/ BridgeSeesClose
                 \/ BridgeSeesNoPane
      BY <1>1, <3>2
      DEF BridgeConnects, BridgeReadsFrame, BridgeTakesInput, BridgeSeesClose,
          BridgeSeesNoPane, Local
    <3>3. CASE BridgeSendsFrame
      BY <1>1, <3>3 DEF BridgeSendsFrame, Local
    <3>4. CASE RunSteps \/ RunForwards
      BY <1>1, <3>4 DEF RunSteps, RunTakesFrame, RunLeaves, RunEnds, RunForwards
    <3>5. CASE HostSteps \/ HostSendsFrame
      BY <1>1, <3>5 DEF HostSteps, HostReadsFrame, HostPumpEnds, HostReturns, HostSendsFrame
    <3>6. CASE UNCHANGED castVars
      BY <1>1, <3>6 DEF castVars
    <3> QED
      BY <3>1, <3>2, <3>3, <3>4, <3>5, <3>6, <3>7 DEF CastNext, BridgeSteps
  <2> QED
    BY <2>1, <2>2, <1>1 DEF CastInv, CastTypeOK
<1>5. CASE PaneMoves \/ PaneClicks
  <2>1. (\E T: inputQ' \in Seq(T)) /\ Len(inputQ') <= InputDepth
    BY <1>1, <1>2, <1>3, <1>5 DEF PaneMoves, PaneClicks
  <2>2. UNCHANGED <<frameQ, run, pump, cdp>>
    BY <1>5 DEF PaneMoves, PaneClicks
  <2> QED
    BY <1>1, <2>1, <2>2 DEF CastInv, CastTypeOK
<1>6. CASE BridgeTakesInput
  <2>1. inputQ' = Tail(inputQ) /\ inputQ # <<>> /\ UNCHANGED <<frameQ, run, pump, cdp>>
    BY <1>6 DEF BridgeTakesInput
  <2>2. inputQ' \in Seq(S) /\ Len(inputQ') = Len(inputQ) - 1
    BY <1>2, <2>1, HeadTailProperties
  <2> QED
    BY <1>1, <2>1, <2>2 DEF CastInv, CastTypeOK
<1>7. inputQ' = inputQ \/ PaneMoves \/ PaneClicks \/ BridgeTakesInput
  BY DEF CastNext, castVars, BridgeSteps, RunSteps, HostSteps, ChromeEmits, ChromeCloses,
     PaneCloses, BridgeConnects, BridgeReadsFrame, BridgeSeesClose, BridgeSeesNoPane,
     BridgeSendsFrame, RunTakesFrame, RunLeaves, RunEnds, RunForwards, HostReadsFrame,
     HostPumpEnds, HostReturns, HostSendsFrame
<1> QED
  BY <1>4, <1>5, <1>6, <1>7

-------------------------------------------------------------------------------
(* The behaviours of MCRemote: one component moves, the others rest.       *)

MCInv == RemoteInv /\ SshInv /\ CastInv /\ UsageInv

LEMMA MCStarts == MCInit => MCInv /\ RemoteFeed!FeedInit
BY RemoteStarts, SshStarts, CastStarts, UsageStarts DEF MCInit, MCInv

LEMMA MCSteps ==
  ASSUME MCInv, [MCNext]_MCVars
  PROVE  MCInv' /\ Fed
<1>1. /\ [RemoteNext]_remoteVars /\ [SshNext]_sshVars
      /\ [CastNext]_castVars /\ [ReadNext]_readVars
  BY DEF MCNext, MCVars, Only
<1> QED
  BY <1>1, RemoteSteps, SshSteps, CastSteps, ReadSteps DEF MCInv

\* Every variable of the four components stays within its types, whatever the
\* host, the network and the daemon's restarts do (routes/sessions.rs,
\* host_runtime.rs, routes/cdp_screencast.rs, routes/usage.rs).
THEOREM RemoteTypesHold == MCSpec => []RemoteTypesOK
<1>1. MCInit => MCInv
  BY MCStarts
<1>2. MCInv /\ [MCNext]_MCVars => MCInv'
  BY MCSteps
<1>3. MCInv => RemoteTypesOK
  BY RemoteSafe, SshSafe DEF MCInv, RemoteTypesOK, CastInv, UsageInv
<1> QED
  BY <1>1, <1>2, <1>3, PTL DEF MCSpec

\* Whatever was read before a lease or a lock was granted, only the saved host
\* is talked to: no SSH child of a stream outlives an edit, no master the row
\* it was opened for, a remembered forward is there and leads to this daemon,
\* and no retry runs a script twice (routes/sessions.rs, host_runtime.rs, tmux
\* ssh.rs).
THEOREM HostStaysSafe == MCSpec => []HostSafe
<1>1. MCInit => MCInv
  BY MCStarts
<1>2. MCInv /\ [MCNext]_MCVars => MCInv'
  BY MCSteps
<1>3. MCInv => HostSafe
  BY RemoteSafe, SshSafe DEF MCInv, HostSafe
<1> QED
  BY <1>1, <1>2, <1>3, PTL DEF MCSpec

\* A remote stream hands its client the log from the offset of its snapshot,
\* each byte once and in order, across lost and silent tails, recoveries and
\* host edits (routes/sessions.rs stream_remote_session).
THEOREM RemoteStreamIsFeed == MCSpec => RemoteStreamFeeds
<1>1. MCInit => MCInv /\ RemoteFeed!FeedInit
  BY MCStarts
<1>2. MCInv /\ [MCNext]_MCVars
        => MCInv' /\ [RemoteFeed!FeedNext]_(RemoteFeed!feedVars)
  BY MCSteps DEF Fed
<1> QED
  BY <1>1, <1>2, PTL DEF MCSpec, RemoteStreamFeeds, RemoteFeed!FeedSpec

\* A call to the vendor starts at least a time to live after the last one that
\* ended, whoever waits and whoever leaves (routes/usage.rs).
THEOREM UpstreamStaysPaced == MCSpec => UpstreamIsPaced
<1> DEFINE Paced == \A v \in Viewers:
                      viewer[v] = "scanning" /\ viewer'[v] = "calling" =>
                        lastDone = Never \/ usageNow - lastDone >= UsageTtl
<1>1. MCInit => MCInv
  BY MCStarts
<1>2. MCInv /\ [MCNext]_MCVars => MCInv'
  BY MCSteps
<1>3. MCInv => Paced
  BY CallIsPaced DEF MCInv
<1>4. MCInv /\ [MCNext]_MCVars => [Paced]_readVars
  BY <1>3
<1> QED
  BY <1>1, <1>2, <1>4, PTL DEF MCSpec, UpstreamIsPaced
===============================================================================
