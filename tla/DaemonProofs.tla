----------------------------- MODULE DaemonProofs -----------------------------
(***************************************************************************)
(* What the daemon shows and keeps of an agent's work, for every number of *)
(* clients, connections, trees and files.  A local stream is a feed of the *)
(* pane log: it implements PaneFeed, step by step; a terminal painted from *)
(* a snapshot is not fed what the snapshot shows; the task panel shows a   *)
(* parse of the transcript; uncommitted work is not destroyed unasked, and *)
(* the source-control panel says what git says.                            *)
(***************************************************************************)
EXTENDS MCDaemon, SequenceTheorems, FunctionTheorems, WellFoundedInduction,
        FiniteSetTheorems, TLAPS

-------------------------------------------------------------------------------
(* The stream as a feed: a connection that tails hands over the log from   *)
(* where its tail began, byte by byte.                                     *)

\* What a chunk of the log is to the tail: where it begins and ends.
Frames == [from: Nat, to: Nat]

\* A function on 1 .. n is a sequence of n elements.
LEMMA FunctionIsSeq ==
  ASSUME NEW S, NEW n \in Nat, NEW f \in [1..n -> S]
  PROVE  f \in Seq(S) /\ Len(f) = n
<1>1. f \in Seq(S)
  BY SeqDef
<1>2. Len(f) \in Nat /\ 1..Len(f) = 1..n
  BY <1>1, LenProperties
<1>3. Len(f) = n
  BY <1>2
<1> QED
  BY <1>1, <1>3

\* Positions in the log, one after the other.
LEMMA RunIsSeq ==
  ASSUME NEW n \in Nat, NEW k \in Nat
  PROVE  /\ [i \in 1..n |-> k + i - 1] \in Seq(Nat)
         /\ Len([i \in 1..n |-> k + i - 1]) = n
<1>1. \A i \in 1..n: k + i - 1 \in Nat
  OBVIOUS
<1>2. [i \in 1..n |-> k + i - 1] \in [1..n -> Nat]
  BY <1>1
<1> QED
  BY <1>2, FunctionIsSeq

\* What is left of a sequence behind its first n elements.
LEMMA DropIs ==
  ASSUME NEW S, NEW q \in Seq(S), NEW n \in 1..Len(q)
  PROVE  /\ SubSeq(q, n + 1, Len(q)) \in Seq(S)
         /\ Len(SubSeq(q, n + 1, Len(q))) = Len(q) - n
         /\ \A i \in 1..(Len(q) - n): SubSeq(q, n + 1, Len(q))[i] = q[n + i]
         /\ \A i \in 1..(Len(q) - n): n + i \in 1..Len(q)
<1>1. Len(q) \in Nat /\ n \in Nat /\ n <= Len(q) /\ 1 <= n
  BY LenProperties
<1>2. \A i \in (n + 1)..Len(q): q[i] \in S
  BY <1>1, ElementOfSeq
<1>3. /\ SubSeq(q, n + 1, Len(q)) \in Seq(S)
      /\ Len(SubSeq(q, n + 1, Len(q))) = IF n + 1 <= Len(q) THEN Len(q) - (n + 1) + 1 ELSE 0
      /\ \A i \in 1..(Len(q) - (n + 1) + 1): SubSeq(q, n + 1, Len(q))[i] = q[n + 1 + i - 1]
  BY <1>1, <1>2, SubSeqProperties
<1>4. Len(q) - (n + 1) + 1 = Len(q) - n
  BY <1>1
<1>5. \A i \in 1..(Len(q) - n): n + 1 + i - 1 = n + i /\ n + i \in 1..Len(q)
  BY <1>1
<1>6. (IF n + 1 <= Len(q) THEN Len(q) - (n + 1) + 1 ELSE 0) = Len(q) - n
  BY <1>1
<1>7. \A i \in 1..(Len(q) - n): SubSeq(q, n + 1, Len(q))[i] = q[n + i]
  BY <1>3, <1>4, <1>5
<1> QED
  BY <1>3, <1>5, <1>6, <1>7

\* The ends of a frame are positions in the log.
LEMMA FrameAt ==
  ASSUME NEW q \in Seq(Frames), NEW i \in 1..Len(q)
  PROVE  q[i].from \in Nat /\ q[i].to \in Nat
<1>1. q[i] \in Frames
  BY ElementOfSeq
<1> QED
  BY <1>1 DEF Frames

\* A connection, at any time of its life.
ConnStates ==
  [phase: Phases, resume: BOOLEAN, size: Sizes \cup {NoSize}, early: Seq(Nat),
   mode: Modes, cap: Nat, start: Nat, cursor: Nat, queue: Seq(Frames),
   forwarded: Nat, out: Seq(Nat)]

\* The queue of the tail holds the log from where the client has got to, up
\* to the tail's cursor, in frames that follow each other.
Contiguous(r) ==
  /\ \A i \in 1..Len(r.queue): /\ r.queue[i].from < r.queue[i].to
                               /\ r.queue[i].to <= r.cursor
  /\ \A i, j \in 1..Len(r.queue): i < j => r.queue[i].to <= r.queue[j].from
  /\ \A i \in 1..Len(r.queue): i + 1 <= Len(r.queue)
                                 => r.queue[i].to = r.queue[i + 1].from
  /\ IF r.queue = <<>> THEN r.cursor = r.start + r.forwarded
     ELSE /\ r.queue[1].from = r.start + r.forwarded
          /\ r.queue[Len(r.queue)].to = r.cursor

\* What a connection has sent and still holds, in every phase.
FeedOk(r) ==
  /\ r.forwarded = Len(r.out)
  /\ r.phase # "live" => r.queue = <<>> /\ r.out = <<>>
  /\ r.phase \in {"pinned", "early"} => r.start = r.cursor
  /\ r.phase = "live" => Contiguous(r)
  /\ r.cursor <= log /\ r.start <= log
  /\ Len(r.queue) <= TailSlots

\* The log, the window, and connections that are in order.
StreamTypes ==
  /\ log \in 0..MaxLog /\ paneSize \in Sizes /\ typed \in Nat
  /\ conn \in [Conns -> ConnStates]
  /\ \A c \in Conns: FeedOk(conn[c])

\* One connection goes to a state that is in order, the log stays.
LEMMA ConnMoves ==
  ASSUME StreamTypes, NEW c \in Conns, NEW r \in ConnStates, FeedOk(r),
         conn' = [conn EXCEPT ![c] = r], UNCHANGED log, paneSize' \in Sizes, typed' \in Nat
  PROVE  StreamTypes'
<1>1. \A d \in Conns: conn'[d] = IF d = c THEN r ELSE conn[d]
  BY DEF StreamTypes
<1>2. \A d \in Conns: FeedOk(conn[d])'
  BY <1>1 DEF StreamTypes, FeedOk, Contiguous
<1> QED
  BY <1>1, <1>2 DEF StreamTypes

\* A connection that has not begun to tail goes on to another such phase.
LEMMA QuietMoves ==
  ASSUME StreamTypes, NEW c \in Conns, NEW r \in ConnStates,
         conn[c].phase # "live", r.phase # "live",
         r.queue = conn[c].queue, r.out = conn[c].out, r.forwarded = conn[c].forwarded,
         r.start <= log, r.cursor <= log,
         r.phase \in {"pinned", "early"} => r.start = r.cursor,
         conn' = [conn EXCEPT ![c] = r], UNCHANGED log, paneSize' \in Sizes, typed' \in Nat
  PROVE  /\ StreamTypes'
         /\ ~Running(c) /\ ~Running(c)'
         /\ \A d \in Conns: conn'[d].out = conn[d].out
         /\ \A d \in Conns: Running(d)' = Running(d) /\ (Running(d) => conn'[d].start = conn[d].start)
<1>1. FeedOk(r)
  BY DEF StreamTypes, FeedOk
<1>2. \A d \in Conns: conn'[d] = IF d = c THEN r ELSE conn[d]
  BY DEF StreamTypes
<1> QED
  BY <1>1, <1>2, ConnMoves DEF Running, InPhase

\* The feed stands still when no connection starts, ends or hands over.
LEMMA FeedStutters ==
  ASSUME UNCHANGED log,
         \A d \in Conns: conn'[d].out = conn[d].out,
         \A d \in Conns: Running(d)' = Running(d),
         \A d \in Conns: Running(d) => conn'[d].start = conn[d].start
  PROVE  UNCHANGED LocalFeed!feedVars
<1>1. [c \in Conns |-> IF Running(c) THEN conn[c].start ELSE -1]'
        = [c \in Conns |-> IF Running(c) THEN conn[c].start ELSE -1]
  OBVIOUS
<1>2. [c \in Conns |-> conn[c].out]' = [c \in Conns |-> conn[c].out]
  OBVIOUS
<1> QED
  BY <1>1, <1>2 DEF LocalFeed!feedVars

\* A connection that goes on without sending anything of the log.
LEMMA LiveMoves ==
  ASSUME StreamTypes, NEW c \in Conns, NEW r \in ConnStates, FeedOk(r),
         Running(c), r.phase = "live",
         r.out = conn[c].out, r.start = conn[c].start,
         conn' = [conn EXCEPT ![c] = r], UNCHANGED log, paneSize' \in Sizes, typed' \in Nat
  PROVE  StreamTypes' /\ UNCHANGED LocalFeed!feedVars
<1>1. \A d \in Conns: conn'[d] = IF d = c THEN r ELSE conn[d]
  BY DEF StreamTypes
<1>2. \A d \in Conns: /\ conn'[d].out = conn[d].out
                      /\ Running(d)' = Running(d)
                      /\ conn'[d].start = conn[d].start
  BY <1>1 DEF Running, InPhase
<1> QED
  BY <1>2, FeedStutters, ConnMoves

\* The connection begins to tail: a feed starts where the tail does.
LEMMA FeedStarts ==
  ASSUME StreamTypes, NEW c \in Conns, GoLive(c)
  PROVE  StreamTypes' /\ LocalFeed!FeedNext
<1> DEFINE r == [conn[c] EXCEPT !.phase = "live", !.early = <<>>]
<1>1. conn' = [conn EXCEPT ![c] = r] /\ UNCHANGED <<log, paneSize, typed>>
  BY DEF GoLive, StreamTypes
<1>2. /\ conn[c] \in ConnStates /\ conn[c].phase = "early"
      /\ FeedOk(conn[c])
  BY DEF GoLive, InPhase, StreamTypes
<1>3. r \in ConnStates /\ r.phase = "live" /\ r.out = <<>> /\ r.queue = <<>>
      /\ r.start = conn[c].start /\ r.cursor = r.start /\ r.forwarded = 0
      /\ r.start <= log /\ r.start \in Nat
  BY <1>2 DEF FeedOk, ConnStates, Phases
<1> HIDE DEF r
<1>4. FeedOk(r)
  BY <1>3, StreamAssumption DEF FeedOk, Contiguous, StreamTypes
<1>5. StreamTypes'
  BY <1>1, <1>3, <1>4, ConnMoves DEF StreamTypes
<1>6. \A d \in Conns: conn'[d] = IF d = c THEN r ELSE conn[d]
  BY <1>1 DEF StreamTypes
<1>7. LocalFeed!Start(c)
  <2>1. [d \in Conns |-> IF Running(d) THEN conn[d].start ELSE -1]'
          = [[d \in Conns |-> IF Running(d) THEN conn[d].start ELSE -1] EXCEPT ![c] = r.start]
    BY <1>3, <1>6 DEF Running, InPhase
  <2>2. [d \in Conns |-> conn[d].out]' = [[d \in Conns |-> conn[d].out] EXCEPT ![c] = <<>>]
    BY <1>3, <1>6
  <2>3. r.start \in 0..log
    BY <1>3 DEF StreamTypes
  <2> QED
    BY <1>1, <2>1, <2>2, <2>3 DEF LocalFeed!Start
<1> QED
  BY <1>5, <1>7 DEF LocalFeed!FeedNext

\* What is queued is not empty, begins where the client has got to and lies in the log.
LEMMA QueuedIs ==
  ASSUME NEW r \in ConnStates, Contiguous(r), r.cursor <= log, log \in Nat,
         NEW n \in 1..Len(r.queue)
  PROVE  /\ QueuedLen(r.queue, n) \in 1..(log - r.start - r.forwarded)
         /\ r.queue[1].from = r.start + r.forwarded
         /\ r.queue[n].to = r.start + r.forwarded + QueuedLen(r.queue, n)
<1>1. r.queue \in Seq(Frames) /\ r.start \in Nat /\ r.forwarded \in Nat /\ r.cursor \in Nat
  BY DEF ConnStates
<1>2. \A i \in 1..Len(r.queue): r.queue[i].from \in Nat /\ r.queue[i].to \in Nat
  BY <1>1, FrameAt
<1>3. 1 \in 1..Len(r.queue) /\ Len(r.queue) \in Nat /\ r.queue # <<>> /\ n \in Nat
  BY <1>1
<1>4. r.queue[1].from = r.start + r.forwarded
  BY <1>3 DEF Contiguous
<1>5. r.queue[1].from < r.queue[n].to /\ r.queue[n].to <= r.cursor
  <2>1. CASE n = 1
    BY <1>3, <2>1 DEF Contiguous
  <2>2. CASE n # 1
    <3>1. 1 < n
      BY <2>2
    <3>2. /\ r.queue[1].from < r.queue[1].to /\ r.queue[1].to <= r.queue[n].from
          /\ r.queue[n].from < r.queue[n].to /\ r.queue[n].to <= r.cursor
      BY <1>3, <3>1 DEF Contiguous
    <3> QED
      BY <1>2, <1>3, <3>2
  <2> QED
    BY <2>1, <2>2
<1>6. QueuedLen(r.queue, n) = r.queue[n].to - r.queue[1].from
  BY <1>3 DEF QueuedLen
<1> DEFINE a == r.queue[1].from
           b == r.queue[n].to
<1>7. a \in Nat /\ b \in Nat
  BY <1>2, <1>3
<1>8. a = r.start + r.forwarded /\ a < b /\ b <= r.cursor /\ QueuedLen(r.queue, n) = b - a
  BY <1>4, <1>5, <1>6
<1> HIDE DEF a, b
<1> DEFINE done == r.start + r.forwarded
<1>9. done \in Nat /\ log - r.start - r.forwarded = log - done /\ a = done /\ b <= log
  BY <1>1, <1>7, <1>8
<1> HIDE DEF done
<1>10. b - a \in 1..(log - done) /\ b = done + (b - a)
  BY <1>7, <1>8, <1>9
<1> QED
  BY <1>8, <1>9, <1>10 DEF a, b, done

\* Queued frames are handed over: the next bytes of the feed.
LEMMA FeedFeeds ==
  ASSUME StreamTypes, NEW c \in Conns, NEW n \in 1..TailSlots, Forward(c, n)
  PROVE  StreamTypes' /\ LocalFeed!FeedNext
<1> DEFINE q == conn[c].queue
           len == QueuedLen(q, n)
           first == q[1].from
           sent == [i \in 1..len |-> first + i - 1]
           r == [conn[c] EXCEPT !.queue = SubSeq(q, n + 1, Len(q)),
                                !.forwarded = @ + len,
                                !.out = @ \o sent]
<1>1. /\ conn' = [conn EXCEPT ![c] = r] /\ UNCHANGED <<log, paneSize, typed>>
      /\ n \in 1..Len(q) /\ conn[c].phase = "live"
  BY DEF Forward, StreamTypes, InPhase
<1>2. conn[c] \in ConnStates /\ FeedOk(conn[c]) /\ Contiguous(conn[c]) /\ log \in Nat
  BY <1>1, StreamAssumption DEF StreamTypes, FeedOk
<1>3. /\ len \in 1..(log - conn[c].start - conn[c].forwarded)
      /\ first = conn[c].start + conn[c].forwarded
      /\ q[n].to = conn[c].start + conn[c].forwarded + len
  BY <1>1, <1>2, QueuedIs DEF FeedOk
<1>4. /\ conn[c].out \in Seq(Nat) /\ conn[c].start \in Nat /\ conn[c].forwarded \in Nat
      /\ q \in Seq(Frames) /\ conn[c].cursor \in Nat /\ Len(q) \in Nat
  BY <1>2 DEF ConnStates
<1> HIDE DEF len
<1>5. sent \in Seq(Nat) /\ Len(sent) = len
  <2>1. len \in Nat /\ first \in Nat
    BY <1>3, <1>4
  <2> QED
    BY <2>1, RunIsSeq
<1> HIDE DEF sent
<1>6. conn[c].out \o sent \in Seq(Nat) /\ Len(conn[c].out \o sent) = conn[c].forwarded + len
  <2>1. /\ conn[c].out \o sent \in Seq(Nat)
        /\ Len(conn[c].out \o sent) = Len(conn[c].out) + Len(sent)
    BY <1>4, <1>5, ConcatProperties
  <2> QED
    BY <1>2, <1>5, <2>1 DEF FeedOk
<1> DEFINE rest == SubSeq(q, n + 1, Len(q))
<1>7. /\ rest \in Seq(Frames) /\ Len(rest) = Len(q) - n
      /\ \A i \in 1..Len(rest): rest[i] = q[n + i] /\ n + i \in 1..Len(q)
  BY <1>1, <1>4, DropIs
<1>8. /\ r \in ConnStates /\ r.queue = rest /\ r.forwarded = conn[c].forwarded + len
      /\ r.start = conn[c].start /\ r.cursor = conn[c].cursor /\ r.phase = "live"
      /\ r.out = conn[c].out \o sent
  <2>1. conn[c].forwarded + len \in Nat
    BY <1>3, <1>4
  <2> HIDE DEF sent
  <2>2. r = [conn[c] EXCEPT !.queue = rest, !.forwarded = conn[c].forwarded + len,
                            !.out = conn[c].out \o sent]
    OBVIOUS
  <2>3. rest \in Seq(Frames) /\ conn[c].out \o sent \in Seq(Nat)
    BY <1>6, <1>7
  <2> HIDE DEF r, rest, q
  <2> QED
    BY <1>1, <1>2, <2>1, <2>2, <2>3 DEF ConnStates
<1> HIDE DEF r, rest, sent
<1>9. Contiguous(r)
  <2>1. \A i \in 1..Len(rest): rest[i].from < rest[i].to /\ rest[i].to <= conn[c].cursor
    BY <1>2, <1>7 DEF Contiguous
  <2>2. \A i, j \in 1..Len(rest): i < j => rest[i].to <= rest[j].from
    <3> SUFFICES ASSUME NEW i \in 1..Len(rest), NEW j \in 1..Len(rest), i < j
                 PROVE  rest[i].to <= rest[j].from
      OBVIOUS
    <3>1. n + i < n + j /\ n + i \in 1..Len(q) /\ n + j \in 1..Len(q)
      BY <1>1, <1>7
    <3> QED
      BY <1>2, <1>7, <3>1 DEF Contiguous
  <2>3. \A i \in 1..Len(rest): i + 1 <= Len(rest) => rest[i].to = rest[i + 1].from
    <3> SUFFICES ASSUME NEW i \in 1..Len(rest), i + 1 <= Len(rest)
                 PROVE  rest[i].to = rest[i + 1].from
      OBVIOUS
    <3>0. Len(rest) \in Nat /\ Len(rest) = Len(q) - n /\ Len(q) \in Nat /\ n \in Nat
      BY <1>1, <1>4, <1>7
    <3>1. /\ n + i \in 1..Len(q) /\ (n + i) + 1 <= Len(q) /\ i + 1 \in 1..Len(rest)
          /\ (n + i) + 1 = n + (i + 1)
      <4> HIDE DEF rest, q
      <4> QED
        BY <3>0
    <3>2. q[n + i].to = q[(n + i) + 1].from
      BY <1>2, <3>1 DEF Contiguous
    <3>3. rest[i] = q[n + i]
      BY <1>7
    <3>4. rest[i + 1] = q[n + (i + 1)]
      BY <1>7, <3>1
    <3> QED
      BY <3>1, <3>2, <3>3, <3>4
  <2>4. CASE rest = <<>>
    <3>1. Len(q) = n /\ q # <<>>
      BY <1>1, <1>4, <1>7, <2>4
    <3>2. q[n].to = conn[c].cursor
      BY <1>2, <3>1 DEF Contiguous
    <3> QED
      BY <1>3, <1>4, <1>8, <2>4, <3>2 DEF Contiguous
  <2>5. CASE rest # <<>>
    <3>1. Len(rest) # 0 /\ Len(rest) \in Nat
      BY <1>7, <2>5, EmptySeq
    <3>0. Len(rest) = Len(q) - n /\ Len(q) \in Nat /\ n \in Nat /\ 1 <= n
      BY <1>1, <1>4, <1>7
    <3>2. /\ 1 \in 1..Len(rest) /\ Len(rest) \in 1..Len(rest) /\ n + 1 <= Len(q)
          /\ n + Len(rest) = Len(q) /\ Len(q) # 0
      BY <3>0, <3>1
    <3>6. q # <<>>
      BY <1>4, <3>2, EmptySeq
    <3>3. q[n].to = q[n + 1].from /\ q[Len(q)].to = conn[c].cursor
      BY <1>1, <1>2, <3>2, <3>6 DEF Contiguous
    <3>4. rest[1] = q[n + 1] /\ rest[Len(rest)] = q[Len(q)]
      BY <1>7, <3>2
    <3>5. r.start + r.forwarded = q[n].to
      BY <1>3, <1>4, <1>8
    <3> QED
      BY <1>8, <2>1, <2>2, <2>3, <2>5, <3>3, <3>4, <3>5 DEF Contiguous
  <2> QED
    BY <2>4, <2>5
<1>10. FeedOk(r)
  BY <1>1, <1>2, <1>4, <1>6, <1>7, <1>8, <1>9, StreamAssumption DEF FeedOk
<1>11. StreamTypes'
  BY <1>1, <1>8, <1>10, ConnMoves DEF StreamTypes
<1>12. \A d \in Conns: conn'[d] = IF d = c THEN r ELSE conn[d]
  BY <1>1 DEF StreamTypes
<1>13. LocalFeed!Feed(c)
  <2> DEFINE fr == [d \in Conns |-> IF Running(d) THEN conn[d].start ELSE -1]
             fd == [d \in Conns |-> conn[d].out]
  <2>1. fr' = fr
    BY <1>1, <1>8, <1>12 DEF Running, InPhase
  <2>2. fd' = [fd EXCEPT ![c] = @ \o sent]
    BY <1>8, <1>12
  <2>3. fr[c] = conn[c].start /\ fr[c] # -1 /\ fd[c] = conn[c].out
    BY <1>1, <1>4 DEF Running, InPhase
  <2>4. len \in 1..(log - fr[c] - Len(fd[c]))
    BY <1>2, <1>3, <2>3 DEF FeedOk
  <2>5. sent = [i \in 1..len |-> fr[c] + Len(fd[c]) + i - 1]
    BY <1>2, <1>3, <2>3 DEF FeedOk, sent
  <2> HIDE DEF fr, fd
  <2>6. \E m \in 1..(log - fr[c] - Len(fd[c])):
          fd' = [fd EXCEPT ![c] = @ \o [i \in 1..m |-> fr[c] + Len(fd[c]) + i - 1]]
    BY <2>2, <2>4, <2>5
  <2> QED
    BY <1>1, <2>1, <2>3, <2>6 DEF LocalFeed!Feed, LocalFeed!Off, fr, fd
<1> QED
  BY <1>11, <1>13 DEF LocalFeed!FeedNext

\* A connection ends: its feed stops.
LEMMA FeedStops ==
  ASSUME StreamTypes, NEW C \in SUBSET Conns,
         conn' = [d \in Conns |-> IF d \in C THEN ClosedConn ELSE conn[d]],
         UNCHANGED <<log, paneSize, typed>>
  PROVE  StreamTypes' /\ LocalFeed!FeedNext
<1>1. ClosedConn \in ConnStates /\ FeedOk(ClosedConn)
  BY StreamAssumption, EmptySeq DEF ClosedConn, ConnStates, Phases, Modes, FeedOk, StreamTypes
<1>2. \A d \in Conns: FeedOk(conn[d])'
  BY <1>1 DEF StreamTypes, FeedOk, Contiguous
<1>3. StreamTypes'
  BY <1>1, <1>2 DEF StreamTypes
<1>4. LocalFeed!Stop(C)
  <2>1. [d \in Conns |-> IF Running(d) THEN conn[d].start ELSE -1]'
          = [d \in Conns |-> IF d \in C THEN -1
                ELSE [e \in Conns |-> IF Running(e) THEN conn[e].start ELSE -1][d]]
    BY DEF Running, InPhase, ClosedConn
  <2>2. [d \in Conns |-> conn[d].out]'
          = [d \in Conns |-> IF d \in C THEN <<>> ELSE [e \in Conns |-> conn[e].out][d]]
    BY DEF ClosedConn
  <2> QED
    BY <2>1, <2>2 DEF LocalFeed!Stop, LocalFeed!Off
<1> QED
  BY <1>3, <1>4 DEF LocalFeed!FeedNext

\* The tail reads on: what it read follows what is queued.
LEMMA TailReads ==
  ASSUME StreamTypes, NEW c \in Conns, TailRead(c)
  PROVE  StreamTypes' /\ UNCHANGED LocalFeed!feedVars
<1> DEFINE q == conn[c].queue
           f == [from |-> conn[c].cursor, to |-> log]
           w == Append(q, f)
           r == [conn[c] EXCEPT !.queue = w, !.cursor = log]
<1>1. /\ conn' = [conn EXCEPT ![c] = r] /\ UNCHANGED <<log, paneSize, typed>>
      /\ conn[c].phase = "live" /\ conn[c].cursor < log /\ Len(q) < TailSlots
  BY DEF TailRead, StreamTypes, InPhase
<1>2. conn[c] \in ConnStates /\ FeedOk(conn[c]) /\ Contiguous(conn[c]) /\ log \in Nat
  BY <1>1, StreamAssumption DEF StreamTypes, FeedOk
<1>3. /\ conn[c].start \in Nat /\ conn[c].forwarded \in Nat /\ conn[c].cursor \in Nat
      /\ q \in Seq(Frames) /\ Len(q) \in Nat /\ f \in Frames
  BY <1>2 DEF ConnStates, Frames
<1>4. /\ w \in Seq(Frames) /\ Len(w) = Len(q) + 1
      /\ \A i \in 1..Len(q): w[i] = q[i]
      /\ w[Len(q) + 1] = f
  BY <1>3, AppendProperties
<1> HIDE DEF w
<1>5. /\ r \in ConnStates /\ r.queue = w /\ r.cursor = log /\ r.phase = "live"
      /\ r.start = conn[c].start /\ r.forwarded = conn[c].forwarded /\ r.out = conn[c].out
  <2> HIDE DEF q, f
  <2> QED
    BY <1>1, <1>2, <1>4 DEF ConnStates
<1> HIDE DEF r
<1>6. \A i \in 1..Len(q): /\ q[i].from \in Nat /\ q[i].to \in Nat
                          /\ q[i].from < q[i].to /\ q[i].to <= conn[c].cursor
  BY <1>2, <1>3, FrameAt DEF Contiguous
<1>7. Contiguous(r)
  <2>1. \A i \in 1..Len(w): w[i].from < w[i].to /\ w[i].to <= log
    <3> SUFFICES ASSUME NEW i \in 1..Len(w)
                 PROVE  w[i].from < w[i].to /\ w[i].to <= log
      OBVIOUS
    <3>1. CASE i = Len(q) + 1
      BY <1>1, <1>2, <1>3, <1>4, <3>1
    <3>2. CASE i # Len(q) + 1
      <4>1. i \in 1..Len(q)
        BY <1>3, <1>4, <3>2
      <4>2. w[i] = q[i] /\ q[i].to \in Nat /\ q[i].from < q[i].to /\ q[i].to <= conn[c].cursor
        BY <1>4, <1>6, <4>1
      <4> QED
        BY <1>1, <1>2, <1>3, <4>2
    <3> QED
      BY <3>1, <3>2
  <2>2. \A i, j \in 1..Len(w): i < j => w[i].to <= w[j].from
    <3> SUFFICES ASSUME NEW i \in 1..Len(w), NEW j \in 1..Len(w), i < j
                 PROVE  w[i].to <= w[j].from
      OBVIOUS
    <3>1. i \in 1..Len(q)
      BY <1>3, <1>4
    <3>2. CASE j = Len(q) + 1
      <4>1. w[j].from = conn[c].cursor
        BY <1>4, <3>2
      <4> QED
        BY <1>4, <1>6, <3>1, <4>1
    <3>3. CASE j # Len(q) + 1
      <4>1. j \in 1..Len(q)
        BY <1>3, <1>4, <3>3
      <4> QED
        BY <1>2, <1>4, <3>1, <4>1 DEF Contiguous
    <3> QED
      BY <3>2, <3>3
  <2>3. \A i \in 1..Len(w): i + 1 <= Len(w) => w[i].to = w[i + 1].from
    <3> SUFFICES ASSUME NEW i \in 1..Len(w), i + 1 <= Len(w)
                 PROVE  w[i].to = w[i + 1].from
      OBVIOUS
    <3>1. i \in 1..Len(q) /\ i \in Nat
      BY <1>3, <1>4
    <3>2. CASE i = Len(q)
      <4>1. q # <<>> /\ q[Len(q)].to = conn[c].cursor
        BY <1>2, <1>3, <3>1, EmptySeq DEF Contiguous
      <4>2. w[i + 1].from = conn[c].cursor
        BY <1>4, <3>2
      <4> QED
        BY <1>4, <3>1, <3>2, <4>1, <4>2
    <3>3. CASE i # Len(q)
      <4>1. i + 1 \in 1..Len(q) /\ i + 1 <= Len(q)
        BY <1>3, <3>1, <3>3
      <4>2. q[i].to = q[i + 1].from
        BY <1>2, <3>1, <4>1 DEF Contiguous
      <4> QED
        BY <1>4, <3>1, <4>1, <4>2
    <3> QED
      BY <3>2, <3>3
  <2>4. w # <<>> /\ w[Len(w)].to = log
    BY <1>3, <1>4, EmptySeq
  <2>5. w[1].from = conn[c].start + conn[c].forwarded
    <3>1. CASE q = <<>>
      <4>1. Len(q) = 0 /\ conn[c].cursor = conn[c].start + conn[c].forwarded
        BY <1>2, <3>1 DEF Contiguous
      <4> QED
        BY <1>4, <4>1
    <3>2. CASE q # <<>>
      <4>1. 1 \in 1..Len(q)
        BY <1>3, <3>2, EmptySeq
      <4> QED
        BY <1>2, <1>4, <3>2, <4>1 DEF Contiguous
    <3> QED
      BY <3>1, <3>2
  <2> QED
    BY <1>5, <2>1, <2>2, <2>3, <2>4, <2>5 DEF Contiguous
<1>8. FeedOk(r)
  <2>1. Len(w) <= TailSlots
    BY <1>1, <1>3, <1>4, StreamAssumption
  <2> QED
    BY <1>2, <1>5, <1>7, <2>1 DEF FeedOk
<1> QED
  BY <1>1, <1>5, <1>8, LiveMoves DEF Running, InPhase, StreamTypes

\* A connection that does not tail goes on and sends nothing of its log.
LEMMA QuietKeeps ==
  ASSUME StreamTypes, NEW c \in Conns, NEW r \in ConnStates,
         conn[c].phase # "live", r.phase # "live",
         r.queue = conn[c].queue, r.out = conn[c].out, r.forwarded = conn[c].forwarded,
         r.start <= log, r.cursor <= log,
         r.phase \in {"pinned", "early"} => r.start = r.cursor,
         conn' = [conn EXCEPT ![c] = r], UNCHANGED log, paneSize' \in Sizes, typed' \in Nat
  PROVE  StreamTypes' /\ UNCHANGED LocalFeed!feedVars
<1>1. /\ StreamTypes'
      /\ \A d \in Conns: conn'[d].out = conn[d].out
      /\ \A d \in Conns: Running(d)' = Running(d) /\ (Running(d) => conn'[d].start = conn[d].start)
  BY QuietMoves
<1> QED
  BY <1>1, FeedStutters

\* A connection that does not tail has neither queued nor sent anything.
LEMMA Quiet ==
  ASSUME StreamTypes, NEW c \in Conns, conn[c].phase # "live"
  PROVE  /\ conn[c] \in ConnStates
         /\ conn[c].queue = <<>> /\ conn[c].out = <<>> /\ conn[c].forwarded = 0
         /\ conn[c].start <= log /\ conn[c].cursor <= log /\ log \in Nat
         /\ conn[c].phase \in {"pinned", "early"} => conn[c].start = conn[c].cursor
  BY EmptySeq, StreamAssumption DEF StreamTypes, FeedOk

\* Opening a connection and what arrives before the replay moves no feed.
LEMMA Connects ==
  ASSUME StreamTypes, NEW c \in Conns, Connect(c)
  PROVE  StreamTypes' /\ UNCHANGED LocalFeed!feedVars
<1>1. conn[c].phase # "live" /\ UNCHANGED log /\ paneSize' \in Sizes /\ typed' \in Nat
  <2>0. paneSize \in Sizes /\ typed \in Nat
    BY DEF StreamTypes
  <2>1. conn[c].phase # "live"
    BY DEF Connect, Open, FirstResize, EarlyInput, ResizeTimeout, ReturnEarly, InPhase
  <2>2. UNCHANGED log /\ typed' \in {typed, typed + 1}
    BY DEF Connect, Open, FirstResize, EarlyInput, ResizeTimeout, ReturnEarly
  <2>3. paneSize' \in Sizes
    BY <2>0 DEF Connect, Open, FirstResize, EarlyInput, ResizeTimeout, ReturnEarly
  <2> QED
    BY <2>0, <2>1, <2>2, <2>3
<1> DEFINE old == conn[c]
<1>2. /\ old \in ConnStates
      /\ old.queue = <<>> /\ old.out = <<>> /\ old.forwarded = 0
      /\ old.start <= log /\ old.cursor <= log /\ log \in Nat
      /\ old.start \in Nat /\ old.cursor \in Nat /\ old.early \in Seq(Nat)
  BY <1>1, Quiet DEF ConnStates
<1>3. ASSUME NEW resume \in BOOLEAN,
             conn' = [conn EXCEPT ![c] = [ClosedConn EXCEPT !.phase = "wait", !.resume = resume]]
      PROVE  StreamTypes' /\ UNCHANGED LocalFeed!feedVars
  <2> DEFINE r == [ClosedConn EXCEPT !.phase = "wait", !.resume = resume]
  <2>1. /\ r \in ConnStates /\ r.phase = "wait" /\ r.queue = <<>> /\ r.out = <<>>
        /\ r.forwarded = 0 /\ r.start = 0 /\ r.cursor = 0 /\ conn' = [conn EXCEPT ![c] = r]
    BY <1>3, EmptySeq DEF ClosedConn, ConnStates, Phases, Modes
  <2> HIDE DEF r
  <2>2. /\ conn[c].queue = <<>> /\ conn[c].out = <<>> /\ conn[c].forwarded = 0
        /\ r.start <= log /\ r.cursor <= log /\ r.start = r.cursor /\ r.phase # "live"
    BY <1>2, <2>1
  <2> QED
    BY <1>1, <2>1, <2>2, QuietKeeps
<1>4. CASE \E k \in Clients, resume, redraw \in BOOLEAN: Open(k, c, resume, redraw)
  <2>1. PICK resume \in BOOLEAN, redraw \in BOOLEAN:
          conn' = [conn EXCEPT ![c] = [ClosedConn EXCEPT !.phase = "wait",
                                                         !.resume = resume /\ ~redraw]]
    BY <1>4 DEF Open
  <2>2. (resume /\ ~redraw) \in BOOLEAN
    OBVIOUS
  <2> QED
    BY <1>3, <2>1, <2>2
<1>5. CASE \E s \in Sizes: FirstResize(c, s)
  <2>1. PICK s \in Sizes: FirstResize(c, s)
    BY <1>5
  <2> DEFINE r == [old EXCEPT !.phase = "replay", !.size = s]
  <2>2. conn' = [conn EXCEPT ![c] = r]
    BY <2>1 DEF FirstResize, StreamTypes
  <2> HIDE DEF old
  <2>3. /\ r \in ConnStates /\ r.phase = "replay" /\ r.queue = old.queue /\ r.out = old.out
        /\ r.forwarded = old.forwarded /\ r.start = old.start /\ r.cursor = old.cursor
    BY <1>2 DEF ConnStates, Phases
  <2> HIDE DEF r
  <2> QED
    BY <1>1, <1>2, <2>2, <2>3, QuietKeeps DEF old
<1>6. CASE EarlyInput(c)
  <2> DEFINE keys == Append(old.early, typed')
             r == [old EXCEPT !.early = keys]
  <2>1. conn' = [conn EXCEPT ![c] = r] /\ old.phase = "wait"
    BY <1>6 DEF EarlyInput, StreamTypes, InPhase
  <2>2. keys \in Seq(Nat)
    BY <1>1, <1>2, AppendProperties
  <2> HIDE DEF old, keys
  <2>3. /\ r \in ConnStates /\ r.phase = "wait" /\ r.queue = old.queue /\ r.out = old.out
        /\ r.forwarded = old.forwarded /\ r.start = old.start /\ r.cursor = old.cursor
    BY <1>2, <2>1, <2>2 DEF ConnStates, Phases
  <2> HIDE DEF r
  <2> QED
    BY <1>1, <1>2, <2>1, <2>3, QuietKeeps DEF old
<1>7. CASE ResizeTimeout(c)
  <2> DEFINE r == [old EXCEPT !.phase = "replay"]
  <2>1. conn' = [conn EXCEPT ![c] = r]
    BY <1>7 DEF ResizeTimeout, StreamTypes
  <2> HIDE DEF old
  <2>2. /\ r \in ConnStates /\ r.phase = "replay" /\ r.queue = old.queue /\ r.out = old.out
        /\ r.forwarded = old.forwarded /\ r.start = old.start /\ r.cursor = old.cursor
    BY <1>2 DEF ConnStates, Phases
  <2> HIDE DEF r
  <2> QED
    BY <1>1, <1>2, <2>1, <2>2, QuietKeeps DEF old
<1>8. CASE ReturnEarly(c)
  <2> DEFINE r == ClosedConn
  <2>1. /\ r \in ConnStates /\ r.phase = "off" /\ r.queue = <<>> /\ r.out = <<>>
        /\ r.forwarded = 0 /\ r.start = 0 /\ r.cursor = 0 /\ conn' = [conn EXCEPT ![c] = r]
    BY <1>8, EmptySeq DEF ClosedConn, ConnStates, Phases, Modes, ReturnEarly
  <2> HIDE DEF r
  <2>2. /\ conn[c].queue = <<>> /\ conn[c].out = <<>> /\ conn[c].forwarded = 0
        /\ r.start <= log /\ r.cursor <= log /\ r.start = r.cursor /\ r.phase # "live"
    BY <1>2, <2>1
  <2> QED
    BY <1>1, <2>1, <2>2, QuietKeeps
<1> QED
  BY <1>4, <1>5, <1>6, <1>7, <1>8 DEF Connect

\* A replay sends from the checkpoint, the pane or the log, and no feed moves.
LEMMA Replays ==
  ASSUME StreamTypes, NEW c \in Conns,
         SendDelta(c) \/ SeekEnd(c) \/ Capture(c) \/ PinTail(c) \/ SendSnapshot(c) \/ Backfill(c)
  PROVE  StreamTypes' /\ UNCHANGED LocalFeed!feedVars
<1>1. conn[c].phase # "live" /\ UNCHANGED log /\ paneSize' \in Sizes /\ typed' \in Nat
  BY DEF SendDelta, SeekEnd, Capture, PinTail, SendSnapshot, Backfill, InPhase, StreamTypes
<1> DEFINE old == conn[c]
<1>2. /\ old \in ConnStates
      /\ old.queue = <<>> /\ old.out = <<>> /\ old.forwarded = 0
      /\ old.start <= log /\ old.cursor <= log /\ log \in Nat
      /\ old.start \in Nat /\ old.cursor \in Nat
      /\ old.phase \in {"pinned", "early"} => old.start = old.cursor
  BY <1>1, Quiet DEF ConnStates
<1>3. ASSUME NEW ph \in Phases \ {"live"}, NEW resume \in BOOLEAN, NEW m \in Modes, NEW cap \in Nat,
             ph \in {"pinned", "early"} => old.phase = "pinned",
             conn' = [conn EXCEPT ![c] = [old EXCEPT !.phase = ph, !.resume = resume,
                                                     !.mode = m, !.cap = cap]]
      PROVE  StreamTypes' /\ UNCHANGED LocalFeed!feedVars
  <2> DEFINE r == [old EXCEPT !.phase = ph, !.resume = resume, !.mode = m, !.cap = cap]
  <2> HIDE DEF old
  <2>1. /\ r \in ConnStates /\ r.phase = ph /\ r.queue = old.queue /\ r.out = old.out
        /\ r.forwarded = old.forwarded /\ r.start = old.start /\ r.cursor = old.cursor
    BY <1>2 DEF ConnStates
  <2>2. conn' = [conn EXCEPT ![c] = r]
    BY <1>3
  <2> HIDE DEF r
  <2>3. r.phase # "live" /\ (r.phase \in {"pinned", "early"} => r.start = r.cursor)
    BY <1>2, <1>3, <2>1
  <2> QED
    BY <1>1, <1>2, <2>1, <2>2, <2>3, QuietKeeps DEF old
<1>4. ASSUME NEW ph \in {"pinned", "early"}, NEW resume \in BOOLEAN, NEW m \in Modes,
             conn' = [conn EXCEPT ![c] = [old EXCEPT !.phase = ph, !.resume = resume, !.mode = m,
                                                     !.start = log, !.cursor = log]]
      PROVE  StreamTypes' /\ UNCHANGED LocalFeed!feedVars
  <2> DEFINE r == [old EXCEPT !.phase = ph, !.resume = resume, !.mode = m,
                              !.start = log, !.cursor = log]
  <2> HIDE DEF old
  <2>1. /\ r \in ConnStates /\ r.phase = ph /\ r.queue = old.queue /\ r.out = old.out
        /\ r.forwarded = old.forwarded /\ r.start = log /\ r.cursor = log
    BY <1>2 DEF ConnStates, Phases
  <2>2. conn' = [conn EXCEPT ![c] = r]
    BY <1>4
  <2> HIDE DEF r
  <2>3. r.phase # "live" /\ r.start <= log /\ r.cursor <= log
    BY <1>2, <2>1
  <2> QED
    BY <1>1, <1>2, <2>1, <2>2, <2>3, QuietKeeps DEF old
<1>5. /\ old.resume \in BOOLEAN /\ old.mode \in Modes /\ old.cap \in Nat
      /\ old = [phase |-> old.phase, resume |-> old.resume, size |-> old.size,
                early |-> old.early, mode |-> old.mode, cap |-> old.cap, start |-> old.start,
                cursor |-> old.cursor, queue |-> old.queue, forwarded |-> old.forwarded,
                out |-> old.out]
  BY <1>2 DEF ConnStates
<1>6. CASE SendDelta(c)
  <2>1. conn' = [conn EXCEPT ![c] = [old EXCEPT !.phase = "delta", !.resume = old.resume,
                                                !.mode = "delta", !.cap = old.cap]]
    BY <1>5, <1>6 DEF SendDelta, StreamTypes
  <2>2. "delta" \in Phases \ {"live"} /\ "delta" \in Modes
    BY DEF Phases, Modes
  <2> QED
    BY <1>3, <1>5, <2>1, <2>2
<1>7. CASE SeekEnd(c)
  <2>1. conn' = [conn EXCEPT ![c] = [old EXCEPT !.phase = "early", !.resume = FALSE,
                                       !.mode = old.mode, !.start = log, !.cursor = log]]
    BY <1>5, <1>7 DEF SeekEnd, StreamTypes
  <2> QED
    BY <1>4, <1>5, <2>1
<1>8. CASE Capture(c)
  <2>1. conn' = [conn EXCEPT ![c] = [old EXCEPT !.phase = "captured", !.resume = FALSE,
                                                !.mode = "snapshot", !.cap = log]]
    BY <1>8 DEF Capture, StreamTypes
  <2>2. "captured" \in Phases \ {"live"} /\ "snapshot" \in Modes
    BY DEF Phases, Modes
  <2> QED
    BY <1>2, <1>3, <2>1, <2>2
<1>9. CASE PinTail(c)
  <2>1. conn' = [conn EXCEPT ![c] = [old EXCEPT !.phase = "pinned", !.resume = old.resume,
                                       !.mode = old.mode, !.start = log, !.cursor = log]]
    BY <1>5, <1>9 DEF PinTail, StreamTypes
  <2> QED
    BY <1>4, <1>5, <2>1
<1>10. CASE SendSnapshot(c)
  <2>1. conn' = [conn EXCEPT ![c] = [old EXCEPT !.phase = "early", !.resume = old.resume,
                                                !.mode = old.mode, !.cap = 0]]
    BY <1>5, <1>10 DEF SendSnapshot, StreamTypes
  <2>2. "early" \in Phases \ {"live"} /\ old.phase = "pinned" /\ 0 \in Nat
    BY <1>10 DEF Phases, SendSnapshot, InPhase
  <2> QED
    BY <1>3, <1>5, <2>1, <2>2
<1>11. CASE Backfill(c)
  <2>1. conn' = [conn EXCEPT ![c] = [old EXCEPT !.phase = "early", !.resume = FALSE,
                                       !.mode = "backfill", !.start = log, !.cursor = log]]
    BY <1>11 DEF Backfill, StreamTypes
  <2>2. "backfill" \in Modes
    BY DEF Modes
  <2> QED
    BY <1>4, <2>1, <2>2
<1> QED
  BY <1>6, <1>7, <1>8, <1>9, <1>10, <1>11

\* Keys, sizes and repaints of a live connection leave its feed alone.
LEMMA LiveRests ==
  ASSUME StreamTypes, NEW c \in Conns,
         Refresh(c) \/ LiveInput(c) \/ (\E s \in Sizes: Resize(c, s))
  PROVE  StreamTypes' /\ UNCHANGED LocalFeed!feedVars
<1>1. /\ UNCHANGED log /\ paneSize' \in Sizes /\ typed' \in Nat
      /\ conn[c].phase = "live" /\ Running(c)
  BY DEF Refresh, LiveInput, Resize, StreamTypes, Running, InPhase
<1> DEFINE old == conn[c]
<1>2. old \in ConnStates /\ FeedOk(old)
  BY DEF StreamTypes
<1>3. ASSUME NEW m \in Modes, NEW s \in Sizes \cup {NoSize},
             conn' = [conn EXCEPT ![c] = [old EXCEPT !.mode = m, !.size = s]]
      PROVE  StreamTypes' /\ UNCHANGED LocalFeed!feedVars
  <2> DEFINE r == [old EXCEPT !.mode = m, !.size = s]
  <2> HIDE DEF old
  <2>1. /\ r \in ConnStates /\ r.phase = old.phase /\ r.queue = old.queue /\ r.out = old.out
        /\ r.forwarded = old.forwarded /\ r.start = old.start /\ r.cursor = old.cursor
    BY <1>2 DEF ConnStates
  <2>2. conn' = [conn EXCEPT ![c] = r]
    BY <1>3
  <2> HIDE DEF r
  <2>3. FeedOk(r)
    BY <1>2, <2>1 DEF FeedOk, Contiguous
  <2> QED
    BY <1>1, <2>1, <2>2, <2>3, LiveMoves DEF old
<1>4. /\ old.mode \in Modes /\ old.size \in Sizes \cup {NoSize}
      /\ old = [phase |-> old.phase, resume |-> old.resume, size |-> old.size,
                early |-> old.early, mode |-> old.mode, cap |-> old.cap, start |-> old.start,
                cursor |-> old.cursor, queue |-> old.queue, forwarded |-> old.forwarded,
                out |-> old.out]
  BY <1>2 DEF ConnStates
<1>5. CASE Refresh(c)
  <2>1. /\ conn' = [conn EXCEPT ![c] = [old EXCEPT !.mode = "refreshed", !.size = old.size]]
        /\ "refreshed" \in Modes
    BY <1>4, <1>5 DEF Refresh, StreamTypes, Modes
  <2> QED
    BY <1>3, <1>4, <2>1
<1>6. CASE LiveInput(c)
  <2>1. conn' = [conn EXCEPT ![c] = [old EXCEPT !.mode = old.mode, !.size = old.size]]
    BY <1>4, <1>6 DEF LiveInput, StreamTypes
  <2> QED
    BY <1>3, <1>4, <2>1
<1>7. CASE \E s \in Sizes: Resize(c, s)
  <2>1. PICK s \in Sizes: Resize(c, s)
    BY <1>7
  <2>2. conn' = [conn EXCEPT ![c] = [old EXCEPT !.mode = old.mode, !.size = s]]
    BY <1>4, <2>1 DEF Resize, StreamTypes
  <2> QED
    BY <1>3, <1>4, <2>2
<1> QED
  BY <1>5, <1>6, <1>7

\* Every step keeps the stream's types and is a step of the feed or none.
LEMMA StreamSteps ==
  ASSUME StreamTypes, StreamNext
  PROVE  StreamTypes' /\ [LocalFeed!FeedNext]_(LocalFeed!feedVars)
<1>1. CASE PaneWrites
  <2>1. /\ log \in Nat /\ log' = log + 1 /\ log' \in 0..MaxLog
        /\ UNCHANGED <<conn, paneSize, typed>>
    BY <1>1, StreamAssumption DEF PaneWrites, StreamTypes
  <2>2. ASSUME NEW c \in Conns PROVE FeedOk(conn[c])'
    <3>1. /\ conn[c].cursor \in Nat /\ conn[c].start \in Nat /\ conn'[c] = conn[c]
          /\ FeedOk(conn[c])
      BY <2>1 DEF ConnStates, StreamTypes
    <3>2. conn[c].cursor <= log' /\ conn[c].start <= log'
      <4>1. conn[c].cursor <= log /\ conn[c].start <= log
        BY <3>1 DEF FeedOk
      <4> QED
        BY <2>1, <3>1, <4>1
    <3>3. Contiguous(conn[c])' = Contiguous(conn[c])
      BY <3>1 DEF Contiguous
    <3> QED
      BY <3>1, <3>2, <3>3 DEF FeedOk
  <2>3. LocalFeed!Write
    BY <2>1 DEF LocalFeed!Write, Running, InPhase
  <2> QED
    BY <2>1, <2>2, <2>3 DEF StreamTypes, LocalFeed!FeedNext
<1>2. CASE StreamRestart
  <2>1. conn' = [d \in Conns |-> IF d \in Conns THEN ClosedConn ELSE conn[d]]
    BY <1>2 DEF StreamRestart
  <2> QED
    BY <1>2, <2>1, FeedStops DEF StreamRestart
<1>3. ASSUME NEW c \in Conns, Close(c)
      PROVE  StreamTypes' /\ LocalFeed!FeedNext
  <2>1. conn' = [d \in Conns |-> IF d \in {c} THEN ClosedConn ELSE conn[d]]
    BY <1>3 DEF Close, StreamTypes
  <2> QED
    BY <1>3, <2>1, FeedStops DEF Close
<1>4. ASSUME NEW c \in Conns, Connect(c) \/ Replay(c) \/ Live(c)
      PROVE  StreamTypes' /\ [LocalFeed!FeedNext]_(LocalFeed!feedVars)
  <2>1. CASE Connect(c)
    BY <2>1, Connects
  <2>2. CASE Replay(c)
    BY <2>2, Replays, FeedStarts DEF Replay
  <2>3. CASE Live(c)
    <3>1. CASE \E n \in 1..TailSlots: Forward(c, n)
      BY <3>1, FeedFeeds
    <3> QED
      BY <1>3, <2>3, <3>1, TailReads, LiveRests DEF Live
  <2> QED
    BY <1>4, <2>1, <2>2, <2>3
<1> QED
  BY <1>1, <1>2, <1>4 DEF StreamNext

\* At the start there is no feed.
LEMMA StreamStarts == StreamInit => StreamTypes /\ LocalFeed!FeedInit
<1> SUFFICES ASSUME StreamInit PROVE StreamTypes /\ LocalFeed!FeedInit
  OBVIOUS
<1>1. ClosedConn \in ConnStates /\ log = 0 /\ conn = [c \in Conns |-> ClosedConn]
  BY EmptySeq DEF ClosedConn, ConnStates, Phases, Modes, StreamInit
<1>2. FeedOk(ClosedConn)
  BY <1>1, EmptySeq, StreamAssumption DEF ClosedConn, FeedOk
<1>3. LocalFeed!FeedInit
  BY <1>1 DEF LocalFeed!FeedInit, LocalFeed!Off, ClosedConn, Running, InPhase
<1> QED
  BY <1>1, <1>2, <1>3, StreamAssumption DEF StreamTypes, StreamInit

\* A behaviour of the daemon's components is a feed, as far as the stream goes.
LEMMA PartSteps ==
  ASSUME StreamTypes, [MCNext]_MCVars
  PROVE  StreamTypes' /\ [LocalFeed!FeedNext]_(LocalFeed!feedVars)
<1>1. StreamNext \/ UNCHANGED streamVars
  BY DEF MCNext, MCVars, Only
<1>2. CASE UNCHANGED streamVars
  <2>1. UNCHANGED <<log, conn, paneSize, typed>>
    BY <1>2 DEF streamVars
  <2>2. StreamTypes'
    BY <2>1 DEF StreamTypes, FeedOk, Contiguous
  <2>3. UNCHANGED LocalFeed!feedVars
    BY <2>1, FeedStutters DEF Running, InPhase
  <2> QED
    BY <2>2, <2>3
<1> QED
  BY <1>1, <1>2, StreamSteps

\* Every connection hands over the log from where its tail began, each byte
\* once and in order (routes/sessions.rs stream_session).
THEOREM LocalStreamIsFeed == MCSpec => LocalStreamFeeds
<1>1. MCInit => StreamTypes /\ LocalFeed!FeedInit
  BY StreamStarts DEF MCInit
<1>2. StreamTypes /\ [MCNext]_MCVars => StreamTypes' /\ [LocalFeed!FeedNext]_(LocalFeed!feedVars)
  BY PartSteps
<1> QED
  BY <1>1, <1>2, PTL DEF MCSpec, LocalStreamFeeds, LocalFeed!FeedSpec

-------------------------------------------------------------------------------
(* The stream and its snapshots: what a client has seen of the log.        *)

\* A terminal: where its parser is, and what happened since its last reset.
ParserStates == [to: Nat, replayed: BOOLEAN, refreshed: BOOLEAN]

\* A capture shows no more than the log held, and the tail starts behind it.
PinOk(r) ==
  /\ r.phase = "captured" => r.cap <= log
  /\ r.phase = "pinned" => r.cap <= r.start
  /\ r.phase = "delta" => r.mode = "delta"

\* Whoever was painted from a snapshot has seen nothing twice and nothing
\* that is still to come.
SeenOk(r, p) ==
  (r.phase \in {"early", "live"} /\ r.mode = "snapshot")
    => ~p.replayed /\ p.to <= r.start + r.forwarded

\* The terminals, and what they have seen of the connection they read.
ViewInv ==
  /\ parser \in [Clients -> ParserStates]
  /\ listening \in [Clients -> Conns \cup {NoConn}]
  /\ \A c \in Conns: PinOk(conn[c])
  /\ \A c \in Conns, k \in Clients: listening[k] = c => SeenOk(conn[c], parser[k])

\* One connection goes on, and only who listens to it sees anything.
LEMMA ViewMoves ==
  ASSUME StreamTypes, ViewInv, NEW c \in Conns, log' = log,
         \A d \in Conns \ {c}: conn'[d] = conn[d],
         parser' \in [Clients -> ParserStates],
         listening' \in [Clients -> Conns \cup {NoConn}],
         \A k \in Clients: listening'[k] # c =>
           listening'[k] = listening[k] /\ parser'[k] = parser[k],
         PinOk(conn'[c]), \A k \in Clients: listening'[k] = c => SeenOk(conn'[c], parser'[k])
  PROVE  ViewInv'
<1>1. ASSUME NEW d \in Conns PROVE PinOk(conn[d])'
  BY DEF ViewInv, PinOk
<1>2. ASSUME NEW d \in Conns, NEW k \in Clients, listening'[k] = d
      PROVE  SeenOk(conn[d], parser[k])'
  <2>1. CASE d = c
    BY <1>2, <2>1 DEF SeenOk
  <2>2. CASE d # c
    <3>1. conn'[d] = conn[d] /\ listening[k] = d /\ parser'[k] = parser[k]
      BY <1>2, <2>2
    <3>2. SeenOk(conn[d], parser[k])
      BY <3>1 DEF ViewInv
    <3> QED
      BY <3>1, <3>2 DEF SeenOk
  <2> QED
    BY <2>1, <2>2
<1> QED
  BY <1>1, <1>2 DEF ViewInv

\* A frame reaches who listens to the connection.
LEMMA ReceiveIs ==
  ASSUME ViewInv, NEW c \in Conns, NEW p, Receive(c, p),
         \A k \in Clients: p[k] \in ParserStates
  PROVE  /\ parser' \in [Clients -> ParserStates]
         /\ \A k \in Clients: parser'[k] = IF listening[k] = c THEN p[k] ELSE parser[k]
  BY DEF Receive, ViewInv

\* What a replay paints or plays is a parser state.
LEMMA PlayIs ==
  ASSUME NEW p \in ParserStates, NEW f \in Int, NEW t \in Nat
  PROVE  /\ Play(p, f, t) \in ParserStates
         /\ Play(p, f, t).to = t /\ Play(p, f, t).replayed = (p.replayed \/ f < p.to)
  BY DEF Play, ParserStates

\* While a connection stays before its live loop, or ends, nobody has seen a
\* snapshot of it.
LEMMA ViewStays ==
  ASSUME StreamTypes, ViewInv, NEW c \in Conns,
         conn'[c].phase \in {"off", "wait", "replay"},
         \A d \in Conns \ {c}: conn'[d] = conn[d], log' = log, parser' = parser,
         listening' \in [Clients -> Conns \cup {NoConn}],
         \A k \in Clients: listening'[k] # c => listening'[k] = listening[k]
  PROVE  ViewInv'
<1>1. PinOk(conn'[c]) /\ \A k \in Clients: SeenOk(conn'[c], parser'[k])
  BY DEF PinOk, SeenOk
<1>2. parser' \in [Clients -> ParserStates] /\ \A k \in Clients: parser'[k] = parser[k]
  BY DEF ViewInv
<1> QED
  BY <1>1, <1>2, ViewMoves

\* A connection before its replay has painted nothing.
LEMMA ViewConnects ==
  ASSUME StreamTypes, ViewInv, NEW c \in Conns, Connect(c)
  PROVE  ViewInv'
<1>1. conn[c] \in ConnStates
  BY DEF StreamTypes
<1>2. \A d \in Conns \ {c}: conn'[d] = conn[d]
  BY DEF Connect, Open, FirstResize, EarlyInput, ResizeTimeout, ReturnEarly, StreamTypes
<1>3. conn'[c].phase \in {"off", "wait", "replay"}
  <2>1. ASSUME NEW k \in Clients, NEW resume \in BOOLEAN, NEW redraw \in BOOLEAN,
               Open(k, c, resume, redraw)
        PROVE  conn'[c].phase = "wait"
    BY <2>1 DEF Open, StreamTypes, ClosedConn
  <2>2. ASSUME NEW s \in Sizes, FirstResize(c, s)
        PROVE  conn'[c].phase = "replay"
    BY <1>1, <2>2 DEF FirstResize, StreamTypes, ConnStates
  <2>3. CASE EarlyInput(c)
    <3>1. conn'[c].phase = conn[c].phase
      BY <1>1, <2>3 DEF EarlyInput, StreamTypes, ConnStates
    <3> QED
      BY <2>3, <3>1 DEF EarlyInput, InPhase
  <2>4. CASE ResizeTimeout(c)
    BY <1>1, <2>4 DEF ResizeTimeout, StreamTypes, ConnStates
  <2>5. CASE ReturnEarly(c)
    BY <2>5 DEF ReturnEarly, StreamTypes, ClosedConn
  <2> QED
    BY <2>1, <2>2, <2>3, <2>4, <2>5 DEF Connect
<1>4. log' = log /\ parser' = parser
  BY DEF Connect, Open, FirstResize, EarlyInput, ResizeTimeout, ReturnEarly
<1>5. /\ listening' \in [Clients -> Conns \cup {NoConn}]
      /\ \A k \in Clients: listening'[k] # c => listening'[k] = listening[k]
  <2>1. ASSUME NEW k \in Clients, NEW resume \in BOOLEAN, NEW redraw \in BOOLEAN,
               Open(k, c, resume, redraw)
        PROVE  listening' = [listening EXCEPT ![k] = c]
    BY <2>1 DEF Open
  <2>2. listening' = listening \/ \E k \in Clients: listening' = [listening EXCEPT ![k] = c]
    BY <2>1 DEF Connect, FirstResize, EarlyInput, ResizeTimeout, ReturnEarly
  <2> QED
    BY <2>2 DEF ViewInv
<1> QED
  BY <1>2, <1>3, <1>4, <1>5, ViewStays

\* A replay paints what the log held, or says that it played the log itself.
LEMMA ViewReplays ==
  ASSUME StreamTypes, ViewInv, NEW c \in Conns, Replay(c)
  PROVE  ViewInv'
<1> DEFINE old == conn[c]
<1>0. old \in ConnStates /\ PinOk(old) /\ old.phase # "live" /\ log' = log /\ listening' = listening
  BY DEF StreamTypes, ViewInv, Replay, SendDelta, SeekEnd, Capture, PinTail, SendSnapshot,
         Backfill, GoLive, InPhase
<1>1. old.start \in Nat /\ old.cap \in Nat /\ old.forwarded = 0 /\ log \in Nat
  BY <1>0, Quiet DEF ConnStates
<1>2. ASSUME NEW r, conn' = [conn EXCEPT ![c] = r], PinOk(r),
             parser' \in [Clients -> ParserStates],
             \A k \in Clients: listening[k] # c => parser'[k] = parser[k],
             \A k \in Clients: listening[k] = c => SeenOk(r, parser'[k])
      PROVE  ViewInv'
  <2>1. /\ listening' \in [Clients -> Conns \cup {NoConn}]
        /\ \A k \in Clients: listening'[k] = listening[k]
    BY <1>0 DEF ViewInv
  <2>2. conn'[c] = r /\ \A d \in Conns \ {c}: conn'[d] = conn[d]
    BY <1>2 DEF StreamTypes
  <2> QED
    BY <1>0, <1>2, <2>1, <2>2, ViewMoves
<1>3. CASE SendDelta(c)
  <2> DEFINE r == [old EXCEPT !.phase = "delta", !.mode = "delta"]
  <2>1. conn' = [conn EXCEPT ![c] = r]
    BY <1>3 DEF SendDelta, StreamTypes
  <2>2. r.phase = "delta" /\ r.mode = "delta"
    BY <1>0 DEF ConnStates
  <2>3. /\ parser' \in [Clients -> ParserStates]
        /\ \A k \in Clients: listening[k] # c => parser'[k] = parser[k]
    <3>1. CASE UNCHANGED parser
      BY <3>1 DEF ViewInv
    <3>2. CASE Receive(c, [k \in Clients |-> Play(parser[k], checkpoint.pos, log)])
      <4>1. \A k \in Clients: Play(parser[k], checkpoint.pos, log) \in ParserStates
        BY <1>1 DEF Play, ParserStates, ViewInv
      <4> DEFINE p == [k \in Clients |-> Play(parser[k], checkpoint.pos, log)]
      <4>2. \A k \in Clients: p[k] \in ParserStates
        BY <4>1
      <4> HIDE DEF p
      <4> QED
        BY <3>2, <4>2, ReceiveIs DEF p
    <3> QED
      BY <1>3, <3>1, <3>2 DEF SendDelta
  <2> HIDE DEF r
  <2>4. PinOk(r) /\ \A k \in Clients: SeenOk(r, parser'[k])
    BY <2>2 DEF PinOk, SeenOk
  <2> QED
    BY <1>2, <2>1, <2>3, <2>4
<1>4. CASE SeekEnd(c)
  <2> DEFINE r == [old EXCEPT !.phase = "early", !.resume = FALSE, !.start = log, !.cursor = log]
  <2>1. /\ conn' = [conn EXCEPT ![c] = r] /\ parser' = parser /\ old.phase = "delta"
    BY <1>4 DEF SeekEnd, StreamTypes, InPhase
  <2>2. r.phase = "early" /\ r.mode = "delta"
    BY <1>0, <2>1 DEF ConnStates, PinOk
  <2> HIDE DEF r
  <2>4. PinOk(r) /\ \A k \in Clients: SeenOk(r, parser'[k])
    BY <2>2 DEF PinOk, SeenOk
  <2> QED
    BY <1>2, <2>1, <2>4 DEF ViewInv
<1>5. CASE Capture(c)
  <2> DEFINE r == [old EXCEPT !.phase = "captured", !.resume = FALSE, !.mode = "snapshot",
                              !.cap = log]
  <2>1. conn' = [conn EXCEPT ![c] = r] /\ parser' = parser
    BY <1>5 DEF Capture, StreamTypes
  <2>2. r.phase = "captured" /\ r.cap = log
    BY <1>0 DEF ConnStates
  <2> HIDE DEF r
  <2>4. PinOk(r) /\ \A k \in Clients: SeenOk(r, parser'[k])
    BY <1>1, <2>2 DEF PinOk, SeenOk
  <2> QED
    BY <1>2, <2>1, <2>4 DEF ViewInv
<1>6. CASE PinTail(c)
  <2> DEFINE r == [old EXCEPT !.phase = "pinned", !.start = log, !.cursor = log]
  <2>1. conn' = [conn EXCEPT ![c] = r] /\ parser' = parser /\ old.phase = "captured"
    BY <1>6 DEF PinTail, StreamTypes, InPhase
  <2>2. r.phase = "pinned" /\ r.cap = old.cap /\ r.start = log /\ old.cap <= log
    BY <1>0, <2>1 DEF ConnStates, PinOk
  <2> HIDE DEF r
  <2>4. PinOk(r) /\ \A k \in Clients: SeenOk(r, parser'[k])
    BY <1>1, <2>2 DEF PinOk, SeenOk
  <2> QED
    BY <1>2, <2>1, <2>4 DEF ViewInv
<1>7. CASE SendSnapshot(c)
  <2> DEFINE r == [old EXCEPT !.phase = "early", !.cap = 0]
             p == [k \in Clients |-> Repaint(old.cap, FALSE)]
  <2>1. conn' = [conn EXCEPT ![c] = r] /\ Receive(c, p) /\ old.phase = "pinned"
    BY <1>7 DEF SendSnapshot, StreamTypes, InPhase
  <2>2. /\ r.phase = "early" /\ r.start = old.start /\ r.forwarded = 0
        /\ old.cap <= old.start
    BY <1>0, <1>1, <2>1 DEF ConnStates, PinOk
  <2>3. \A k \in Clients: p[k] \in ParserStates /\ p[k].to = old.cap /\ p[k].replayed = FALSE
    BY <1>1 DEF Repaint, ParserStates
  <2> HIDE DEF r, p
  <2>4. /\ parser' \in [Clients -> ParserStates]
        /\ \A k \in Clients: parser'[k] = IF listening[k] = c THEN p[k] ELSE parser[k]
    BY <2>1, <2>3, ReceiveIs
  <2>5. PinOk(r) /\ \A k \in Clients: listening[k] = c => SeenOk(r, parser'[k])
    BY <1>1, <2>2, <2>3, <2>4 DEF PinOk, SeenOk
  <2> QED
    BY <1>2, <2>1, <2>4, <2>5
<1>8. CASE Backfill(c)
  <2> DEFINE r == [old EXCEPT !.phase = "early", !.resume = FALSE, !.mode = "backfill",
                              !.start = log, !.cursor = log]
             f == IF log > BackfillBytes THEN log - BackfillBytes ELSE 0
             p == [k \in Clients |-> Play(parser[k], f, log)]
  <2>1. conn' = [conn EXCEPT ![c] = r] /\ (Receive(c, p) \/ UNCHANGED parser)
    BY <1>8 DEF Backfill, StreamTypes
  <2>2. r.phase = "early" /\ r.mode = "backfill"
    BY <1>0 DEF ConnStates
  <2>3. \A k \in Clients: p[k] \in ParserStates
    BY <1>1 DEF Play, ParserStates, ViewInv
  <2> HIDE DEF r, p
  <2>4. /\ parser' \in [Clients -> ParserStates]
        /\ \A k \in Clients: listening[k] # c => parser'[k] = parser[k]
    BY <2>1, <2>3, ReceiveIs DEF ViewInv
  <2>5. PinOk(r) /\ \A k \in Clients: SeenOk(r, parser'[k])
    BY <2>2 DEF PinOk, SeenOk
  <2> QED
    BY <1>2, <2>1, <2>4, <2>5
<1>9. CASE GoLive(c)
  <2> DEFINE r == [old EXCEPT !.phase = "live", !.early = <<>>]
  <2>1. conn' = [conn EXCEPT ![c] = r] /\ parser' = parser /\ old.phase = "early"
    BY <1>9 DEF GoLive, StreamTypes, InPhase
  <2>2. r.phase = "live" /\ r.mode = old.mode /\ r.start = old.start /\ r.forwarded = old.forwarded
    BY <1>0 DEF ConnStates
  <2> HIDE DEF r
  <2>4. PinOk(r) /\ \A k \in Clients: listening[k] = c => SeenOk(r, parser'[k])
    BY <2>1, <2>2 DEF PinOk, SeenOk, ViewInv
  <2> QED
    BY <1>2, <2>1, <2>4 DEF ViewInv
<1> QED
  BY <1>3, <1>4, <1>5, <1>6, <1>7, <1>8, <1>9 DEF Replay

\* A forwarded frame goes on where the terminal is.
LEMMA ViewForwards ==
  ASSUME StreamTypes, ViewInv, NEW c \in Conns, NEW n \in 1..TailSlots, Forward(c, n)
  PROVE  ViewInv'
<1> DEFINE q == conn[c].queue
           len == QueuedLen(q, n)
           first == q[1].from
           sent == [i \in 1..len |-> first + i - 1]
           p == [k \in Clients |-> Play(parser[k], first, first + len)]
           r == [conn[c] EXCEPT !.queue = SubSeq(q, n + 1, Len(q)),
                                !.forwarded = @ + len,
                                !.out = @ \o sent]
<1>1. /\ conn' = [conn EXCEPT ![c] = r] /\ log' = log /\ listening' = listening
      /\ n \in 1..Len(q) /\ conn[c].phase = "live" /\ Receive(c, p)
  BY DEF Forward, StreamTypes, InPhase
<1>2. /\ conn[c] \in ConnStates /\ Contiguous(conn[c]) /\ log \in Nat /\ conn[c].cursor <= log
      /\ conn[c].start \in Nat /\ conn[c].forwarded \in Nat
  BY <1>1, StreamAssumption DEF StreamTypes, FeedOk, ConnStates
<1>3. /\ len \in 1..(log - conn[c].start - conn[c].forwarded)
      /\ first = conn[c].start + conn[c].forwarded
  BY <1>1, <1>2, QueuedIs
<1>4. /\ r.phase = "live" /\ r.mode = conn[c].mode /\ r.start = conn[c].start
      /\ r.forwarded = conn[c].forwarded + len
  <2> HIDE DEF len, sent, q
  <2> QED
    BY <1>1, <1>2 DEF ConnStates
<1> HIDE DEF r, len, first
<1>5. \A k \in Clients: /\ parser[k] \in ParserStates /\ p[k] \in ParserStates
                        /\ p[k].to = first + len
                        /\ p[k].replayed = (parser[k].replayed \/ first < parser[k].to)
  <2>1. first \in Int /\ first + len \in Nat
    BY <1>2, <1>3
  <2> QED
    BY <2>1, PlayIs DEF ViewInv
<1> HIDE DEF p
<1>6. /\ parser' \in [Clients -> ParserStates]
      /\ \A k \in Clients: parser'[k] = IF listening[k] = c THEN p[k] ELSE parser[k]
  BY <1>1, <1>5, ReceiveIs
<1>7. ASSUME NEW k \in Clients, listening[k] = c
      PROVE  SeenOk(r, parser'[k])
  <2>1. SeenOk(conn[c], parser[k]) /\ parser[k].to \in Nat
    BY <1>5, <1>7 DEF ViewInv, ParserStates
  <2>2. ASSUME conn[c].mode = "snapshot" PROVE ~p[k].replayed /\ p[k].to <= r.start + r.forwarded
    <3>1. ~parser[k].replayed /\ parser[k].to <= conn[c].start + conn[c].forwarded
      BY <1>1, <2>1, <2>2 DEF SeenOk
    <3>2. len \in Nat /\ first \in Nat /\ ~(first < parser[k].to)
          /\ r.start + r.forwarded = first + len
      BY <1>2, <1>3, <1>4, <2>1, <3>1
    <3>3. p[k].to <= r.start + r.forwarded
      BY <1>5, <3>2
    <3> QED
      BY <1>5, <3>1, <3>2, <3>3
  <2> QED
    BY <1>4, <1>6, <1>7, <2>2 DEF SeenOk
<1>8. PinOk(r)
  BY <1>4 DEF PinOk
<1>9. /\ listening' \in [Clients -> Conns \cup {NoConn}]
      /\ \A k \in Clients: listening'[k] = listening[k]
  BY <1>1 DEF ViewInv
<1>10. conn'[c] = r /\ \A d \in Conns \ {c}: conn'[d] = conn[d]
  BY <1>1 DEF StreamTypes
<1> QED
  BY <1>1, <1>6, <1>7, <1>8, <1>9, <1>10, ViewMoves

\* Reading the log, typing and resizing show nothing, and the end forgets.
LEMMA ViewRests ==
  ASSUME StreamTypes, ViewInv, NEW c \in Conns,
         TailRead(c) \/ LiveInput(c) \/ Close(c) \/ (\E s \in Sizes: Resize(c, s))
  PROVE  ViewInv'
<1> DEFINE old == conn[c]
<1>0. old \in ConnStates /\ old.phase = "live" /\ log' = log /\ parser' = parser /\ listening' = listening
  BY DEF StreamTypes, TailRead, LiveInput, Close, Resize, InPhase
<1>1. ASSUME NEW r, conn' = [conn EXCEPT ![c] = r],
             r.phase = "live", r.mode = old.mode, r.start = old.start, r.forwarded = old.forwarded
      PROVE  ViewInv'
  <2>1. PinOk(r) /\ \A k \in Clients: listening[k] = c => SeenOk(r, parser'[k])
    BY <1>0, <1>1 DEF PinOk, SeenOk, ViewInv
  <2>2. /\ listening' = listening /\ parser' \in [Clients -> ParserStates]
        /\ listening' \in [Clients -> Conns \cup {NoConn}]
        /\ \A k \in Clients: parser'[k] = parser[k]
    BY <1>0 DEF ViewInv
  <2>3. conn'[c] = r /\ \A d \in Conns \ {c}: conn'[d] = conn[d]
    BY <1>1 DEF StreamTypes
  <2> QED
    BY <1>0, <1>1, <2>1, <2>2, <2>3, ViewMoves
<1>2. CASE TailRead(c)
  <2> DEFINE w == Append(old.queue, [from |-> old.cursor, to |-> log])
             r == [old EXCEPT !.queue = w, !.cursor = log]
  <2>1. conn' = [conn EXCEPT ![c] = r]
    BY <1>2 DEF TailRead, StreamTypes
  <2> HIDE DEF old, w
  <2>2. r.phase = old.phase /\ r.mode = old.mode /\ r.start = old.start
        /\ r.forwarded = old.forwarded
    BY <1>0 DEF ConnStates
  <2> HIDE DEF r
  <2> QED
    BY <1>0, <1>1, <2>1, <2>2 DEF old
<1>3. CASE LiveInput(c)
  <2>1. conn' = [conn EXCEPT ![c] = old]
    BY <1>3 DEF LiveInput, StreamTypes
  <2> QED
    BY <1>0, <1>1, <2>1
<1>4. CASE Close(c)
  <2>1. conn' = [conn EXCEPT ![c] = ClosedConn] /\ ClosedConn.phase = "off"
    BY <1>4 DEF Close, ClosedConn
  <2>2. conn'[c].phase = "off" /\ \A d \in Conns \ {c}: conn'[d] = conn[d]
    BY <2>1 DEF StreamTypes
  <2>3. /\ listening' \in [Clients -> Conns \cup {NoConn}]
        /\ \A k \in Clients: listening'[k] = listening[k]
    BY <1>0 DEF ViewInv
  <2> QED
    BY <1>0, <2>2, <2>3, ViewStays
<1>5. CASE \E s \in Sizes: Resize(c, s)
  <2>1. PICK s \in Sizes: Resize(c, s)
    BY <1>5
  <2> DEFINE r == [old EXCEPT !.size = s]
  <2>2. conn' = [conn EXCEPT ![c] = r]
    BY <2>1 DEF Resize, StreamTypes
  <2>3. r.phase = old.phase /\ r.mode = old.mode /\ r.start = old.start
        /\ r.forwarded = old.forwarded
    BY <1>0 DEF ConnStates
  <2> HIDE DEF r
  <2> QED
    BY <1>0, <1>1, <2>2, <2>3
<1> QED
  BY <1>2, <1>3, <1>4, <1>5

\* After a refresh the terminal is no longer that of the first snapshot.
LEMMA ViewRefreshes ==
  ASSUME StreamTypes, ViewInv, NEW c \in Conns, Refresh(c)
  PROVE  ViewInv'
<1> DEFINE r == [conn[c] EXCEPT !.mode = "refreshed"]
           p == [k \in Clients |-> Repaint(log, TRUE)]
<1>1. /\ conn' = [conn EXCEPT ![c] = r] /\ log' = log /\ listening' = listening /\ Receive(c, p)
      /\ conn[c] \in ConnStates /\ conn[c].phase = "live"
  BY DEF Refresh, StreamTypes, InPhase
<1>2. r.phase = "live" /\ r.mode = "refreshed"
  BY <1>1 DEF ConnStates
<1>3. \A k \in Clients: p[k] \in ParserStates
  BY StreamAssumption DEF Repaint, ParserStates, StreamTypes
<1> HIDE DEF r, p
<1>4. /\ parser' \in [Clients -> ParserStates]
      /\ \A k \in Clients: parser'[k] = IF listening[k] = c THEN p[k] ELSE parser[k]
  BY <1>1, <1>3, ReceiveIs
<1>5. PinOk(r) /\ \A k \in Clients: SeenOk(r, parser'[k])
  BY <1>2 DEF PinOk, SeenOk
<1>6. /\ listening' \in [Clients -> Conns \cup {NoConn}]
      /\ \A k \in Clients: listening'[k] = listening[k]
  BY <1>1 DEF ViewInv
<1>7. conn'[c] = r /\ \A d \in Conns \ {c}: conn'[d] = conn[d]
  BY <1>1 DEF StreamTypes
<1> QED
  BY <1>1, <1>4, <1>5, <1>6, <1>7, ViewMoves

\* So every step keeps what the terminals have seen in order ...
LEMMA ViewSteps ==
  ASSUME StreamTypes, ViewInv, [StreamNext]_streamVars
  PROVE  ViewInv'
<1>1. CASE UNCHANGED streamVars
  BY <1>1 DEF streamVars, ViewInv, PinOk, SeenOk
<1>2. CASE PaneWrites
  <2>1. UNCHANGED <<conn, parser, listening>> /\ log \in Nat /\ log' = log + 1
    BY <1>2, StreamAssumption DEF PaneWrites, StreamTypes
  <2>2. ASSUME NEW c \in Conns PROVE PinOk(conn[c])'
    BY <2>1 DEF ViewInv, PinOk, StreamTypes, ConnStates
  <2> QED
    BY <2>1, <2>2 DEF ViewInv, SeenOk
<1>3. CASE StreamRestart
  BY <1>3 DEF StreamRestart, ViewInv, PinOk, SeenOk, ClosedConn
<1>4. ASSUME NEW c \in Conns, Connect(c) \/ Replay(c) \/ Live(c)
      PROVE  ViewInv'
  BY <1>4, ViewConnects, ViewReplays, ViewForwards, ViewRests, ViewRefreshes DEF Live
<1> QED
  BY <1>1, <1>2, <1>3, <1>4 DEF StreamNext

\* ... and at the start nobody has seen anything.
LEMMA ViewStarts == StreamInit => ViewInv
  BY DEF StreamInit, ViewInv, PinOk, SeenOk, ClosedConn, FreshParser, ParserStates

\* The checkpoint was written by a connection: it lies within the log.
CheckpointOk == checkpoint.pos \in -1..MaxLog /\ checkpoint.size \in Sizes \cup {NoSize}

\* What a live connection has handed over is in the log.
LEMMA HandedOver ==
  ASSUME NEW r \in ConnStates, FeedOk(r), r.phase = "live", log \in 0..MaxLog
  PROVE  r.start + r.forwarded \in 0..MaxLog /\ r.size \in Sizes \cup {NoSize}
<1>1. /\ r.start \in Nat /\ r.forwarded \in Nat /\ r.cursor \in Nat /\ r.queue \in Seq(Frames)
      /\ r.size \in Sizes \cup {NoSize} /\ r.cursor <= log /\ Contiguous(r)
  BY DEF ConnStates, FeedOk
<1>2. r.start + r.forwarded <= r.cursor
  <2>1. CASE r.queue = <<>>
    BY <1>1, <2>1 DEF Contiguous
  <2>2. CASE r.queue # <<>>
    <3>1. 1 \in 1..Len(r.queue)
      BY <1>1, <2>2, EmptySeq, LenProperties
    <3>2. r.queue[1].from \in Nat /\ r.queue[1].to \in Nat
      BY <1>1, <3>1, FrameAt
    <3>3. r.queue[1].from < r.queue[1].to /\ r.queue[1].to <= r.cursor
          /\ r.queue[1].from = r.start + r.forwarded
      BY <1>1, <2>2, <3>1 DEF Contiguous
    <3> QED
      BY <1>1, <3>2, <3>3
  <2> QED
    BY <2>1, <2>2
<1> QED
  BY <1>1, <1>2, StreamAssumption

\* Every connection that saves a checkpoint saves one within the log.
LEMMA CheckpointSteps ==
  ASSUME StreamTypes, CheckpointOk, [StreamNext]_streamVars
  PROVE  CheckpointOk'
<1>1. CASE UNCHANGED checkpoint
  BY <1>1 DEF CheckpointOk
<1>2. CASE StreamRestart
  BY <1>2, StreamAssumption DEF StreamRestart, NoCheckpoint, CheckpointOk
<1>3. ASSUME NEW c \in Conns, InPhase(c, "live")
      PROVE  /\ conn[c].start + conn[c].forwarded \in 0..MaxLog
             /\ conn[c].size \in Sizes \cup {NoSize}
  <2>1. conn[c] \in ConnStates /\ FeedOk(conn[c]) /\ log \in 0..MaxLog /\ conn[c].phase = "live"
    BY <1>3 DEF StreamTypes, InPhase
  <2> QED
    BY <2>1, HandedOver
<1>4. ASSUME NEW c \in Conns, Close(c) \/ \E s \in Sizes: Resize(c, s)
      PROVE  CheckpointOk'
  <2>1. InPhase(c, "live")
    BY <1>4 DEF Close, Resize
  <2>2. \E s \in Sizes \cup {NoSize}:
          checkpoint' = [pos |-> conn[c].start + conn[c].forwarded, size |-> s]
    BY <1>3, <1>4, <2>1 DEF Close, Resize, SaveCheckpoint
  <2> QED
    BY <1>3, <2>1, <2>2 DEF CheckpointOk
<1>5. ASSUME NEW c \in Conns, NEW n \in 1..TailSlots, Forward(c, n)
      PROVE  CheckpointOk'
  <2> DEFINE len == QueuedLen(conn[c].queue, n)
             r == conn'[c]
  <2>1. StreamTypes'
    BY <1>5, StreamSteps DEF StreamNext, Live
  <2>2. /\ checkpoint' = [pos |-> conn[c].start + conn[c].forwarded + len, size |-> conn[c].size]
        /\ log' = log /\ InPhase(c, "live") /\ conn[c] \in ConnStates
    BY <1>5 DEF Forward, SaveCheckpoint, StreamTypes
  <2>3. r.start = conn[c].start /\ r.forwarded = conn[c].forwarded + len /\ r.phase = "live"
    BY <1>5, <2>2 DEF Forward, StreamTypes, ConnStates, InPhase
  <2>4. r \in ConnStates /\ FeedOk(r) /\ log \in 0..MaxLog
    BY <2>1, <2>2 DEF StreamTypes, FeedOk, Contiguous
  <2>5. r.start + r.forwarded \in 0..MaxLog
    <3> HIDE DEF r
    <3> QED
      BY <2>3, <2>4, HandedOver
  <2>6. conn[c].start + conn[c].forwarded + len = r.start + r.forwarded
    <3>1. conn[c].start \in Nat /\ conn[c].forwarded \in Nat /\ r.forwarded \in Nat
      BY <2>2, <2>4 DEF ConnStates
    <3>2. len \in Int
      <4>1. conn[c].queue \in Seq(Frames) /\ n \in 1..Len(conn[c].queue)
        BY <1>5, <2>2 DEF Forward, ConnStates
      <4>2. 1 \in 1..Len(conn[c].queue)
        BY <4>1, LenProperties
      <4>3. conn[c].queue[n].to \in Nat /\ conn[c].queue[1].from \in Nat
        BY <4>1, <4>2, FrameAt
      <4> QED
        BY <4>3 DEF QueuedLen
    <3> HIDE DEF r, len
    <3> QED
      BY <2>3, <3>1, <3>2
  <2>7. conn[c].size \in Sizes \cup {NoSize}
    BY <1>3, <2>2
  <2> QED
    BY <2>2, <2>5, <2>6, <2>7 DEF CheckpointOk
<1>6. ASSUME NEW c \in Conns, Connect(c) \/ Replay(c) \/ TailRead(c) \/ Refresh(c) \/ LiveInput(c)
      PROVE  UNCHANGED checkpoint
  BY <1>6 DEF Connect, Open, FirstResize, EarlyInput, ResizeTimeout, ReturnEarly, Replay,
              SendDelta, SeekEnd, Capture, PinTail, SendSnapshot, Backfill, GoLive, TailRead,
              Refresh, LiveInput
<1>7. CASE PaneWrites
  BY <1>1, <1>7 DEF PaneWrites
<1> QED
  BY <1>1, <1>2, <1>4, <1>5, <1>6, <1>7 DEF StreamNext, Live, streamVars

\* So the stream stays within its types.
LEMMA StreamHolds == StreamTypes /\ ViewInv /\ CheckpointOk => StreamTypeOK
<1> SUFFICES ASSUME StreamTypes, ViewInv, CheckpointOk PROVE StreamTypeOK
  OBVIOUS
<1>1. ASSUME NEW c \in Conns
      PROVE  /\ conn[c].phase \in Phases /\ conn[c].mode \in Modes
             /\ conn[c].size \in Sizes \cup {NoSize}
             /\ Len(conn[c].queue) \in 0..TailSlots
             /\ conn[c].start \in 0..MaxLog /\ conn[c].cursor \in 0..MaxLog
  <2>1. conn[c] \in ConnStates /\ FeedOk(conn[c]) /\ log \in 0..MaxLog
    BY DEF StreamTypes
  <2>2. conn[c].start \in Nat /\ conn[c].cursor \in Nat /\ Len(conn[c].queue) \in Nat
    BY <2>1, LenProperties DEF ConnStates
  <2>3. conn[c].start <= log /\ conn[c].cursor <= log /\ Len(conn[c].queue) <= TailSlots
    BY <2>1 DEF FeedOk
  <2>4. /\ Len(conn[c].queue) \in 0..TailSlots
        /\ conn[c].start \in 0..MaxLog /\ conn[c].cursor \in 0..MaxLog
    BY <2>1, <2>2, <2>3, StreamAssumption
  <2> QED
    BY <2>1, <2>4 DEF ConnStates
<1> QED
  BY <1>1 DEF StreamTypes, ViewInv, CheckpointOk, StreamTypeOK

-------------------------------------------------------------------------------
(* Worktrees: what no request destroys, and what can always be started.    *)

\* What is destroyed, and the session that works in a tree.
TreeInv ==
  /\ UnforcedKeepsWork
  /\ OpenedAlwaysStarts
  /\ wtSess.tree \in Trees \cup {NoTree}

\* git refuses to remove uncommitted work unless it is forced.
LEMMA RemovalIsForced ==
  ASSUME NEW t, NEW force, Removable(t, force),
         RemoveTree(t, IF force THEN "force" ELSE "asked"), UnforcedKeepsWork
  PROVE  UnforcedKeepsWork'
  BY DEF Removable, RemoveTree, UnforcedKeepsWork

\* recreate_worktree of a missing directory is not refused: its stale record
\* is pruned first.
LEMMA RecreateStarts ==
  ASSUME NEW t, dir[t] = "absent", Recreate(t)
  PROVE  wtSess' = [wtSess EXCEPT !.status = "running"]
<1>1. t \notin Present(admin, dir)
  BY DEF Present
<1> QED
  BY <1>1 DEF Recreate

\* Every step of every request, and of the agents, keeps both.
LEMMA TreeSteps ==
  ASSUME TreeInv, [WorktreeNext]_wtVars
  PROVE  TreeInv'
<1>1. UnforcedKeepsWork'
  <2>1. CASE UNCHANGED discarded
    BY <2>1 DEF TreeInv, UnforcedKeepsWork
  <2>2. ASSUME NEW c \in WtClients, RemoveWorktree(c)
        PROVE  UnforcedKeepsWork'
    BY <2>1, <2>2, RemovalIsForced DEF RemoveWorktree, TreeInv
  <2>3. ASSUME NEW c \in WtClients, SweepRemove(c)
        PROVE  UnforcedKeepsWork'
    <3>1. RemoveTree(wt[c].tree, "sweep") \/ UNCHANGED discarded
      BY <2>3 DEF SweepRemove
    <3>2. RemoveTree(wt[c].tree, "sweep") => discarded' \subseteq discarded \cup {"sweep"}
      BY DEF RemoveTree
    <3> QED
      BY <2>1, <3>1, <3>2 DEF TreeInv, UnforcedKeepsWork
  <2>4. ASSUME NEW c \in WtClients, PruneWorktree(c)
        PROVE  UnforcedKeepsWork'
    <3>1. CASE Removable(wt[c].tree, wt[c].force)
      <4>1. RemoveTree(wt[c].tree, IF wt[c].force THEN "force" ELSE "asked")
        BY <2>4, <3>1 DEF PruneWorktree
      <4> QED
        BY <3>1, <4>1, RemovalIsForced DEF TreeInv
    <3>2. CASE ~Removable(wt[c].tree, wt[c].force)
      BY <2>1, <2>4, <3>2 DEF PruneWorktree
    <3> QED
      BY <3>1, <3>2
  <2>5. ASSUME NEW c \in WtClients,
               \/ CallAny(c) \/ LoadHost(c) \/ CreateTree(c) \/ SweepCheck(c) \/ SweepDone(c)
               \/ ReadWorktrees(c) \/ WriteOpens(c) \/ WriteWorktrees(c)
               \/ PruneChecks(c) \/ ClearSessionWorktree(c)
        PROVE  UNCHANGED discarded
    BY <2>5 DEF CallAny, CallWorktrees, LoadHost, CreateTree, SweepCheck, SweepDone,
                ReadWorktrees, WriteOpens, WriteWorktrees, PruneChecks, ClearSessionWorktree
  <2>6. ASSUME AgentWorks \/ CreateIsolated \/ OpenTree \/ StartInTree \/ StopInTree
        PROVE  UNCHANGED discarded
    BY <2>6 DEF AgentWorks, CreateIsolated, OpenTree, StartInTree, StopInTree
  <2> QED
    BY <2>1, <2>2, <2>3, <2>4, <2>5, <2>6 DEF WorktreeNext, wtVars
<1>2. OpenedAlwaysStarts' /\ (wtSess.tree \in Trees \cup {NoTree})'
  <2>1. CASE UNCHANGED wtSess
    BY <2>1 DEF TreeInv, OpenedAlwaysStarts
  <2>2. ASSUME NEW t \in Trees, wtSess' = [NoSess EXCEPT !.tree = t]
        PROVE  OpenedAlwaysStarts' /\ (wtSess.tree \in Trees \cup {NoTree})'
    BY <2>2 DEF NoSess, OpenedAlwaysStarts
  <2>3. CASE CreateIsolated \/ OpenTree
    BY <2>2, <2>3 DEF CreateIsolated, OpenTree, Trees
  <2>4. ASSUME NEW st, wtSess' = [wtSess EXCEPT !.status = st]
        PROVE  OpenedAlwaysStarts' /\ (wtSess.tree \in Trees \cup {NoTree})'
    <3>1. wtSess'.tree = wtSess.tree /\ wtSess'.refused = wtSess.refused
      BY <2>4
    <3> QED
      BY <3>1 DEF TreeInv, OpenedAlwaysStarts
  <2>5. CASE StartInTree
    <3>1. CASE dir[wtSess.tree] = "absent" /\ wtSess.tree \in DeskTrees
      BY <2>4, <2>5, <3>1, RecreateStarts DEF StartInTree
    <3>2. CASE dir[wtSess.tree] # "absent"
      BY <2>4, <2>5, <3>2 DEF StartInTree
    <3>3. CASE dir[wtSess.tree] = "absent" /\ wtSess.tree \notin DeskTrees
      <4>1. wtSess' = [wtSess EXCEPT !.refused = TRUE]
        BY <2>5, <3>3 DEF StartInTree
      <4>2. wtSess'.tree = wtSess.tree
        BY <4>1
      <4> QED
        BY <3>3, <4>2 DEF TreeInv, OpenedAlwaysStarts
    <3> QED
      BY <3>1, <3>2, <3>3
  <2>6. CASE StopInTree
    BY <2>4, <2>6 DEF StopInTree
  <2>7. ASSUME NEW c \in WtClients, ClearSessionWorktree(c)
        PROVE  OpenedAlwaysStarts' /\ (wtSess.tree \in Trees \cup {NoTree})'
    <3>1. CASE UNCHANGED wtSess
      BY <2>1, <3>1
    <3>2. CASE wtSess' = [wtSess EXCEPT !.tree = NoTree]
      <4>1. wtSess'.tree = NoTree \/ wtSess'.tree = wtSess.tree
        BY <3>2
      <4>2. wtSess'.refused = wtSess.refused
        BY <3>2
      <4> QED
        BY <4>1, <4>2, WorktreeNames DEF TreeInv, OpenedAlwaysStarts, Trees
    <3> QED
      BY <2>7, <3>1, <3>2 DEF ClearSessionWorktree
  <2>8. ASSUME NEW c \in WtClients,
               \/ CallAny(c) \/ LoadHost(c) \/ CreateTree(c) \/ SweepCheck(c) \/ SweepDone(c)
               \/ ReadWorktrees(c) \/ WriteOpens(c) \/ WriteWorktrees(c)
               \/ PruneChecks(c) \/ RemoveWorktree(c) \/ SweepRemove(c) \/ PruneWorktree(c)
        PROVE  UNCHANGED wtSess
    BY <2>8 DEF CallAny, CallWorktrees, LoadHost, CreateTree, SweepCheck, SweepDone,
                ReadWorktrees, WriteOpens, WriteWorktrees, PruneChecks, RemoveWorktree,
                SweepRemove, PruneWorktree
  <2>9. CASE AgentWorks
    BY <2>1, <2>9 DEF AgentWorks
  <2> QED
    BY <2>1, <2>3, <2>5, <2>6, <2>7, <2>8, <2>9 DEF WorktreeNext, wtVars
<1> QED
  BY <1>1, <1>2 DEF TreeInv

\* At the start nothing is destroyed and no session has a tree.
LEMMA TreeStarts ==
  ASSUME WorktreeInit
  PROVE  TreeInv
BY DEF WorktreeInit, TreeInv, UnforcedKeepsWork, OpenedAlwaysStarts, NoSess

\* A request, wherever it is.
WtRequests ==
  [pc: {"idle", "lock", "git", "sweep", "drop", "check", "clear", "read", "open", "write"},
   op: {"none", "create", "update_meta", "remove", "prune", "session"},
   tree: Trees \cup {NoTree}, force: BOOLEAN,
   todo: SUBSET Trees, stale: SUBSET Trees, gone: SUBSET (Trees \cup {NoTree}),
   ids: SUBSET DeskTrees]

\* Only a sweep changes its tree, and what is registered is a desktop tree.
WtReqOk(r) ==
  /\ r \in WtRequests
  /\ r.op \in {"create", "update_meta"} => r.tree \in DeskTrees
  /\ r.pc \in {"sweep", "drop"} => r.op = "prune"

\* The trees, the registry, the lock and the requests.
WtTypes ==
  /\ dir \in [Trees -> {"absent", "clean", "dirty"}]
  /\ admin \subseteq Trees /\ branches \subseteq Trees
  /\ meta.torn \in BOOLEAN /\ meta.ids \subseteq DeskTrees
  /\ treeLock \in WtClients \cup {FreeLock}
  /\ wt = [c \in WtClients |-> wt[c]]
  /\ \A c \in WtClients: WtReqOk(wt[c])
  /\ wtSess.tree \in Trees \cup {NoTree}
  /\ discarded \subseteq {"asked", "force", "sweep"}

\* One request moves.
LEMMA WtMoves ==
  ASSUME WtTypes, NEW c \in WtClients, NEW r, WtReqOk(r), wt' = [wt EXCEPT ![c] = r]
  PROVE  /\ wt' = [d \in WtClients |-> wt'[d]]
         /\ \A d \in WtClients: WtReqOk(wt'[d])
<1>1. wt = [d \in WtClients |-> wt[d]]
  BY DEF WtTypes
<1>2. \A d \in WtClients: wt'[d] = IF d = c THEN r ELSE wt[d]
  BY <1>1
<1>3. wt' = [d \in WtClients |-> wt'[d]]
  BY <1>1
<1> QED
  BY <1>2, <1>3 DEF WtTypes

\* A request goes on to another place.
LEMMA WtGoes ==
  ASSUME WtTypes, NEW c \in WtClients, NEW pc, Go(c, pc),
         pc \in {"idle", "git", "check", "clear", "read", "open", "write"}
  PROVE  /\ wt' = [d \in WtClients |-> wt'[d]]
         /\ \A d \in WtClients: WtReqOk(wt'[d])
<1> DEFINE r == [wt[c] EXCEPT !.pc = pc]
<1>1. wt' = [wt EXCEPT ![c] = r]
  BY DEF Go
<1>2. WtReqOk(wt[c])
  BY DEF WtTypes
<1>3. r \in WtRequests /\ r.op = wt[c].op /\ r.tree = wt[c].tree /\ r.pc = pc
  BY <1>2 DEF WtReqOk, WtRequests
<1> HIDE DEF r
<1>4. WtReqOk(r)
  BY <1>2, <1>3 DEF WtReqOk
<1> QED
  BY <1>1, <1>4, WtMoves

\* Every request is one that a handler makes.
WtReqsOk == wt = [c \in WtClients |-> wt[c]] /\ \A c \in WtClients: WtReqOk(wt[c])

\* So is none at all ...
LEMMA IdleOk == WtReqOk(WtIdle)
  BY DEF WtReqOk, WtRequests, WtIdle

\* ... and whatever one of them goes on to.
LEMMA WtReqSteps ==
  ASSUME WtTypes, [WorktreeNext]_wtVars
  PROVE  WtReqsOk'
<1>1. CASE UNCHANGED wt
  BY <1>1 DEF WtTypes, WtReqsOk, WtReqOk, WtRequests
<1> SUFFICES ASSUME wt' # wt
             PROVE  /\ wt' = [d \in WtClients |-> wt'[d]]
                    /\ \A d \in WtClients: WtReqOk(wt'[d])
  BY <1>1 DEF WtReqsOk, WtReqOk, WtRequests
<1>2. ASSUME NEW c \in WtClients
      PROVE  WtReqOk(wt[c]) /\ wt[c] \in WtRequests
  BY DEF WtTypes, WtReqOk
<1>3. ASSUME NEW c \in WtClients, CallAny(c)
      PROVE  \E r: WtReqOk(r) /\ wt' = [wt EXCEPT ![c] = r]
  <2>1. ASSUME NEW op \in {"create", "update_meta", "remove", "prune", "session"},
               NEW t \in Trees \cup {NoTree}, NEW f \in BOOLEAN, CallWorktrees(c, op, t, f),
               op \in {"create", "update_meta"} => t \in DeskTrees
        PROVE  \E r: WtReqOk(r) /\ wt' = [wt EXCEPT ![c] = r]
    <3> DEFINE r == [WtIdle EXCEPT !.pc = "lock", !.op = op, !.tree = t, !.force = f]
    <3>1. WtReqOk(r)
      BY <2>1 DEF WtReqOk, WtRequests, WtIdle
    <3>2. wt' = [wt EXCEPT ![c] = r]
      BY <2>1 DEF CallWorktrees
    <3> HIDE DEF r
    <3> QED
      BY <3>1, <3>2
  <2>2. \A t \in DeskTrees: t \in Trees \cup {NoTree}
    BY DEF Trees
  <2>3. wtSess.tree \in SessTrees => wtSess.tree \in Trees \cup {NoTree}
    BY DEF Trees
  <2> QED
    BY <1>3, <2>1, <2>2, <2>3 DEF CallAny
<1>4. ASSUME NEW c \in WtClients, LoadHost(c)
      PROVE  \/ \E pc \in {"idle", "git", "check", "clear", "read", "open", "write"}: Go(c, pc)
             \/ \E r: WtReqOk(r) /\ wt' = [wt EXCEPT ![c] = r]
  <2>1. CASE wt[c].op = "prune"
    <3> DEFINE old == admin \ Present(admin, dir)
               r == [wt[c] EXCEPT !.pc = "sweep", !.todo = admin, !.stale = old]
    <3>1. wt' = [wt EXCEPT ![c].pc = "sweep", ![c].todo = admin,
                           ![c].stale = admin \ Present(admin, dir)]
      BY <1>4, <2>1 DEF LoadHost
    <3>2. wt' = [wt EXCEPT ![c] = r]
      BY <3>1 DEF WtTypes
    <3>a. admin \in SUBSET Trees /\ old \in SUBSET Trees
      BY DEF WtTypes
    <3> HIDE DEF old
    <3>3. r \in WtRequests /\ r.op = "prune"
      BY <1>2, <2>1, <3>a DEF WtRequests
    <3> HIDE DEF r
    <3>4. WtReqOk(r)
      BY <3>3 DEF WtReqOk
    <3> QED
      BY <3>2, <3>4
  <2>2. CASE wt[c].op # "prune"
    BY <1>4, <2>2 DEF LoadHost
  <2> QED
    BY <2>1, <2>2
<1>5. ASSUME NEW c \in WtClients, SweepCheck(c)
      PROVE  \E r: WtReqOk(r) /\ wt' = [wt EXCEPT ![c] = r]
  <2>1. PICK t \in wt[c].todo:
          wt' = [wt EXCEPT
                 ![c].todo = @ \ {t}, ![c].tree = t,
                 ![c].pc = IF ShouldPrune(ClassifyWorktree(t \in wt[c].stale, dir[t]), wt[c].force)
                           THEN "drop" ELSE "sweep"]
    BY <1>5 DEF SweepCheck
  <2> DEFINE pc == IF ShouldPrune(ClassifyWorktree(t \in wt[c].stale, dir[t]), wt[c].force)
                   THEN "drop" ELSE "sweep"
             r == [wt[c] EXCEPT !.todo = wt[c].todo \ {t}, !.tree = t, !.pc = pc]
  <2>2. wt' = [wt EXCEPT ![c] = r]
    BY <2>1 DEF WtTypes
  <2>3. wt[c].op = "prune" /\ t \in Trees
    BY <1>2, <1>5 DEF SweepCheck, WtReqOk, WtRequests
  <2>4. pc \in {"drop", "sweep"}
    OBVIOUS
  <2> HIDE DEF pc
  <2>5. r \in WtRequests /\ r.op = "prune"
    BY <1>2, <2>3, <2>4 DEF WtRequests
  <2> HIDE DEF r
  <2>6. WtReqOk(r)
    BY <2>5 DEF WtReqOk
  <2> QED
    BY <2>2, <2>6
<1>6. ASSUME NEW c \in WtClients, SweepRemove(c)
      PROVE  \E r: WtReqOk(r) /\ wt' = [wt EXCEPT ![c] = r]
  <2> DEFINE r == [wt[c] EXCEPT !.pc = "sweep", !.gone = wt[c].gone \cup {wt[c].tree}]
  <2>1. wt' = [wt EXCEPT ![c] = r]
    BY <1>6 DEF SweepRemove, WtTypes
  <2>2. r \in WtRequests /\ r.op = "prune"
    BY <1>2, <1>6 DEF SweepRemove, WtReqOk, WtRequests
  <2> HIDE DEF r
  <2>3. WtReqOk(r)
    BY <2>2 DEF WtReqOk
  <2> QED
    BY <2>1, <2>3
<1>7. ASSUME NEW c \in WtClients, ReadWorktrees(c)
      PROVE  \E r: WtReqOk(r) /\ wt' = [wt EXCEPT ![c] = r]
  <2> DEFINE ids == IF meta.torn THEN {} ELSE meta.ids
             r == [wt[c] EXCEPT !.ids = ids, !.pc = "open"]
  <2>1. wt' = [wt EXCEPT ![c] = r]
    BY <1>7 DEF ReadWorktrees, WtTypes
  <2>2. ids \in SUBSET DeskTrees
    BY DEF WtTypes
  <2> HIDE DEF ids
  <2>3. r \in WtRequests /\ r.op = wt[c].op /\ r.tree = wt[c].tree /\ r.pc = "open"
    BY <1>2, <2>2 DEF WtRequests
  <2> HIDE DEF r
  <2>4. WtReqOk(r)
    BY <1>2, <2>3 DEF WtReqOk
  <2> QED
    BY <2>1, <2>4
<1>8. ASSUME NEW c \in WtClients, WriteWorktrees(c) \/ ClearSessionWorktree(c)
      PROVE  \E r: WtReqOk(r) /\ wt' = [wt EXCEPT ![c] = r]
  <2>1. wt' = [wt EXCEPT ![c] = WtIdle]
    BY <1>8 DEF WriteWorktrees, ClearSessionWorktree
  <2> QED
    BY <2>1, IdleOk
<1>9. ASSUME NEW c \in WtClients,
             \/ CreateTree(c) \/ RemoveWorktree(c) \/ SweepDone(c) \/ WriteOpens(c)
             \/ PruneChecks(c) \/ PruneWorktree(c)
      PROVE  \E pc \in {"idle", "git", "check", "clear", "read", "open", "write"}: Go(c, pc)
  BY <1>9 DEF CreateTree, RemoveWorktree, SweepDone, WriteOpens, PruneChecks, PruneWorktree
<1>10. AgentWorks \/ CreateIsolated \/ OpenTree \/ StartInTree \/ StopInTree => UNCHANGED wt
  BY DEF AgentWorks, CreateIsolated, OpenTree, StartInTree, StopInTree
<1>11. PICK c \in WtClients:
         \/ \E r: WtReqOk(r) /\ wt' = [wt EXCEPT ![c] = r]
         \/ \E pc \in {"idle", "git", "check", "clear", "read", "open", "write"}: Go(c, pc)
  BY <1>3, <1>4, <1>5, <1>6, <1>7, <1>8, <1>9, <1>10 DEF WorktreeNext, wtVars
<1> QED
  BY <1>11, WtMoves, WtGoes

\* git and its users touch no tree that is not one.
LEMMA WtTreeSteps ==
  ASSUME WtTypes, [WorktreeNext]_wtVars
  PROVE  /\ (dir \in [Trees -> {"absent", "clean", "dirty"}])'
         /\ (admin \subseteq Trees)' /\ (branches \subseteq Trees)'
<1>0. /\ dir \in [Trees -> {"absent", "clean", "dirty"}]
      /\ admin \subseteq Trees /\ branches \subseteq Trees
      /\ DeskTrees \subseteq Trees /\ SessTrees \subseteq Trees
  BY DEF WtTypes, Trees
<1>1. \A rec, d: Present(rec, d) \subseteq rec
  BY DEF Present
<1>2. ASSUME NEW t \in Trees, AddTo(t)
      PROVE  /\ (dir \in [Trees -> {"absent", "clean", "dirty"}])'
             /\ (admin \subseteq Trees)' /\ (branches \subseteq Trees)'
  BY <1>0, <1>2 DEF AddTo
<1>3. ASSUME NEW t, NEW how, RemoveTree(t, how)
      PROVE  (dir \in [Trees -> {"absent", "clean", "dirty"}])'
  BY <1>0, <1>3 DEF RemoveTree
<1>4. ASSUME NEW c \in WtClients, CreateTree(c)
      PROVE  /\ (dir \in [Trees -> {"absent", "clean", "dirty"}])'
             /\ (admin \subseteq Trees)' /\ (branches \subseteq Trees)'
  <2>1. wt[c].tree \in Trees
    BY <1>0, <1>4 DEF CreateTree, WtTypes, WtReqOk
  <2> QED
    BY <1>0, <1>2, <1>4, <2>1 DEF CreateTree
<1>5. ASSUME NEW c \in WtClients, RemoveWorktree(c)
      PROVE  /\ (dir \in [Trees -> {"absent", "clean", "dirty"}])'
             /\ (admin \subseteq Trees)' /\ (branches \subseteq Trees)'
  <2>1. branches' = branches /\ admin' \subseteq admin
    BY <1>1, <1>5 DEF RemoveWorktree
  <2>2. dir' = dir \/ RemoveTree(wt[c].tree, IF wt[c].force THEN "force" ELSE "asked")
    BY <1>5 DEF RemoveWorktree
  <2> QED
    BY <1>0, <1>3, <2>1, <2>2
<1>6. ASSUME NEW c \in WtClients, SweepRemove(c)
      PROVE  /\ (dir \in [Trees -> {"absent", "clean", "dirty"}])'
             /\ (admin \subseteq Trees)' /\ (branches \subseteq Trees)'
  <2>1. branches' = branches /\ admin' \subseteq admin
    BY <1>1, <1>6 DEF SweepRemove
  <2>2. dir' = dir \/ RemoveTree(wt[c].tree, "sweep")
    BY <1>6 DEF SweepRemove
  <2> QED
    BY <1>0, <1>3, <2>1, <2>2
<1>7. ASSUME NEW c \in WtClients, PruneWorktree(c)
      PROVE  /\ (dir \in [Trees -> {"absent", "clean", "dirty"}])'
             /\ (admin \subseteq Trees)' /\ (branches \subseteq Trees)'
  <2>1. branches' \subseteq branches /\ admin' \subseteq admin
    BY <1>7 DEF PruneWorktree
  <2>2. dir' = dir \/ RemoveTree(wt[c].tree, IF wt[c].force THEN "force" ELSE "asked")
    BY <1>7 DEF PruneWorktree
  <2> QED
    BY <1>0, <1>3, <2>1, <2>2
<1>8. CASE AgentWorks
  BY <1>0, <1>8 DEF AgentWorks
<1>9. CASE CreateIsolated
  <2>1. PICK t \in SessTrees: AddTo(t)
    BY <1>9 DEF CreateIsolated
  <2> QED
    BY <1>0, <1>2, <2>1
<1>10. CASE StartInTree
  <2>1. CASE UNCHANGED <<dir, admin, branches>>
    BY <1>0, <2>1
  <2>2. CASE wtSess.tree \in DeskTrees /\ Recreate(wtSess.tree)
    <3> DEFINE known == Present(admin, dir)
               t == wtSess.tree
    <3>1. t \in Trees /\ known \subseteq Trees
      BY <1>0, <1>1, <2>2
    <3>2. CASE t \notin known
      <4>1. /\ admin' = known \cup {t} /\ dir' = [dir EXCEPT ![t] = "clean"]
            /\ branches' = branches \cup {t}
        BY <2>2, <3>2 DEF Recreate
      <4> QED
        BY <1>0, <3>1, <4>1
    <3>3. CASE t \in known
      <4>1. admin' = known /\ dir' = dir /\ branches' = branches
        BY <2>2, <3>3 DEF Recreate
      <4> QED
        BY <1>0, <3>1, <4>1
    <3> QED
      BY <3>2, <3>3
  <2> QED
    BY <1>10, <2>1, <2>2 DEF StartInTree
<1>11. ASSUME \/ OpenTree \/ StopInTree \/ UNCHANGED wtVars
              \/ \E c \in WtClients:
                   \/ CallAny(c) \/ LoadHost(c) \/ SweepCheck(c) \/ SweepDone(c)
                   \/ ReadWorktrees(c) \/ WriteOpens(c) \/ WriteWorktrees(c)
                   \/ PruneChecks(c) \/ ClearSessionWorktree(c)
       PROVE  UNCHANGED <<dir, admin, branches>>
  BY <1>11 DEF wtVars, OpenTree, StopInTree, CallAny, CallWorktrees, LoadHost, SweepCheck, SweepDone,
               ReadWorktrees, WriteOpens, WriteWorktrees, PruneChecks, ClearSessionWorktree
<1> QED
  BY <1>0, <1>4, <1>5, <1>6, <1>7, <1>8, <1>9, <1>10, <1>11 DEF WorktreeNext

\* The registry lists desktop trees, a request or nobody holds the lock.
LEMMA WtRestSteps ==
  ASSUME WtTypes, [WorktreeNext]_wtVars
  PROVE  /\ (meta.torn \in BOOLEAN)' /\ (meta.ids \subseteq DeskTrees)'
         /\ (treeLock \in WtClients \cup {FreeLock})'
         /\ (discarded \subseteq {"asked", "force", "sweep"})'
<1>1. (meta.torn \in BOOLEAN)' /\ (meta.ids \subseteq DeskTrees)'
  <2>1. CASE UNCHANGED meta
    BY <2>1 DEF WtTypes
  <2>2. ASSUME NEW c \in WtClients, WriteOpens(c)
        PROVE  (meta.torn \in BOOLEAN)' /\ (meta.ids \subseteq DeskTrees)'
    BY <2>2 DEF WriteOpens
  <2>3. ASSUME NEW c \in WtClients, WriteWorktrees(c)
        PROVE  (meta.torn \in BOOLEAN)' /\ (meta.ids \subseteq DeskTrees)'
    <3>1. WtReqOk(wt[c]) /\ wt[c].ids \subseteq DeskTrees
      BY DEF WtTypes, WtReqOk, WtRequests
    <3>2. Retained(c) \subseteq DeskTrees
      <4>1. CASE wt[c].op \in {"create", "update_meta"}
        BY <3>1, <4>1 DEF Retained, WtReqOk
      <4>2. CASE wt[c].op \notin {"create", "update_meta"}
        BY <3>1, <4>2 DEF Retained
      <4> QED
        BY <4>1, <4>2
    <3>3. meta' = [torn |-> FALSE, ids |-> Retained(c)]
      BY <2>3 DEF WriteWorktrees
    <3>4. meta'.torn = FALSE /\ meta'.ids = Retained(c)
      BY <3>3
    <3> QED
      BY <3>2, <3>4
  <2>4. ASSUME \/ AgentWorks \/ CreateIsolated \/ OpenTree \/ StartInTree \/ StopInTree
               \/ UNCHANGED wtVars
               \/ \E c \in WtClients:
                    \/ CallAny(c) \/ LoadHost(c) \/ CreateTree(c) \/ RemoveWorktree(c)
                    \/ SweepCheck(c) \/ SweepRemove(c) \/ SweepDone(c) \/ ReadWorktrees(c)
                    \/ PruneChecks(c) \/ PruneWorktree(c) \/ ClearSessionWorktree(c)
        PROVE  UNCHANGED meta
    BY <2>4 DEF wtVars, AgentWorks, CreateIsolated, OpenTree, StartInTree, StopInTree, CallAny,
                CallWorktrees, LoadHost, CreateTree, RemoveWorktree, SweepCheck, SweepRemove,
                SweepDone, ReadWorktrees, PruneChecks, PruneWorktree, ClearSessionWorktree
  <2> QED
    BY <2>1, <2>2, <2>3, <2>4 DEF WorktreeNext
<1>2. (treeLock \in WtClients \cup {FreeLock})'
  <2>0. treeLock \in WtClients \cup {FreeLock}
    BY DEF WtTypes
  <2>1. ASSUME NEW c \in WtClients,
               \/ CallAny(c) \/ LoadHost(c) \/ CreateTree(c) \/ RemoveWorktree(c)
               \/ SweepCheck(c) \/ SweepRemove(c) \/ SweepDone(c)
               \/ ReadWorktrees(c) \/ WriteOpens(c) \/ WriteWorktrees(c)
               \/ PruneChecks(c) \/ PruneWorktree(c) \/ ClearSessionWorktree(c)
        PROVE  treeLock' \in {treeLock, FreeLock, c}
    BY <2>1 DEF CallAny, CallWorktrees, LoadHost, CreateTree, RemoveWorktree, SweepCheck,
                SweepRemove, SweepDone, ReadWorktrees, WriteOpens, WriteWorktrees, PruneChecks,
                PruneWorktree, ClearSessionWorktree
  <2>2. AgentWorks \/ CreateIsolated \/ OpenTree \/ StartInTree \/ StopInTree \/ UNCHANGED wtVars
          => treeLock' = treeLock
    BY DEF AgentWorks, CreateIsolated, OpenTree, StartInTree, StopInTree, wtVars
  <2> QED
    BY <2>0, <2>1, <2>2 DEF WorktreeNext
<1>3. (discarded \subseteq {"asked", "force", "sweep"})'
  <2>0. discarded \subseteq {"asked", "force", "sweep"}
    BY DEF WtTypes
  <2>1. ASSUME NEW t, NEW how \in {"asked", "force", "sweep"}, RemoveTree(t, how)
        PROVE  discarded' \subseteq {"asked", "force", "sweep"}
    BY <2>0, <2>1 DEF RemoveTree
  <2>2. ASSUME NEW c \in WtClients,
               RemoveWorktree(c) \/ SweepRemove(c) \/ PruneWorktree(c)
        PROVE  \/ discarded' = discarded
               \/ \E how \in {"asked", "force", "sweep"}: RemoveTree(wt[c].tree, how)
    BY <2>2 DEF RemoveWorktree, SweepRemove, PruneWorktree
  <2>3. ASSUME NEW c \in WtClients,
               \/ CallAny(c) \/ LoadHost(c) \/ CreateTree(c) \/ SweepCheck(c) \/ SweepDone(c)
               \/ ReadWorktrees(c) \/ WriteOpens(c) \/ WriteWorktrees(c)
               \/ PruneChecks(c) \/ ClearSessionWorktree(c)
        PROVE  discarded' = discarded
    BY <2>3 DEF CallAny, CallWorktrees, LoadHost, CreateTree, SweepCheck, SweepDone,
                ReadWorktrees, WriteOpens, WriteWorktrees, PruneChecks, ClearSessionWorktree
  <2>4. AgentWorks \/ CreateIsolated \/ OpenTree \/ StartInTree \/ StopInTree \/ UNCHANGED wtVars
          => discarded' = discarded
    BY DEF AgentWorks, CreateIsolated, OpenTree, StartInTree, StopInTree, wtVars
  <2> QED
    BY <2>0, <2>1, <2>2, <2>3, <2>4 DEF WorktreeNext
<1> QED
  BY <1>1, <1>2, <1>3

\* Both together, from the start on.
LEMMA WtSteps ==
  ASSUME WtTypes, TreeInv, [WorktreeNext]_wtVars
  PROVE  WtTypes'
<1>1. (wtSess.tree \in Trees \cup {NoTree})'
  BY TreeSteps DEF TreeInv
<1> QED
  BY <1>1, WtReqSteps, WtTreeSteps, WtRestSteps DEF WtTypes, WtReqsOk

LEMMA WtStarts == WorktreeInit => WtTypes
  BY IdleOk DEF WorktreeInit, WtTypes, NoSess

LEMMA WtHolds == WtTypes => WorktreeTypeOK
  BY DEF WtTypes, WtReqOk, WtRequests, WorktreeTypeOK

-------------------------------------------------------------------------------
(* The source-control panel: the status parser and the partial commit.     *)

\* The least index with a property.
LEMMA LeastIndex ==
  ASSUME NEW S \in SUBSET Nat, S # {}
  PROVE  \E i \in S : \A j \in S : i <= j
<1> DEFINE R == {ss \in Nat \X Nat : ss[1] < ss[2]}
<1>1. IsWellFoundedOn(R, Nat)
  BY Zenon, NatLessThanWellFounded DEF OpToRel
<1>2. \A i, j \in Nat : i < j => <<i, j>> \in R
  OBVIOUS
<1> HIDE DEF R
<1>3. PICK i \in S : \A j \in S : ~(<<j, i>> \in R)
  BY <1>1, WFMin
<1>4. ASSUME NEW j \in S
      PROVE  i <= j
  <2>1. i \in Nat /\ j \in Nat /\ ~(<<j, i>> \in R)
    BY <1>3
  <2>2. ~(j < i)
    BY <1>2, <2>1
  <2> QED
    BY <2>1, <2>2
<1> QED
  BY <1>4

\* There is a function that starts with b and goes on by st.
Recursive(n, V, b, st) ==
  \E g \in [0..n -> V]: g[0] = b /\ \A i \in 1..n: g[i] = st[i][g[i - 1]]

\* A recursion over 0 .. n that stays in V defines a function.
LEMMA RecursionDefines ==
  ASSUME NEW n \in Nat, NEW V, NEW b \in V, NEW st \in [1..n -> [V -> V]]
  PROVE  Recursive(n, V, b, st)
<1> SUFFICES \E g \in [0..n -> V]: g[0] = b /\ \A i \in 1..n: g[i] = st[i][g[i - 1]]
  BY DEF Recursive
<1> DEFINE Good(m) == \E g \in [0..m -> V]: g[0] = b /\ \A i \in 1..m: g[i] = st[i][g[i - 1]]
           Bad == {m \in 0..n: ~Good(m)}
<1>1. CASE Bad = {}
  <2>1. n \in 0..n
    OBVIOUS
  <2>2. Good(n)
    BY <1>1, <2>1
  <2> QED
    BY <2>2
<1>2. CASE Bad # {}
  <2>1. Bad \in SUBSET Nat
    OBVIOUS
  <2> HIDE DEF Good, Bad
  <2>2. PICK m \in Bad: \A j \in Bad: m <= j
    BY <1>2, <2>1, LeastIndex
  <2>3. m \in 0..n /\ ~Good(m)
    BY <2>2 DEF Bad
  <2>4. CASE m = 0
    <3> DEFINE g == [i \in 0..0 |-> b]
    <3>1. g \in [0..m -> V] /\ g[0] = b /\ \A i \in 1..m: g[i] = st[i][g[i - 1]]
      BY <2>4
    <3>2. Good(m)
      BY <3>1 DEF Good
    <3> QED
      BY <2>3, <3>2
  <2>5. CASE m # 0
    <3>1. m - 1 \in 0..n /\ ~(m <= m - 1) /\ m \in 1..n
      BY <2>3, <2>5
    <3>2. Good(m - 1)
      BY <2>2, <3>1 DEF Bad
    <3>3. PICK h \in [0..(m - 1) -> V]:
            h[0] = b /\ \A i \in 1..(m - 1): h[i] = st[i][h[i - 1]]
      BY <3>2 DEF Good
    <3> DEFINE g == [i \in 0..m |-> IF i = m THEN st[m][h[m - 1]] ELSE h[i]]
    <3>4. h[m - 1] \in V /\ st[m][h[m - 1]] \in V
      BY <3>1, <3>3
    <3>5. g \in [0..m -> V]
      BY <3>1, <3>3, <3>4
    <3>6. \A i \in 0..m: i # m => g[i] = h[i]
      OBVIOUS
    <3>7. m \in 0..m /\ g[m] = st[m][h[m - 1]]
      BY <3>1
    <3> HIDE DEF g
    <3>8. g[0] = b
      BY <2>5, <3>1, <3>3, <3>6
    <3>9. ASSUME NEW i \in 1..m
          PROVE  g[i] = st[i][g[i - 1]]
      <4>1. i - 1 \in 0..m /\ i - 1 # m /\ i \in 0..m
        BY <3>1
      <4>2. g[i - 1] = h[i - 1]
        BY <3>6, <4>1
      <4>3. CASE i = m
        BY <3>7, <4>2, <4>3
      <4>4. CASE i # m
        <5>1. i \in 1..(m - 1)
          BY <3>1, <4>4
        <5> QED
          BY <3>3, <3>6, <4>1, <4>2, <4>4, <5>1
      <4> QED
        BY <4>3, <4>4
    <3>10. Good(m)
      BY <3>5, <3>8, <3>9 DEF Good
    <3> QED
      BY <2>3, <3>10
  <2> QED
    BY <2>4, <2>5
<1> QED
  BY <1>1, <1>2

\* What holds at 0 and goes from each index to the next holds at all of them.
LEMMA IndexInduction ==
  ASSUME NEW n \in Nat, NEW Good, 0 \in Good,
         \A i \in 1..n: i - 1 \in Good => i \in Good
  PROVE  \A i \in 0..n: i \in Good
<1> DEFINE Bad == {m \in 0..n: m \notin Good}
<1>1. CASE Bad = {}
  BY <1>1
<1>2. CASE Bad # {}
  <2>1. Bad \in SUBSET Nat
    OBVIOUS
  <2>2. PICK m \in Bad: \A j \in Bad: m <= j
    BY <1>2, <2>1, LeastIndex
  <2>3. m \in 1..n
    BY <2>2
  <2>4. m - 1 \in 0..n /\ ~(m <= m - 1)
    BY <2>3
  <2> QED
    BY <2>2, <2>3, <2>4
<1> QED
  BY <1>1, <1>2

\* What git lists up to the i-th path, as the recursive function it is.
Listing(order) ==
  CHOOSE f : f = [i \in 0..Len(order) |-> IF i = 0 THEN <<>> ELSE f[i - 1] \o Records(order[i])]

\* `git status --porcelain -z` is the whole listing.
LEMMA PorcelainIs ==
  ASSUME NEW order
  PROVE  PorcelainOf(order) = Listing(order)[Len(order)]
  BY DEF PorcelainOf, Listing

\* The records that parse_porcelain_z skips, as the recursive function it is.
Taken(recs) ==
  CHOOSE f : f = [i \in 0..Len(recs) |-> IF i < 2 THEN FALSE ELSE ~f[i - 1] /\ Renamed(recs[i - 1])]

\* The records that parse_porcelain_z looks at.
Seen(recs) == {i \in DOMAIN recs: ~Taken(recs)[i]}

\* parse_porcelain_z sorts the paths of those by their two letters.
LEMMA ParseIs ==
  ASSUME NEW recs
  PROVE  ParsePorcelain(recs) =
    [untracked |-> {recs[i].path: i \in {j \in Seen(recs): recs[j].x = "?" /\ recs[j].y = "?"}},
     staged |-> {recs[i].path: i \in {j \in Seen(recs):
                   ~(recs[j].x = "?" /\ recs[j].y = "?") /\ recs[j].x \notin {" ", "?"}}},
     unstaged |-> {recs[i].path: i \in {j \in Seen(recs):
                   ~(recs[j].x = "?" /\ recs[j].y = "?") /\ recs[j].y \notin {" ", "?"}}}]
  BY DEF ParsePorcelain, Seen, Taken

\* A record of the listing.
RecTypes ==
  [x: {"R", " ", "D", "A", "M", "old", "?"}, y: {" ", "D", "M", "old", "?"}, path: Files]

\* A record is the old path of a rename exactly when the one before it is the rename.
Paired(s) ==
  /\ \A i \in 1..Len(s): s[i].x = "old" <=> i # 1 /\ s[i - 1].x = "R"
  /\ Len(s) # 0 => s[Len(s)].x # "R"

\* The records a listing is made of.
Held(s) == {s[i]: i \in 1..Len(s)}

\* Two listings whose renames are next to their old paths make a third ...
LEMMA ConcatPaired ==
  ASSUME NEW s \in Seq(RecTypes), NEW t \in Seq(RecTypes), Paired(s), Paired(t)
  PROVE  Paired(s \o t)
<1> DEFINE u == s \o t
<1>1. /\ Len(s) \in Nat /\ Len(t) \in Nat /\ Len(u) = Len(s) + Len(t)
      /\ \A i \in 1..Len(u): u[i] = IF i <= Len(s) THEN s[i] ELSE t[i - Len(s)]
  BY ConcatProperties, LenProperties
<1> HIDE DEF u
<1>2. ASSUME NEW i \in 1..Len(u)
      PROVE  u[i].x = "old" <=> i # 1 /\ u[i - 1].x = "R"
  <2>1. CASE i <= Len(s)
    <3>1. i \in 1..Len(s) /\ u[i] = s[i]
      BY <1>1, <2>1
    <3>2. i # 1 => i - 1 \in 1..Len(u) /\ i - 1 <= Len(s)
      BY <1>1, <2>1
    <3>3. i # 1 => u[i - 1] = s[i - 1]
      BY <1>1, <3>2
    <3> QED
      BY <3>1, <3>3 DEF Paired
  <2>2. CASE i = Len(s) + 1
    <3>1. u[i] = t[1] /\ 1 \in 1..Len(t)
      BY <1>1, <2>2
    <3>2. t[1].x # "old"
      BY <3>1 DEF Paired
    <3>3. CASE i = 1
      BY <3>1, <3>2, <3>3
    <3>4. CASE i # 1
      <4>1. i - 1 = Len(s) /\ Len(s) # 0 /\ i - 1 \in 1..Len(u)
        BY <1>1, <2>2, <3>4
      <4>2. u[i - 1] = s[Len(s)]
        BY <1>1, <4>1
      <4> QED
        BY <3>1, <3>2, <4>1, <4>2 DEF Paired
    <3> QED
      BY <3>3, <3>4
  <2>3. CASE i > Len(s) + 1
    <3> DEFINE k == i - Len(s)
    <3>1. k \in 1..Len(t) /\ k # 1 /\ i # 1 /\ i - 1 \in 1..Len(u) /\ ~(i <= Len(s))
          /\ ~(i - 1 <= Len(s)) /\ (i - 1) - Len(s) = k - 1
      BY <1>1, <2>3
    <3>2. u[i] = t[k] /\ u[i - 1] = t[k - 1]
      BY <1>1, <3>1
    <3> QED
      BY <3>1, <3>2 DEF Paired
  <2> QED
    BY <1>1, <2>1, <2>2, <2>3
<1>3. ASSUME Len(u) # 0
      PROVE  u[Len(u)].x # "R"
  <2>1. CASE Len(t) = 0
    <3>1. Len(u) = Len(s) /\ Len(s) # 0 /\ u[Len(u)] = s[Len(s)]
      BY <1>1, <1>3, <2>1
    <3> QED
      BY <3>1 DEF Paired
  <2>2. CASE Len(t) # 0
    <3>1. Len(u) \in 1..Len(u) /\ ~(Len(u) <= Len(s)) /\ Len(u) - Len(s) = Len(t)
      BY <1>1, <2>2
    <3>2. u[Len(u)] = t[Len(t)]
      BY <1>1, <3>1
    <3> QED
      BY <2>2, <3>2 DEF Paired
  <2> QED
    BY <2>1, <2>2
<1>4. Paired(u)
  BY <1>2, <1>3 DEF Paired
<1> QED
  BY <1>4 DEF u

\* ... made of the records of both.
LEMMA ConcatHeld ==
  ASSUME NEW S, NEW s \in Seq(S), NEW t \in Seq(S)
  PROVE  Held(s \o t) = Held(s) \cup Held(t)
<1> DEFINE u == s \o t
<1>1. /\ Len(s) \in Nat /\ Len(t) \in Nat /\ Len(u) = Len(s) + Len(t)
      /\ \A i \in 1..Len(u): u[i] = IF i <= Len(s) THEN s[i] ELSE t[i - Len(s)]
  BY ConcatProperties, LenProperties
<1> HIDE DEF u
<1>2. ASSUME NEW i \in 1..Len(u)
      PROVE  u[i] \in Held(s) \cup Held(t)
  <2>1. CASE i <= Len(s)
    BY <1>1, <2>1 DEF Held
  <2>2. CASE ~(i <= Len(s))
    <3>1. i - Len(s) \in 1..Len(t) /\ u[i] = t[i - Len(s)]
      BY <1>1, <2>2
    <3> QED
      BY <3>1 DEF Held
  <2> QED
    BY <2>1, <2>2
<1>3. ASSUME NEW i \in 1..Len(s)
      PROVE  s[i] \in Held(u)
  <2>1. i \in 1..Len(u) /\ u[i] = s[i]
    BY <1>1
  <2> QED
    BY <2>1 DEF Held
<1>4. ASSUME NEW i \in 1..Len(t)
      PROVE  t[i] \in Held(u)
  <2>1. i + Len(s) \in 1..Len(u) /\ ~(i + Len(s) <= Len(s)) /\ (i + Len(s)) - Len(s) = i
    BY <1>1
  <2>2. u[i + Len(s)] = t[i]
    BY <1>1, <2>1
  <2> QED
    BY <2>1, <2>2 DEF Held
<1>5. Held(u) \subseteq Held(s) \cup Held(t)
  BY <1>2 DEF Held
<1>6. Held(s) \subseteq Held(u) /\ Held(t) \subseteq Held(u)
  BY <1>3, <1>4 DEF Held
<1>7. Held(u) = Held(s) \cup Held(t)
  BY <1>5, <1>6
<1> QED
  BY <1>7 DEF u

\* Letters are letters; a path is a rename when there is an old path, and an
\* old path is one.
LEMMA LettersAre ==
  ASSUME NEW p
  PROVE  /\ IndexLetter(p) \in {"R", " ", "D", "A", "M"}
         /\ WorkLetter(p) \in {" ", "D", "M"}
         /\ IndexLetter(p) = "R" => OldPath(p) \in OldPaths(p) /\ OldPath(p) \in Files
         /\ OldPaths(p) # {} => IndexLetter(p) = "R"
<1>1. IndexLetter(p) \in {"R", " ", "D", "A", "M"}
  BY DEF IndexLetter
<1>2. WorkLetter(p) \in {" ", "D", "M"}
  BY DEF WorkLetter
<1>0. OldPaths(p) # {} => head[p] = 0 /\ index[p] # 0
  BY DEF OldPaths
<1>3. OldPaths(p) # {} => IndexLetter(p) = "R"
  BY <1>0 DEF IndexLetter
<1>4. OldPaths(p) = {} => IndexLetter(p) # "R"
  BY DEF IndexLetter
<1>5. OldPaths(p) # {} => OldPath(p) \in OldPaths(p)
  BY DEF OldPath
<1>6. OldPaths(p) \subseteq Files
  BY DEF OldPaths
<1> QED
  BY <1>1, <1>2, <1>3, <1>4, <1>5, <1>6

\* The sequences a path is listed as.
LEMMA ShortSeqs ==
  /\ <<>> \in Seq(RecTypes) /\ Paired(<<>>) /\ Held(<<>>) = {}
  /\ \A r \in RecTypes: r.x \notin {"R", "old"} =>
       <<r>> \in Seq(RecTypes) /\ Paired(<<r>>) /\ Held(<<r>>) = {r}
  /\ \A r, o \in RecTypes: r.x = "R" /\ o.x = "old" =>
       <<r, o>> \in Seq(RecTypes) /\ Paired(<<r, o>>) /\ Held(<<r, o>>) = {r, o}
<1>1. <<>> \in Seq(RecTypes) /\ Paired(<<>>) /\ Held(<<>>) = {}
  BY EmptySeq DEF Paired, Held
<1>2. ASSUME NEW r \in RecTypes, r.x \notin {"R", "old"}
      PROVE  <<r>> \in Seq(RecTypes) /\ Paired(<<r>>) /\ Held(<<r>>) = {r}
  <2>1. <<r>> \in Seq(RecTypes) /\ Len(<<r>>) = 1 /\ <<r>>[1] = r
    OBVIOUS
  <2> DEFINE s == <<r>>
  <2>2. \A i \in 1..Len(s): i = 1 /\ s[i] = r
    BY <2>1
  <2>3. 1 \in 1..Len(s)
    BY <2>1
  <2> HIDE DEF s
  <2>4. Paired(s) /\ Held(s) = {r}
    BY <1>2, <2>1, <2>2, <2>3 DEF Paired, Held, s
  <2> QED
    BY <2>1, <2>4 DEF s
<1>3. ASSUME NEW r \in RecTypes, NEW o \in RecTypes, r.x = "R", o.x = "old"
      PROVE  <<r, o>> \in Seq(RecTypes) /\ Paired(<<r, o>>) /\ Held(<<r, o>>) = {r, o}
  <2> DEFINE s == <<r, o>>
  <2>1. s \in Seq(RecTypes) /\ Len(s) = 2 /\ s[1] = r /\ s[2] = o
    OBVIOUS
  <2> HIDE DEF s
  <2>2. 1 \in 1..Len(s) /\ 2 \in 1..Len(s) /\ 2 - 1 = 1 /\ 2 # 1 /\ Len(s) # 0
        /\ \A i \in 1..Len(s): i = 1 \/ i = 2
    BY <2>1
  <2>3. Held(s) = {r, o}
    BY <2>1, <2>2 DEF Held
  <2>4. Paired(s)
    <3>1. s[1].x # "old" /\ s[2].x = "old" /\ s[2 - 1].x = "R" /\ s[2].x # "R"
      BY <1>3, <2>1, <2>2
    <3>2. ASSUME NEW i \in 1..Len(s)
          PROVE  s[i].x = "old" <=> i # 1 /\ s[i - 1].x = "R"
      BY <2>2, <3>1
    <3>3. s[Len(s)].x # "R"
      BY <2>1, <3>1
    <3> QED
      BY <3>2, <3>3 DEF Paired
  <2> QED
    BY <2>1, <2>3, <2>4 DEF s
<1> QED
  BY <1>1, <1>2, <1>3

\* What is listed of a path: its record, the old path of a rename, and a
\* record of its own when the index lacks it.
Listed(p) ==
  ~(p \in Sources \/ (IndexLetter(p) = " " /\ WorkLetter(p) = " "))
\* A file that the index lacks.
Untracked(p) == index[p] = 0 /\ work[p] # 0

\* The records that a path has.
RecordSet(p) ==
  (IF Listed(p) THEN {Rec(IndexLetter(p), WorkLetter(p), p)} ELSE {})
  \cup (IF Listed(p) /\ IndexLetter(p) = "R" THEN {Rec("old", "old", OldPath(p))} ELSE {})
  \cup (IF Untracked(p) THEN {Rec("?", "?", p)} ELSE {})

\* A path is listed as its records, a rename and its old path together.
LEMMA RecordsAre ==
  ASSUME NEW p \in Files
  PROVE  Records(p) \in Seq(RecTypes) /\ Paired(Records(p)) /\ Held(Records(p)) = RecordSet(p)
<1> DEFINE x == IndexLetter(p)
           y == WorkLetter(p)
           a == IF p \in Sources \/ (x = " " /\ y = " ") THEN <<>>
                ELSE IF x = "R" THEN <<Rec(x, y, p), Rec("old", "old", OldPath(p))>>
                ELSE <<Rec(x, y, p)>>
           b == IF index[p] = 0 /\ work[p] # 0 THEN <<Rec("?", "?", p)>> ELSE <<>>
<1>1. Records(p) = a \o b
  BY DEF Records
<1>2. x \in {"R", " ", "D", "A", "M"} /\ y \in {" ", "D", "M"}
      /\ (x = "R" => OldPath(p) \in Files)
  BY LettersAre
<1>3. Rec(x, y, p) \in RecTypes /\ Rec(x, y, p).x = x
  BY <1>2 DEF Rec, RecTypes
<1>4. x = "R" => Rec("old", "old", OldPath(p)) \in RecTypes
  BY <1>2 DEF Rec, RecTypes
<1>5. Rec("old", "old", OldPath(p)).x = "old" /\ Rec("?", "?", p).x = "?"
      /\ Rec("?", "?", p) \in RecTypes
  BY DEF Rec, RecTypes
<1>6. /\ a \in Seq(RecTypes) /\ Paired(a)
      /\ Held(a) = (IF Listed(p) THEN {Rec(x, y, p)} ELSE {})
                   \cup (IF Listed(p) /\ x = "R" THEN {Rec("old", "old", OldPath(p))} ELSE {})
  <2>1. CASE ~Listed(p)
    <3>1. a = <<>>
      BY <2>1 DEF Listed
    <3> HIDE DEF a
    <3> QED
      BY <2>1, <3>1, ShortSeqs
  <2>2. CASE Listed(p) /\ x = "R"
    <3>1. a = <<Rec(x, y, p), Rec("old", "old", OldPath(p))>>
      BY <2>2 DEF Listed
    <3> HIDE DEF a, x, y
    <3>2. /\ a \in Seq(RecTypes) /\ Paired(a)
          /\ Held(a) = {Rec(x, y, p), Rec("old", "old", OldPath(p))}
      BY <1>3, <1>4, <1>5, <2>2, <3>1, ShortSeqs
    <3> QED
      BY <2>2, <3>2
  <2>3. CASE Listed(p) /\ x # "R"
    <3>1. a = <<Rec(x, y, p)>>
      BY <2>3 DEF Listed
    <3>2. x # "old"
      BY <1>2
    <3> HIDE DEF a, x, y
    <3>3. a \in Seq(RecTypes) /\ Paired(a) /\ Held(a) = {Rec(x, y, p)}
      BY <1>3, <2>3, <3>1, <3>2, ShortSeqs
    <3> QED
      BY <2>3, <3>3
  <2> QED
    BY <2>1, <2>2, <2>3
<1>7. /\ b \in Seq(RecTypes) /\ Paired(b)
      /\ Held(b) = IF Untracked(p) THEN {Rec("?", "?", p)} ELSE {}
  <2>1. CASE Untracked(p)
    <3>1. b = <<Rec("?", "?", p)>>
      BY <2>1 DEF Untracked
    <3> HIDE DEF b
    <3> QED
      BY <1>5, <2>1, <3>1, ShortSeqs
  <2>2. CASE ~Untracked(p)
    <3>1. b = <<>>
      BY <2>2 DEF Untracked
    <3> HIDE DEF b
    <3> QED
      BY <2>2, <3>1, ShortSeqs
  <2> QED
    BY <2>1, <2>2
<1>8. Held(a) \cup Held(b) = RecordSet(p)
  BY <1>6, <1>7 DEF RecordSet
<1> HIDE DEF a, b
<1>9. a \o b \in Seq(RecTypes)
  BY <1>6, <1>7, ConcatProperties
<1>10. Paired(a \o b)
  BY <1>6, <1>7, ConcatPaired
<1>11. Held(a \o b) = Held(a) \cup Held(b)
  BY <1>6, <1>7, ConcatHeld
<1> QED
  BY <1>1, <1>8, <1>9, <1>10, <1>11

\* In whatever order git lists the paths, the listing is made of their
\* records, with every rename next to its old path.
LEMMA ListingIs ==
  ASSUME NEW order \in Seq(Files)
  PROVE  /\ PorcelainOf(order) \in Seq(RecTypes)
         /\ Paired(PorcelainOf(order))
         /\ Held(PorcelainOf(order)) = UNION {RecordSet(order[j]): j \in 1..Len(order)}
<1> DEFINE n == Len(order)
           st == [i \in 1..n |-> [v \in Seq(RecTypes) |-> v \o Records(order[i])]]
           f == Listing(order)
<1>1. n \in Nat /\ \A i \in 1..n: order[i] \in Files
  BY ElementOfSeq, LenProperties
<1>2. \A i \in 1..n: Records(order[i]) \in Seq(RecTypes)
  BY <1>1, RecordsAre
<1>3. st \in [1..n -> [Seq(RecTypes) -> Seq(RecTypes)]]
  <2>1. ASSUME NEW i \in 1..n, NEW v \in Seq(RecTypes)
        PROVE  v \o Records(order[i]) \in Seq(RecTypes)
    BY <1>2, <2>1, ConcatProperties
  <2> QED
    BY <2>1
<1>4. \A i \in 1..n, v \in Seq(RecTypes): st[i][v] = v \o Records(order[i])
  OBVIOUS
<1> HIDE DEF st
<1>5. <<>> \in Seq(RecTypes)
  OBVIOUS
<1>6. PICK g \in [0..n -> Seq(RecTypes)]:
        g[0] = <<>> /\ \A i \in 1..n: g[i] = st[i][g[i - 1]]
  <2>1. Recursive(n, Seq(RecTypes), <<>>, st)
    BY <1>1, <1>3, <1>5, RecursionDefines
  <2> QED
    BY <2>1 DEF Recursive
<1>7. g = [i \in 0..n |-> IF i = 0 THEN <<>> ELSE g[i - 1] \o Records(order[i])]
  <2>1. ASSUME NEW i \in 0..n
        PROVE  g[i] = IF i = 0 THEN <<>> ELSE g[i - 1] \o Records(order[i])
    <3>1. CASE i = 0
      BY <1>6, <3>1
    <3>2. CASE i # 0
      <4>1. i \in 1..n /\ i - 1 \in 0..n
        BY <1>1, <3>2
      <4>2. g[i - 1] \in Seq(RecTypes)
        BY <4>1
      <4> QED
        BY <1>4, <1>6, <3>2, <4>1, <4>2
    <3> QED
      BY <3>1, <3>2
  <2> QED
    BY <2>1
<1>8. f = [i \in 0..n |-> IF i = 0 THEN <<>> ELSE f[i - 1] \o Records(order[i])]
  BY <1>7 DEF Listing
<1> HIDE DEF f
<1>9. /\ 0 \in 0..n /\ f[0] = <<>>
      /\ \A i \in 1..n: i \in 0..n /\ i - 1 \in 0..n /\ f[i] = f[i - 1] \o Records(order[i])
  <2>1. 0 \in 0..n /\ \A i \in 1..n: i \in 0..n /\ i - 1 \in 0..n /\ i # 0
    BY <1>1
  <2>2. \A i \in 0..n: f[i] = IF i = 0 THEN <<>> ELSE f[i - 1] \o Records(order[i])
    BY <1>8
  <2> QED
    BY <2>1, <2>2
<1> DEFINE Good == {i \in 0..n: /\ f[i] \in Seq(RecTypes) /\ Paired(f[i])
                                /\ Held(f[i]) = UNION {RecordSet(order[j]): j \in 1..i}}
<1>10. 0 \in Good
  <2>1. 1..0 = {}
    OBVIOUS
  <2>2. UNION {RecordSet(order[j]): j \in 1..0} = {}
    BY <2>1
  <2> QED
    BY <1>9, <2>2, ShortSeqs
<1>11. ASSUME NEW i \in 1..n, i - 1 \in Good
       PROVE  i \in Good
  <2>1. /\ f[i - 1] \in Seq(RecTypes) /\ Paired(f[i - 1])
        /\ Held(f[i - 1]) = UNION {RecordSet(order[j]): j \in 1..(i - 1)}
        /\ f[i] = f[i - 1] \o Records(order[i]) /\ i \in 0..n
    BY <1>9, <1>11
  <2>2. /\ Records(order[i]) \in Seq(RecTypes) /\ Paired(Records(order[i]))
        /\ Held(Records(order[i])) = RecordSet(order[i])
    BY <1>1, RecordsAre
  <2>3. f[i] \in Seq(RecTypes)
    BY <2>1, <2>2, ConcatProperties
  <2>4. Paired(f[i]) /\ Held(f[i]) = Held(f[i - 1]) \cup RecordSet(order[i])
    BY <2>1, <2>2, ConcatPaired, ConcatHeld
  <2>5. 1..i = 1..(i - 1) \cup {i}
    BY <1>1
  <2>6. UNION {RecordSet(order[j]): j \in 1..i}
          = (UNION {RecordSet(order[j]): j \in 1..(i - 1)}) \cup RecordSet(order[i])
    BY <2>5
  <2> QED
    BY <2>1, <2>3, <2>4, <2>6
<1>12. n \in Good
  <2> HIDE DEF Good
  <2>1. \A i \in 0..n: i \in Good
    BY <1>1, <1>10, <1>11, IndexInduction
  <2> QED
    BY <1>1, <2>1
<1>13. PorcelainOf(order) = f[n]
  BY PorcelainIs DEF f
<1> QED
  BY <1>12, <1>13

\* parse_porcelain_z skips the old paths and nothing else.
LEMMA TakenIs ==
  ASSUME NEW recs \in Seq(RecTypes), Paired(recs)
  PROVE  \A i \in 1..Len(recs): Taken(recs)[i] <=> recs[i].x = "old"
<1> DEFINE n == Len(recs)
           st == [i \in 1..n |-> [v \in BOOLEAN |->
                    IF i < 2 THEN FALSE ELSE ~v /\ Renamed(recs[i - 1])]]
           f == Taken(recs)
<1>1. n \in Nat /\ \A i \in 1..n: recs[i] \in RecTypes
  BY ElementOfSeq, LenProperties
<1>2. \A i \in 1..n: Renamed(recs[i]) = (recs[i].x = "R")
  BY <1>1 DEF Renamed, RecTypes
<1>3. st \in [1..n -> [BOOLEAN -> BOOLEAN]]
  <2>1. ASSUME NEW i \in 1..n, NEW v \in BOOLEAN
        PROVE  (IF i < 2 THEN FALSE ELSE ~v /\ Renamed(recs[i - 1])) \in BOOLEAN
    BY DEF Renamed
  <2> QED
    BY <2>1
<1>4. \A i \in 1..n, v \in BOOLEAN: st[i][v] = IF i < 2 THEN FALSE ELSE ~v /\ Renamed(recs[i - 1])
  OBVIOUS
<1> HIDE DEF st
<1>5. PICK g \in [0..n -> BOOLEAN]: g[0] = FALSE /\ \A i \in 1..n: g[i] = st[i][g[i - 1]]
  <2>1. Recursive(n, BOOLEAN, FALSE, st)
    BY <1>1, <1>3, RecursionDefines
  <2> QED
    BY <2>1 DEF Recursive
<1>6. g = [i \in 0..n |-> IF i < 2 THEN FALSE ELSE ~g[i - 1] /\ Renamed(recs[i - 1])]
  <2>1. ASSUME NEW i \in 0..n
        PROVE  g[i] = IF i < 2 THEN FALSE ELSE ~g[i - 1] /\ Renamed(recs[i - 1])
    <3>1. CASE i = 0
      <4>1. i < 2 /\ g[i] = FALSE
        BY <1>5, <3>1
      <4>2. (IF i < 2 THEN FALSE ELSE ~g[i - 1] /\ Renamed(recs[i - 1])) = FALSE
        BY <4>1
      <4> QED
        BY <4>1, <4>2
    <3>2. CASE i # 0
      <4>1. i \in 1..n /\ i - 1 \in 0..n
        BY <1>1, <3>2
      <4>2. g[i - 1] \in BOOLEAN
        BY <4>1
      <4> QED
        BY <1>4, <1>5, <4>1, <4>2
    <3> QED
      BY <3>1, <3>2
  <2> QED
    BY <2>1
<1>7. f = [i \in 0..n |-> IF i < 2 THEN FALSE ELSE ~f[i - 1] /\ Renamed(recs[i - 1])]
  BY <1>6 DEF Taken
<1> HIDE DEF f
<1>8. \A i \in 1..n: f[i] = IF i < 2 THEN FALSE ELSE ~f[i - 1] /\ Renamed(recs[i - 1])
  <2>1. \A i \in 1..n: i \in 0..n
    BY <1>1
  <2> QED
    BY <1>7, <2>1
<1> DEFINE Good == {i \in 0..n: i # 0 => (f[i] <=> recs[i].x = "old")}
<1>9. 0 \in Good
  BY <1>1
<1>10. ASSUME NEW i \in 1..n, i - 1 \in Good
       PROVE  i \in Good
  <2>1. CASE i = 1
    <3>1. f[i] = FALSE
      <4>1. i < 2
        BY <2>1
      <4>2. f[i] = IF i < 2 THEN FALSE ELSE ~f[i - 1] /\ Renamed(recs[i - 1])
        BY <1>8
      <4> QED
        BY <4>1, <4>2
    <3>2. recs[i].x # "old"
      BY <2>1 DEF Paired
    <3>3. i \in 0..n
      BY <1>1
    <3>4. ~f[i]
      BY <3>1
    <3> QED
      BY <3>2, <3>3, <3>4
  <2>2. CASE i # 1
    <3>1. i - 1 \in 1..n /\ i - 1 # 0 /\ ~(i < 2) /\ i \in 0..n
      BY <1>1, <2>2
    <3>2. f[i] = (~f[i - 1] /\ recs[i - 1].x = "R")
      BY <1>2, <1>8, <3>1
    <3>3. f[i - 1] <=> recs[i - 1].x = "old"
      BY <1>10, <3>1
    <3>4. recs[i].x = "old" <=> recs[i - 1].x = "R"
      BY <2>2 DEF Paired
    <3>5. recs[i - 1].x = "R" => ~f[i - 1]
      BY <3>3
    <3> QED
      BY <3>1, <3>2, <3>4, <3>5
  <2> QED
    BY <2>1, <2>2
<1> HIDE DEF Good
<1>11. \A i \in 0..n: i \in Good
  BY <1>1, <1>9, <1>10, IndexInduction
<1>12. ASSUME NEW i \in 1..n PROVE f[i] <=> recs[i].x = "old"
  <2>1. i \in 0..n /\ i # 0
    BY <1>1
  <2> QED
    BY <1>11, <2>1 DEF Good
<1> QED
  BY <1>12 DEF f

\* The three groups as they follow from the records alone.
Groups(R) ==
  [untracked |-> {r.path: r \in {e \in R: e.x # "old" /\ e.x = "?" /\ e.y = "?"}},
   staged |-> {r.path: r \in {e \in R:
                 e.x # "old" /\ ~(e.x = "?" /\ e.y = "?") /\ e.x \notin {" ", "?"}}},
   unstaged |-> {r.path: r \in {e \in R:
                 e.x # "old" /\ ~(e.x = "?" /\ e.y = "?") /\ e.y \notin {" ", "?"}}}]

\* So the parser sees what is listed, in no matter what order.
LEMMA ParseGroups ==
  ASSUME NEW recs \in Seq(RecTypes), Paired(recs)
  PROVE  ParsePorcelain(recs) = Groups(Held(recs))
<1>1. DOMAIN recs = 1..Len(recs)
  BY LenProperties
<1>2. Seen(recs) = {i \in 1..Len(recs): recs[i].x # "old"}
  BY <1>1, TakenIs DEF Seen
<1>3. /\ \A i \in Seen(recs): recs[i] \in Held(recs) /\ recs[i].x # "old"
      /\ \A e \in Held(recs): e.x # "old" => \E i \in Seen(recs): e = recs[i]
  BY <1>2 DEF Held
<1>4. {recs[i].path: i \in {j \in Seen(recs): recs[j].x = "?" /\ recs[j].y = "?"}}
        = {r.path: r \in {e \in Held(recs): e.x # "old" /\ e.x = "?" /\ e.y = "?"}}
  BY <1>3
<1>5. {recs[i].path: i \in {j \in Seen(recs):
            ~(recs[j].x = "?" /\ recs[j].y = "?") /\ recs[j].x \notin {" ", "?"}}}
        = {r.path: r \in {e \in Held(recs):
             e.x # "old" /\ ~(e.x = "?" /\ e.y = "?") /\ e.x \notin {" ", "?"}}}
  BY <1>3
<1>6. {recs[i].path: i \in {j \in Seen(recs):
            ~(recs[j].x = "?" /\ recs[j].y = "?") /\ recs[j].y \notin {" ", "?"}}}
        = {r.path: r \in {e \in Held(recs):
             e.x # "old" /\ ~(e.x = "?" /\ e.y = "?") /\ e.y \notin {" ", "?"}}}
  BY <1>3
<1> QED
  BY <1>4, <1>5, <1>6, ParseIs DEF Groups

\* The records say what the tree, the index and HEAD say.
LEMMA GroupsAreTrue == Groups(UNION {RecordSet(p): p \in Files}) = TrueStatus
<1> DEFINE R == UNION {RecordSet(p): p \in Files}
<1>1. ASSUME NEW p \in Files
      PROVE  /\ p \in Sources => index[p] = 0 /\ head[p] # 0
             /\ p \notin Sources => (IndexLetter(p) # " " <=> head[p] # index[p])
             /\ WorkLetter(p) # " " <=> index[p] # 0 /\ index[p] # work[p]
  <2>1. ASSUME p \in Sources PROVE index[p] = 0 /\ head[p] # 0
    <3>1. PICK q \in Files: OldPaths(q) # {} /\ p = OldPath(q)
      BY <2>1 DEF Sources
    <3>2. p \in OldPaths(q)
      BY <3>1, LettersAre
    <3> QED
      BY <3>2 DEF OldPaths
  <2>2. OldPaths(p) # {} => head[p] = 0 /\ index[p] # 0
    BY DEF OldPaths
  <2>3. IndexLetter(p) # " " <=> head[p] # index[p]
    BY <2>2 DEF IndexLetter
  <2>4. WorkLetter(p) # " " <=> index[p] # 0 /\ index[p] # work[p]
    BY DEF WorkLetter
  <2> QED
    BY <2>1, <2>3, <2>4
<1>2. ASSUME NEW p \in Files, NEW e \in RecordSet(p), e.x # "old"
      PROVE  /\ e.path = p
             /\ \/ Listed(p) /\ e = Rec(IndexLetter(p), WorkLetter(p), p)
                \/ Untracked(p) /\ e = Rec("?", "?", p)
  <2>1. e # Rec("old", "old", OldPath(p))
    BY <1>2 DEF Rec
  <2>2. \/ Listed(p) /\ e = Rec(IndexLetter(p), WorkLetter(p), p)
        \/ Untracked(p) /\ e = Rec("?", "?", p)
    BY <2>1 DEF RecordSet
  <2> QED
    BY <2>2 DEF Rec
<1>3. ASSUME NEW p \in Files
      PROVE  /\ Listed(p) => Rec(IndexLetter(p), WorkLetter(p), p) \in R
             /\ Untracked(p) => Rec("?", "?", p) \in R
  BY DEF RecordSet
<1>4. \A p: /\ Rec(IndexLetter(p), WorkLetter(p), p).x = IndexLetter(p)
            /\ Rec(IndexLetter(p), WorkLetter(p), p).y = WorkLetter(p)
            /\ Rec(IndexLetter(p), WorkLetter(p), p).path = p
            /\ Rec("?", "?", p).x = "?" /\ Rec("?", "?", p).y = "?" /\ Rec("?", "?", p).path = p
            /\ IndexLetter(p) \notin {"?", "old"} /\ WorkLetter(p) # "?"
  BY LettersAre DEF Rec
<1>5. \A e \in R: e.x # "old" => \E p \in Files:
        /\ e.path = p
        /\ \/ Listed(p) /\ e = Rec(IndexLetter(p), WorkLetter(p), p)
           \/ Untracked(p) /\ e = Rec("?", "?", p)
  BY <1>2
<1> HIDE DEF R
<1>6. {r.path: r \in {e \in R: e.x # "old" /\ e.x = "?" /\ e.y = "?"}} = TrueStatus.untracked
  <2>1. TrueStatus.untracked = {p \in Files: Untracked(p)}
    BY DEF TrueStatus, Untracked
  <2>2. ASSUME NEW e \in R, e.x = "?", e.y = "?"
        PROVE  e.path \in Files /\ Untracked(e.path)
    BY <1>4, <1>5, <2>2
  <2>3. ASSUME NEW p \in Files, Untracked(p)
        PROVE  \E e \in R: e.x # "old" /\ e.x = "?" /\ e.y = "?" /\ e.path = p
    <3>1. Rec("?", "?", p) \in R /\ Rec("?", "?", p).x = "?" /\ Rec("?", "?", p).y = "?"
          /\ Rec("?", "?", p).path = p
      BY <1>3, <1>4, <2>3
    <3> QED
      BY <3>1
  <2> QED
    BY <2>1, <2>2, <2>3
<1>7. {r.path: r \in {e \in R:
         e.x # "old" /\ ~(e.x = "?" /\ e.y = "?") /\ e.x \notin {" ", "?"}}} = TrueStatus.staged
  <2>1. TrueStatus.staged = {p \in Files: head[p] # index[p] /\ p \notin Sources}
    BY DEF TrueStatus
  <2>2. ASSUME NEW e \in R, e.x # "old", e.x \notin {" ", "?"}
        PROVE  e.path \in Files /\ head[e.path] # index[e.path] /\ e.path \notin Sources
    <3>1. PICK p \in Files: /\ e.path = p
                            /\ \/ Listed(p) /\ e = Rec(IndexLetter(p), WorkLetter(p), p)
                               \/ Untracked(p) /\ e = Rec("?", "?", p)
      BY <1>5, <2>2
    <3>2. Listed(p) /\ IndexLetter(p) # " "
      BY <1>4, <2>2, <3>1
    <3>3. p \notin Sources
      BY <3>2 DEF Listed
    <3> QED
      BY <1>1, <3>1, <3>2, <3>3
  <2>3. ASSUME NEW p \in Files, head[p] # index[p], p \notin Sources
        PROVE  \E e \in R: /\ e.x # "old" /\ ~(e.x = "?" /\ e.y = "?") /\ e.x \notin {" ", "?"}
                           /\ e.path = p
    <3>1. IndexLetter(p) # " "
      BY <1>1, <2>3
    <3>2. Listed(p)
      BY <2>3, <3>1 DEF Listed
    <3>3. Rec(IndexLetter(p), WorkLetter(p), p) \in R
      BY <1>3, <3>2
    <3> QED
      BY <1>4, <3>1, <3>3
  <2> DEFINE E == {e \in R: e.x # "old" /\ ~(e.x = "?" /\ e.y = "?") /\ e.x \notin {" ", "?"}}
  <2>4. \A e \in E: e.path \in TrueStatus.staged
    BY <2>1, <2>2
  <2>5. ASSUME NEW p \in TrueStatus.staged PROVE \E e \in E: e.path = p
    <3>1. p \in Files /\ head[p] # index[p] /\ p \notin Sources
      BY <2>1
    <3> QED
      BY <2>3, <3>1
  <2> HIDE DEF E
  <2>6. {r.path: r \in E} = TrueStatus.staged
    BY <2>4, <2>5
  <2> QED
    BY <2>6 DEF E
<1>8. {r.path: r \in {e \in R:
         e.x # "old" /\ ~(e.x = "?" /\ e.y = "?") /\ e.y \notin {" ", "?"}}} = TrueStatus.unstaged
  <2>1. TrueStatus.unstaged = {p \in Files: index[p] # 0 /\ index[p] # work[p]}
    BY DEF TrueStatus
  <2>2. ASSUME NEW e \in R, e.x # "old", e.y \notin {" ", "?"}
        PROVE  e.path \in Files /\ index[e.path] # 0 /\ index[e.path] # work[e.path]
    <3>1. PICK p \in Files: /\ e.path = p
                            /\ \/ Listed(p) /\ e = Rec(IndexLetter(p), WorkLetter(p), p)
                               \/ Untracked(p) /\ e = Rec("?", "?", p)
      BY <1>5, <2>2
    <3>2. WorkLetter(p) # " "
      BY <1>4, <2>2, <3>1
    <3> QED
      BY <1>1, <3>1, <3>2
  <2>3. ASSUME NEW p \in Files, index[p] # 0, index[p] # work[p]
        PROVE  \E e \in R: e.x # "old" /\ ~(e.x = "?" /\ e.y = "?") /\ e.y \notin {" ", "?"}
                           /\ e.path = p
    <3>1. WorkLetter(p) # " " /\ p \notin Sources
      BY <1>1, <2>3
    <3>2. Listed(p)
      BY <3>1 DEF Listed
    <3>3. Rec(IndexLetter(p), WorkLetter(p), p) \in R
      BY <1>3, <3>2
    <3> QED
      BY <1>4, <3>1, <3>3
  <2> DEFINE E == {e \in R: e.x # "old" /\ ~(e.x = "?" /\ e.y = "?") /\ e.y \notin {" ", "?"}}
  <2>4. \A e \in E: e.path \in TrueStatus.unstaged
    BY <2>1, <2>2
  <2>5. ASSUME NEW p \in TrueStatus.unstaged PROVE \E e \in E: e.path = p
    <3>1. p \in Files /\ index[p] # 0 /\ index[p] # work[p]
      BY <2>1
    <3> QED
      BY <2>3, <3>1
  <2> HIDE DEF E
  <2>6. {r.path: r \in E} = TrueStatus.unstaged
    BY <2>4, <2>5
  <2> QED
    BY <2>6 DEF E
<1>9. Groups(R) = [untracked |-> TrueStatus.untracked, staged |-> TrueStatus.staged,
                   unstaged |-> TrueStatus.unstaged]
  BY <1>6, <1>7, <1>8 DEF Groups
<1>10. TrueStatus = [untracked |-> TrueStatus.untracked, staged |-> TrueStatus.staged,
                     unstaged |-> TrueStatus.unstaged]
  BY DEF TrueStatus
<1> QED
  BY <1>9, <1>10 DEF R

\* git lists every path once.
LEMMA OrderCovers ==
  ASSUME NEW order \in [1..Cardinality(Files) -> Files],
         \A i, j \in DOMAIN order: order[i] = order[j] => i = j
  PROVE  /\ order \in Seq(Files)
         /\ {order[j]: j \in 1..Len(order)} = Files
<1> DEFINE n == Cardinality(Files)
<1>1. n \in Nat
  BY GitAssumption, FS_CardinalityType
<1>2. order \in Seq(Files) /\ Len(order) = n
  BY <1>1, FunctionIsSeq
<1>3. order \in Injection(1..n, Files)
  BY <1>1 DEF Injection, IsInjective
<1>4. Cardinality(1..n) = n
  BY <1>1, FS_Interval
<1>5. order \in Surjection(1..n, Files)
  BY <1>3, <1>4, GitAssumption, FS_Injection
<1>6. \A p \in Files: \E j \in 1..n: order[j] = p
  BY <1>5 DEF Surjection
<1> QED
  BY <1>2, <1>6

\* So the panel's status is the tree's ...
LEMMA StatusIsTrue ==
  ASSUME Status
  PROVE  answer' = TrueStatus
<1>1. PICK order \in [1..Cardinality(Files) -> Files]:
        /\ \A i, j \in DOMAIN order: order[i] = order[j] => i = j
        /\ answer' = ParsePorcelain(PorcelainOf(order))
  BY DEF Status
<1>2. order \in Seq(Files) /\ {order[j]: j \in 1..Len(order)} = Files
  BY <1>1, OrderCovers
<1> DEFINE recs == PorcelainOf(order)
<1>3. /\ recs \in Seq(RecTypes) /\ Paired(recs)
      /\ Held(recs) = UNION {RecordSet(order[j]): j \in 1..Len(order)}
  BY <1>2, ListingIs
<1>4. {RecordSet(order[j]): j \in 1..Len(order)} = {RecordSet(p): p \in Files}
  BY <1>2
<1> HIDE DEF recs
<1>5. ParsePorcelain(recs) = Groups(Held(recs))
  BY <1>3, ParseGroups
<1>6. Held(recs) = UNION {RecordSet(p): p \in Files}
  BY <1>3, <1>4
<1> QED
  BY <1>1, <1>5, <1>6, GroupsAreTrue DEF recs

\* ... and a commit of picked paths takes those.
LEMMA CommitTakesPick ==
  ASSUME CommitPaths, NEW p \in Files \ gitReq.paths
  PROVE  head'[p] = head[p]
  BY DEF CommitPaths

\* A content for every path.
Content == [Files -> Contents]

\* What the panel and git work on.
GitTypes ==
  /\ head \in Content /\ index \in Content /\ work \in Content /\ remote \in Content
  /\ midway \subseteq {"merge", "rebase", "cherry-pick"}
  /\ DOMAIN gitReq = {"op", "pc", "paths"}
  /\ gitReq.pc \in {"idle", "git", "status", "commit", "shown"}
  /\ \A k \in DOMAIN answer: answer[k] \subseteq Files

\* Whoever writes to the commit, the index, the disk or the upstream, writes
\* contents.
LEMMA GitTreesStep ==
  ASSUME GitTypes, [GitNext]_gitVars
  PROVE  head' \in Content /\ index' \in Content /\ work' \in Content /\ remote' \in Content
<1>0. head \in Content /\ index \in Content /\ work \in Content /\ remote \in Content
  BY DEF GitTypes
<1>1. CASE AgentEdits
  <2>1. ASSUME NEW f \in Content, NEW p \in Files, NEW v \in Contents
        PROVE  [f EXCEPT ![p] = v] \in Content
    BY DEF Content
  <2>2. \A p \in Files: work[p] \in Contents
    BY <1>0 DEF Content
  <2>3. CASE (\E p \in Files, v \in Contents: work' = [work EXCEPT ![p] = v])
             /\ UNCHANGED <<head, index, remote, diverged, behind, midway>>
    BY <1>0, <2>1, <2>3
  <2>4. CASE (\E p \in Files: index' = [index EXCEPT ![p] = work[p]])
             /\ UNCHANGED <<head, work, remote, diverged, behind, midway>>
    BY <1>0, <2>1, <2>2, <2>4
  <2>5. CASE head' = index /\ UNCHANGED <<index, work, remote, behind>>
    BY <1>0, <2>5
  <2>6. CASE (\E p \in Files, v \in Contents: remote' = [remote EXCEPT ![p] = v])
             /\ UNCHANGED <<head, index, work, diverged, midway>>
    BY <1>0, <2>1, <2>6
  <2>7. CASE UNCHANGED <<head, index, work, remote, diverged, behind>>
    BY <1>0, <2>7
  <2> QED
    BY <1>1, <2>3, <2>4, <2>5, <2>6, <2>7 DEF AgentEdits
<1>2. ASSUME NEW paths, Add(paths)
      PROVE  index' \in Content
  BY <1>0, <1>2 DEF Add, Content
<1>3. CASE Stage
  <2>1. head' = head /\ work' = work /\ remote' = remote
    BY <1>3 DEF Stage
  <2>2. [p \in Files |-> IF p \in gitReq.paths THEN head[p] ELSE index[p]] \in Content
    BY <1>0 DEF Content
  <2>3. index' \in Content
    BY <1>0, <1>2, <1>3, <2>2 DEF Stage
  <2> QED
    BY <1>0, <2>1, <2>3
<1>4. CASE CommitAdds
  <2>1. head' = head /\ work' = work /\ remote' = remote
    BY <1>4 DEF CommitAdds
  <2>2. index' \in Content
    BY <1>0, <1>2, <1>4 DEF CommitAdds
  <2> QED
    BY <1>0, <2>1, <2>2
<1>5. CASE CommitPaths
  <2>1. ASSUME NEW f \in Content
        PROVE  [p \in Files |-> IF p \in gitReq.paths THEN work[p] ELSE f[p]] \in Content
    BY <1>0 DEF Content
  <2>2. work' = work /\ remote' = remote
    BY <1>5 DEF CommitPaths
  <2>3. head' \in Content /\ index' \in Content
    BY <1>0, <1>5, <2>1 DEF CommitPaths
  <2> QED
    BY <1>0, <2>2, <2>3
<1>6. CASE CommitStaged
  <2>1. head' \in {head, index} /\ index' = index /\ work' = work /\ remote' = remote
    BY <1>6 DEF CommitStaged
  <2> QED
    BY <1>0, <2>1
<1>7. CASE Discard
  <2>1. ASSUME NEW f \in Content
        PROVE  [p \in Files |-> IF p \in gitReq.paths THEN head[p] ELSE f[p]] \in Content
    BY <1>0 DEF Content
  <2>2. head' = head /\ remote' = remote
    BY <1>7 DEF Discard
  <2>3. index' \in Content /\ work' \in Content
    BY <1>0, <1>7, <2>1 DEF Discard
  <2> QED
    BY <1>0, <2>2, <2>3
<1>8. CASE FastForward
  <2> DEFINE moved == {p \in Files: remote[p] # head[p]}
  <2>1. ASSUME NEW f \in Content
        PROVE  [p \in Files |-> IF p \in moved THEN remote[p] ELSE f[p]] \in Content
    <3> HIDE DEF moved
    <3> QED
      BY <1>0 DEF Content
  <2>2. remote' = remote
    BY <1>8 DEF FastForward
  <2>3. head' \in {head, remote}
    BY <1>8 DEF FastForward
  <2>4. \/ index' = index /\ work' = work
        \/ /\ index' = [p \in Files |-> IF p \in moved THEN remote[p] ELSE index[p]]
           /\ work' = [p \in Files |-> IF p \in moved THEN remote[p] ELSE work[p]]
    BY <1>8 DEF FastForward
  <2> HIDE DEF moved
  <2> QED
    BY <1>0, <2>1, <2>2, <2>3, <2>4
<1>9. CASE Push
  <2>1. remote' \in {remote, head} /\ head' = head /\ index' = index /\ work' = work
    BY <1>9 DEF Push
  <2> QED
    BY <1>0, <2>1
<1>10. CASE Rebase
  <2> DEFINE merged == [p \in Files |-> IF remote[p] # head[p] /\ ~diverged
                                        THEN remote[p] ELSE head[p]]
  <2>1. merged \in Content
    BY <1>0 DEF Content
  <2>2. remote' = remote
    BY <1>10 DEF Rebase
  <2>3. \/ head' = head /\ index' = index /\ work' = work
        \/ head' = merged /\ index' = merged /\ work' = merged
    BY <1>10 DEF Rebase
  <2> HIDE DEF merged
  <2> QED
    BY <1>0, <2>1, <2>2, <2>3
<1>11. CASE AbortRequest
  <2>1. [p \in Files |-> IF Tracked(p) THEN head[p] ELSE work[p]] \in Content
    BY <1>0 DEF Content
  <2>2. head' = head /\ remote' = remote
    BY <1>11 DEF AbortRequest
  <2>3. \/ index' = index /\ work' = work
        \/ index' = head /\ work' = [p \in Files |-> IF Tracked(p) THEN head[p] ELSE work[p]]
    BY <1>11 DEF AbortRequest
  <2> QED
    BY <1>0, <2>1, <2>2, <2>3
<1>12. CASE AskAny \/ ReadStatus \/ ShowStatus \/ UNCHANGED gitVars
  <2>1. UNCHANGED <<head, index, work, remote>>
    BY <1>12 DEF AskAny, Ask, ReadStatus, ShowStatus, gitVars
  <2> QED
    BY <1>0, <2>1
<1> QED
  BY <1>1, <1>3, <1>4, <1>5, <1>6, <1>7, <1>8, <1>9, <1>10, <1>11, <1>12 DEF GitNext

\* What is under way, asked and answered is what git and the panel know.
LEMMA GitRestSteps ==
  ASSUME GitTypes, [GitNext]_gitVars
  PROVE  /\ (midway \subseteq {"merge", "rebase", "cherry-pick"})'
         /\ (DOMAIN gitReq = {"op", "pc", "paths"})'
         /\ (gitReq.pc \in {"idle", "git", "status", "commit", "shown"})'
         /\ (\A k \in DOMAIN answer: answer[k] \subseteq Files)'
<1>1. (midway \subseteq {"merge", "rebase", "cherry-pick"})'
  <2>0. midway \subseteq {"merge", "rebase", "cherry-pick"}
    BY DEF GitTypes
  <2>1. CASE AgentEdits
    BY <2>0, <2>1 DEF AgentEdits
  <2>2. CASE CommitStaged \/ AbortRequest
    <3>1. midway' \subseteq midway
      BY <2>2 DEF CommitStaged, AbortRequest
    <3> QED
      BY <2>0, <3>1
  <2>3. CASE Rebase
    BY <2>0, <2>3 DEF Rebase
  <2>4. CASE AskAny \/ Stage \/ ReadStatus \/ ShowStatus \/ CommitAdds \/ CommitPaths
             \/ Discard \/ FastForward \/ Push \/ UNCHANGED gitVars
    <3>1. midway' = midway
      BY <2>4 DEF AskAny, Ask, Stage, ReadStatus, ShowStatus, CommitAdds, CommitPaths, Discard,
                  FastForward, Push, gitVars
    <3> QED
      BY <2>0, <3>1
  <2> QED
    BY <2>1, <2>2, <2>3, <2>4 DEF GitNext
<1>2. /\ (DOMAIN gitReq = {"op", "pc", "paths"})'
      /\ (gitReq.pc \in {"idle", "git", "status", "commit", "shown"})'
  <2>1. CASE gitReq' = NoRequest
    BY <2>1 DEF NoRequest
  <2>2. ASSUME NEW pc \in {"status", "commit"}, Then(pc)
        PROVE  /\ (DOMAIN gitReq = {"op", "pc", "paths"})'
               /\ (gitReq.pc \in {"idle", "git", "status", "commit", "shown"})'
    BY <2>2 DEF Then, GitTypes
  <2>3. CASE AskAny
    BY <2>3 DEF AskAny, Ask
  <2>4. CASE ReadStatus
    BY <2>4 DEF ReadStatus, NoRequest
  <2>5. CASE AgentEdits \/ UNCHANGED gitVars
    <3>1. gitReq' = gitReq
      BY <2>5 DEF AgentEdits, gitVars
    <3> QED
      BY <3>1 DEF GitTypes
  <2>6. CASE Stage \/ CommitAdds
    BY <2>1, <2>2, <2>6 DEF Stage, CommitAdds, Respond
  <2>7. CASE \/ ShowStatus \/ CommitPaths \/ CommitStaged \/ Discard \/ FastForward \/ Push
             \/ Rebase \/ AbortRequest
    <3>1. gitReq' = NoRequest
      BY <2>7 DEF ShowStatus, CommitPaths, CommitStaged, Discard, FastForward, Push, Rebase,
                  AbortRequest, Respond
    <3> QED
      BY <2>1, <3>1
  <2> QED
    BY <2>3, <2>4, <2>5, <2>6, <2>7 DEF GitNext
<1>3. (\A k \in DOMAIN answer: answer[k] \subseteq Files)'
  <2>1. CASE ReadStatus
    <3>1. answer' = TrueStatus
      BY <2>1, StatusIsTrue DEF ReadStatus
    <3> QED
      BY <3>1 DEF TrueStatus
  <2>2. CASE \/ AgentEdits \/ AskAny \/ Stage \/ ShowStatus \/ CommitAdds \/ CommitPaths
             \/ CommitStaged \/ Discard \/ FastForward \/ Push \/ Rebase \/ AbortRequest
             \/ UNCHANGED gitVars
    <3>1. answer' = answer
      BY <2>2 DEF AgentEdits, AskAny, Ask, Stage, ShowStatus, CommitAdds, CommitPaths,
                  CommitStaged, Discard, FastForward, Push, Rebase, AbortRequest, gitVars
    <3> QED
      BY <3>1 DEF GitTypes
  <2> QED
    BY <2>1, <2>2 DEF GitNext
<1> QED
  BY <1>1, <1>2, <1>3

\* Both together, from the start on.
LEMMA GitSteps == GitTypes /\ [GitNext]_gitVars => GitTypes'
  BY GitTreesStep, GitRestSteps DEF GitTypes, Content, Contents

LEMMA GitStarts == GitInit => GitTypes
<1> SUFFICES ASSUME GitInit PROVE GitTypes
  OBVIOUS
<1>1. 0..1 \subseteq Contents
  BY GitAssumption DEF Contents
<1>2. head \in Content /\ index = head /\ work = head /\ remote = head
  BY <1>1 DEF GitInit, Content
<1>3. \A k \in DOMAIN Silent: Silent[k] \subseteq Files
  BY DEF Silent
<1> QED
  BY <1>2, <1>3 DEF GitInit, GitTypes, NoRequest

LEMMA GitHolds == GitTypes => GitTypeOK
  BY DEF GitTypes, GitTypeOK, Content

-------------------------------------------------------------------------------
(* The task panel: what it shows is a parse of the transcript.             *)

\* One position of the parse: the line that ends behind it, if it is whole.
ParseStep(v, bytes, i, from) ==
  IF i > from /\ i \in Whole(bytes) THEN ApplyLine(v, bytes[i].block) ELSE v

\* The parse up to each position.
Parsed(st, bytes, from) ==
  CHOOSE f : f = [i \in 0..Len(bytes) |->
                    IF i = 0 THEN st
                    ELSE IF i - 1 > from /\ i - 1 \in Whole(bytes)
                         THEN ApplyLine(f[i - 1], bytes[i - 1].block)
                         ELSE f[i - 1]]

\* What ParseFrom returns is where that ends.
LEMMA ParseFromIs ==
  ASSUME NEW st, NEW bytes, NEW from
  PROVE  ParseFrom(st, bytes, from) = Parsed(st, bytes, from)[Len(bytes)]
  BY DEF ParseFrom, Parsed

\* f is the parse of the first m bytes.
IsParse(f, m, st, bytes, from) ==
  /\ f = [i \in 0..m |-> f[i]]
  /\ f[0] = st
  /\ \A i \in 1..m: f[i] = ParseStep(f[i - 1], bytes, i - 1, from)

\* There is such a function.
LEMMA ParseExists ==
  ASSUME NEW n \in Nat, NEW st, NEW bytes, NEW from
  PROVE  \E f: IsParse(f, n, st, bytes, from)
<1> DEFINE Bad == {m \in 0..n: ~\E f: IsParse(f, m, st, bytes, from)}
<1>1. CASE Bad = {}
  BY <1>1
<1>2. CASE Bad # {}
  <2>1. Bad \in SUBSET Nat
    OBVIOUS
  <2>2. PICK m \in Bad: \A j \in Bad: m <= j
    BY <1>2, <2>1, LeastIndex
  <2>3. m \in 0..n /\ ~\E f: IsParse(f, m, st, bytes, from)
    BY <2>2
  <2>4. CASE m = 0
    <3> DEFINE g == [i \in 0..0 |-> st]
    <3>1. g[0] = st /\ g = [i \in 0..0 |-> g[i]] /\ 1..0 = {}
      OBVIOUS
    <3> HIDE DEF g
    <3>2. IsParse(g, m, st, bytes, from)
      BY <2>4, <3>1 DEF IsParse
    <3> QED
      BY <2>3, <3>2
  <2>5. CASE m # 0
    <3>1. m - 1 \in 0..n /\ ~(m <= m - 1) /\ m \in 1..n
      BY <2>3, <2>5
    <3>2. PICK h: IsParse(h, m - 1, st, bytes, from)
      BY <2>2, <3>1
    <3> DEFINE g == [i \in 0..m |-> IF i = m THEN ParseStep(h[m - 1], bytes, m - 1, from) ELSE h[i]]
    <3>3. g = [i \in 0..m |-> g[i]]
      OBVIOUS
    <3>4. \A i \in 0..m: i # m => g[i] = h[i]
      OBVIOUS
    <3>5. m \in 0..m /\ g[m] = ParseStep(h[m - 1], bytes, m - 1, from)
      BY <3>1
    <3> HIDE DEF g
    <3>6. g[0] = st
      BY <2>5, <3>1, <3>2, <3>4 DEF IsParse
    <3>7. ASSUME NEW i \in 1..m
          PROVE  g[i] = ParseStep(g[i - 1], bytes, i - 1, from)
      <4>1. i - 1 \in 0..m /\ i - 1 # m /\ i \in 0..m
        BY <3>1
      <4>2. g[i - 1] = h[i - 1]
        BY <3>4, <4>1
      <4>3. CASE i = m
        BY <3>5, <4>2, <4>3
      <4>4. CASE i # m
        <5>1. i \in 1..(m - 1)
          BY <3>1, <4>4
        <5>2. h[i] = ParseStep(h[i - 1], bytes, i - 1, from)
          BY <3>2, <5>1 DEF IsParse
        <5> QED
          BY <3>4, <4>1, <4>2, <4>4, <5>2
      <4> QED
        BY <4>3, <4>4
    <3>8. IsParse(g, m, st, bytes, from)
      BY <3>3, <3>6, <3>7 DEF IsParse
    <3> QED
      BY <2>3, <3>8
  <2> QED
    BY <2>4, <2>5
<1> QED
  BY <1>1, <1>2

\* So the parse is one.
LEMMA ParsedIs ==
  ASSUME NEW st, NEW bytes, NEW from, Len(bytes) \in Nat
  PROVE  IsParse(Parsed(st, bytes, from), Len(bytes), st, bytes, from)
<1> DEFINE n == Len(bytes)
<1>1. PICK g: IsParse(g, n, st, bytes, from)
  BY ParseExists
<1>2. ASSUME NEW i \in 0..n
      PROVE  g[i] = IF i = 0 THEN st
                    ELSE IF i - 1 > from /\ i - 1 \in Whole(bytes)
                         THEN ApplyLine(g[i - 1], bytes[i - 1].block) ELSE g[i - 1]
  <2>1. CASE i = 0
    BY <1>1, <2>1 DEF IsParse
  <2>2. CASE i # 0
    <3>1. i \in 1..n
      BY <2>2
    <3>2. g[i] = ParseStep(g[i - 1], bytes, i - 1, from)
      BY <1>1, <3>1 DEF IsParse
    <3> QED
      BY <2>2, <3>2 DEF ParseStep
  <2> QED
    BY <2>1, <2>2
<1>3. g = [i \in 0..n |-> IF i = 0 THEN st
                          ELSE IF i - 1 > from /\ i - 1 \in Whole(bytes)
                               THEN ApplyLine(g[i - 1], bytes[i - 1].block) ELSE g[i - 1]]
  <2>1. g = [i \in 0..n |-> g[i]]
    BY <1>1 DEF IsParse
  <2> QED
    BY <1>2, <2>1
<1> DEFINE f == Parsed(st, bytes, from)
<1>4. f = [i \in 0..n |-> IF i = 0 THEN st
                          ELSE IF i - 1 > from /\ i - 1 \in Whole(bytes)
                               THEN ApplyLine(f[i - 1], bytes[i - 1].block) ELSE f[i - 1]]
  BY <1>3 DEF Parsed
<1> HIDE DEF f
<1>5. \A i \in 0..n: f[i] = IF i = 0 THEN st
                            ELSE IF i - 1 > from /\ i - 1 \in Whole(bytes)
                                 THEN ApplyLine(f[i - 1], bytes[i - 1].block) ELSE f[i - 1]
  BY <1>4
<1>6. f = [i \in 0..n |-> f[i]]
  BY <1>4
<1>7. 0 \in 0..n /\ \A i \in 1..n: i \in 0..n /\ i # 0
  OBVIOUS
<1>8. f[0] = st
  BY <1>5, <1>7
<1>9. ASSUME NEW i \in 1..n
      PROVE  f[i] = ParseStep(f[i - 1], bytes, i - 1, from)
  BY <1>5, <1>7 DEF ParseStep
<1> QED
  BY <1>6, <1>8, <1>9 DEF IsParse, f

\* What the parse does at a position depends on the bytes up to there.
LEMMA ParsePrefix ==
  ASSUME NEW st, NEW a, NEW b, NEW from, NEW c \in Nat, Len(a) \in Nat, Len(b) \in Nat,
         c <= Len(a), c <= Len(b), \A i \in 1..c: a[i] = b[i]
  PROVE  \A i \in 0..c: Parsed(st, a, from)[i] = Parsed(st, b, from)[i]
<1> DEFINE f == Parsed(st, a, from)
           g == Parsed(st, b, from)
<1>1. IsParse(f, Len(a), st, a, from) /\ IsParse(g, Len(b), st, b, from)
  BY ParsedIs
<1> HIDE DEF f, g
<1> DEFINE Good == {i \in 0..c: f[i] = g[i]}
<1>2. 0 \in Good
  BY <1>1 DEF IsParse
<1>3. ASSUME NEW i \in 1..c, i - 1 \in Good
      PROVE  i \in Good
  <2>1. i \in 1..Len(a) /\ i \in 1..Len(b) /\ f[i - 1] = g[i - 1] /\ i \in 0..c
    BY <1>3
  <2>2. f[i] = ParseStep(f[i - 1], a, i - 1, from) /\ g[i] = ParseStep(g[i - 1], b, i - 1, from)
    BY <1>1, <2>1 DEF IsParse
  <2>3. i - 1 \in Whole(a) <=> i - 1 \in Whole(b)
    <3>1. CASE i = 1
      BY <3>1 DEF Whole
    <3>2. CASE i # 1
      <4>1. i - 1 \in 1..c /\ i - 1 \in 1..Len(a) - 1 /\ i - 1 \in 1..Len(b) - 1
            /\ (i - 1) + 1 = i
        BY <2>1, <3>2
      <4>2. a[i - 1] = b[i - 1] /\ a[i] = b[i]
        BY <4>1
      <4> QED
        BY <4>1, <4>2 DEF Whole
    <3> QED
      BY <3>1, <3>2
  <2>4. i - 1 \in Whole(a) => a[i - 1].block = b[i - 1].block
    <3>1. i - 1 \in Whole(a) => i - 1 \in 1..c
      BY DEF Whole
    <3> QED
      BY <3>1
  <2>5. f[i] = g[i]
    BY <2>1, <2>2, <2>3, <2>4 DEF ParseStep
  <2> QED
    BY <2>1, <2>5
<1>4. \A i \in 0..c: i \in Good
  <2> HIDE DEF Good
  <2> QED
    BY <1>2, <1>3, IndexInduction
<1> QED
  BY <1>4 DEF f, g

\* A parse from a position on starts behind it.
LEMMA ParseRests ==
  ASSUME NEW v, NEW b, NEW from \in Nat, Len(b) \in Nat
  PROVE  \A i \in 0..Len(b): i <= from + 1 => Parsed(v, b, from)[i] = v
<1> DEFINE f == Parsed(v, b, from)
<1>1. IsParse(f, Len(b), v, b, from)
  BY ParsedIs
<1> HIDE DEF f
<1> DEFINE Good == {i \in 0..Len(b): i <= from + 1 => f[i] = v}
<1>2. 0 \in Good
  BY <1>1 DEF IsParse
<1>3. ASSUME NEW i \in 1..Len(b), i - 1 \in Good
      PROVE  i \in Good
  <2>1. f[i] = ParseStep(f[i - 1], b, i - 1, from)
    BY <1>1 DEF IsParse
  <2>2. ASSUME i <= from + 1 PROVE f[i] = v
    <3>1. f[i - 1] = v /\ ~(i - 1 > from)
      BY <1>3, <2>2
    <3> QED
      BY <2>1, <3>1 DEF ParseStep
  <2> QED
    BY <2>2
<1>4. \A i \in 0..Len(b): i \in Good
  <2> HIDE DEF Good
  <2> QED
    BY <1>2, <1>3, IndexInduction
<1> QED
  BY <1>4 DEF f

\* The transcript: every line is a head and a tail, the last one perhaps a
\* head alone.
Halves == [half: {"head", "tail"}, block: Blocks]
Lines(b) ==
  /\ b \in Seq(Halves)
  /\ \A i \in 1..Len(b): b[i].half = IF i % 2 = 1 THEN "head" ELSE "tail"

\* A place where a parse that began behind from may stop: between two lines.
BetweenLines(from, c) == c = from \/ c % 2 = 0

\* A parse that goes on behind what another has consumed gives what one parse
\* of both gives, unless it goes on in the middle of a line.
LEMMA ParseGoesOn ==
  ASSUME NEW st, NEW b, Lines(b), NEW from \in Nat, NEW c \in Nat, NEW e \in Nat,
         from <= c, c <= e, e <= Len(b), BetweenLines(from, c)
  PROVE  Parsed(Parsed(st, b, from)[c], b, c)[e] = Parsed(st, b, from)[e]
<1> DEFINE h == Parsed(st, b, from)
           v == h[c]
           g == Parsed(v, b, c)
<1>0. Len(b) \in Nat
  BY LenProperties DEF Lines
<1>1. IsParse(h, Len(b), st, b, from) /\ IsParse(g, Len(b), v, b, c)
  BY <1>0, ParsedIs
<1>2. \A i \in 0..Len(b): i <= c + 1 => g[i] = v
  BY <1>0, ParseRests
<1> HIDE DEF h, g
<1> DEFINE Good == {i \in 0..e: i >= c => g[i] = h[i]}
<1>3. g[c] = h[c]
  BY <1>0, <1>2
<1>4. 0 \in Good
  BY <1>3
<1>5. ASSUME NEW i \in 1..e, i - 1 \in Good
      PROVE  i \in Good
  <2>1. i \in 1..Len(b) /\ i \in 0..e
    BY <1>0
  <2>2. h[i] = ParseStep(h[i - 1], b, i - 1, from) /\ g[i] = ParseStep(g[i - 1], b, i - 1, c)
    BY <1>1, <2>1 DEF IsParse
  <2>3. CASE i <= c
    BY <1>3, <2>1, <2>3
  <2>4. CASE i = c + 1
    <3>1. i - 1 = c /\ g[i - 1] = h[i - 1]
      BY <1>3, <2>4
    <3>2. ~(c > from /\ c \in Whole(b))
      BY DEF Whole, Lines, BetweenLines
    <3>3. h[i] = h[c] /\ g[i] = g[c]
      BY <2>2, <3>1, <3>2 DEF ParseStep
    <3> QED
      BY <1>3, <2>1, <3>3
  <2>5. CASE i > c + 1
    <3>1. i - 1 > c /\ i - 1 > from /\ g[i - 1] = h[i - 1]
      BY <1>5, <2>5
    <3>2. h[i] = g[i]
      BY <2>2, <3>1 DEF ParseStep
    <3> QED
      BY <2>1, <3>2
  <2> QED
    BY <2>3, <2>4, <2>5
<1>6. \A i \in 0..e: i \in Good
  <2> HIDE DEF Good
  <2> QED
    BY <1>4, <1>5, IndexInduction
<1>7. e \in 0..e
  OBVIOUS
<1> QED
  BY <1>6, <1>7 DEF h, g

\* The complete lines of a transcript, and what comes behind them.
LEMMA CompleteIs ==
  ASSUME NEW b, Lines(b)
  PROVE  /\ Len(b) \in Nat /\ CompleteLen(b) \in 0..Len(b)
         /\ CompleteLen(b) % 2 = 0
         /\ \/ CompleteLen(b) = Len(b) /\ (b # <<>> => Last(b).half = "tail")
            \/ CompleteLen(b) = Len(b) - 1 /\ b # <<>> /\ b[Len(b)].half = "head"
<1>1. Len(b) \in Nat /\ (b # <<>> <=> Len(b) # 0)
  BY EmptySeq, LenProperties DEF Lines
<1>2. CASE b = <<>>
  BY <1>1, <1>2 DEF CompleteLen
<1>3. CASE b # <<>>
  <2>1. Len(b) \in 1..Len(b) /\ Last(b) = b[Len(b)]
    BY <1>1, <1>3 DEF Last
  <2>2. b[Len(b)].half = IF Len(b) % 2 = 1 THEN "head" ELSE "tail"
    BY <2>1 DEF Lines
  <2>3. CASE Len(b) % 2 = 1
    <3>1. (Len(b) - 1) % 2 = 0
      BY <1>1, <2>3
    <3> QED
      BY <1>1, <1>3, <2>1, <2>2, <2>3, <3>1 DEF CompleteLen
  <2>4. CASE Len(b) % 2 # 1
    <3>1. Len(b) % 2 = 0
      BY <1>1, <2>4
    <3> QED
      BY <1>1, <1>3, <2>1, <2>2, <2>4, <3>1 DEF CompleteLen
  <2> QED
    BY <2>3, <2>4
<1> QED
  BY <1>2, <1>3

\* The first e bytes.
LEMMA CutIs ==
  ASSUME NEW S, NEW b \in Seq(S), NEW e \in 0..Len(b)
  PROVE  /\ SubSeq(b, 1, e) \in Seq(S) /\ Len(SubSeq(b, 1, e)) = e
         /\ \A i \in 1..e: SubSeq(b, 1, e)[i] = b[i]
<1>1. Len(b) \in Nat
  BY LenProperties
<1>2. \A i \in 1..e: b[i] \in S
  BY <1>1, ElementOfSeq
<1>3. /\ SubSeq(b, 1, e) \in Seq(S)
      /\ Len(SubSeq(b, 1, e)) = IF 1 <= e THEN e - 1 + 1 ELSE 0
      /\ \A i \in 1..(e - 1 + 1): SubSeq(b, 1, e)[i] = b[1 + i - 1]
  BY <1>1, <1>2, SubSeqProperties
<1>4. e - 1 + 1 = e /\ (IF 1 <= e THEN e - 1 + 1 ELSE 0) = e /\ \A i \in 1..e: 1 + i - 1 = i
  OBVIOUS
<1> QED
  BY <1>3, <1>4

\* A parse of the first e bytes is the parse up to there.
LEMMA CutParse ==
  ASSUME NEW st, NEW S, NEW b \in Seq(S), NEW from, NEW e \in 0..Len(b)
  PROVE  ParseFrom(st, SubSeq(b, 1, e), from) = Parsed(st, b, from)[e]
<1> DEFINE a == SubSeq(b, 1, e)
<1>1. Len(b) \in Nat
  BY LenProperties
<1>2. Len(a) = e /\ \A i \in 1..e: a[i] = b[i]
  BY CutIs
<1> HIDE DEF a
<1>3. \A i \in 0..e: Parsed(st, a, from)[i] = Parsed(st, b, from)[i]
  BY <1>1, <1>2, ParsePrefix
<1>4. ParseFrom(st, a, from) = Parsed(st, a, from)[e]
  BY <1>2, ParseFromIs
<1>5. e \in 0..e
  BY <1>1
<1> QED
  BY <1>3, <1>4, <1>5 DEF a

\* Half a line behind the complete ones is not parsed.
LEMMA HalfIsIgnored ==
  ASSUME NEW st, NEW b, Lines(b), NEW from
  PROVE  ParseFrom(st, b, from) = Parsed(st, b, from)[CompleteLen(b)]
<1>1. ParseFrom(st, b, from) = Parsed(st, b, from)[Len(b)]
  BY ParseFromIs
<1>2. CASE CompleteLen(b) = Len(b)
  BY <1>1, <1>2
<1>3. CASE CompleteLen(b) # Len(b)
  <2>1. Len(b) \in Nat /\ CompleteLen(b) = Len(b) - 1 /\ b[Len(b)].half = "head" /\ Len(b) # 0
    BY <1>3, CompleteIs
  <2>2. IsParse(Parsed(st, b, from), Len(b), st, b, from)
    BY <2>1, ParsedIs
  <2>3. Len(b) \in 1..Len(b) /\ (Len(b) - 1) + 1 = Len(b)
    BY <2>1
  <2>4. Len(b) - 1 \notin Whole(b)
    BY <2>1, <2>3 DEF Whole
  <2>5. Parsed(st, b, from)[Len(b)] = Parsed(st, b, from)[Len(b) - 1]
    BY <2>2, <2>3, <2>4 DEF IsParse, ParseStep
  <2> QED
    BY <1>1, <2>1, <2>5
<1> QED
  BY <1>2, <1>3

\* What refresh adds to what was consumed, what a start parses, and what a
\* reset leaves.
LEMMA RefreshParses ==
  ASSUME NEW st, NEW b, Lines(b), NEW from \in Nat, NEW c \in Nat,
         from <= c, c <= CompleteLen(b), BetweenLines(from, c)
  PROVE  ParseFrom(ParseFrom(st, SubSeq(b, 1, c), from), b, c)
           = ParseFrom(st, SubSeq(b, 1, CompleteLen(b)), from)
<1> DEFINE e == CompleteLen(b)
           v == Parsed(st, b, from)[c]
<1>1. /\ Len(b) \in Nat /\ e \in 0..Len(b) /\ c \in 0..Len(b) /\ b \in Seq(Halves)
      /\ e \in Nat /\ c <= e /\ e <= Len(b)
  BY CompleteIs DEF Lines
<1>2. ParseFrom(st, SubSeq(b, 1, c), from) = v
  BY <1>1, CutParse
<1>3. ParseFrom(st, SubSeq(b, 1, e), from) = Parsed(st, b, from)[e]
  BY <1>1, CutParse
<1>4. ParseFrom(v, b, c) = Parsed(v, b, c)[e]
  BY HalfIsIgnored
<1>5. Parsed(v, b, c)[e] = Parsed(st, b, from)[e]
  <2>1. e \in Nat /\ c <= e /\ e <= Len(b)
    BY <1>1
  <2> HIDE DEF e
  <2>2. Parsed(Parsed(st, b, from)[c], b, c)[e] = Parsed(st, b, from)[e]
    BY ONLY <2>1, Lines(b), from \in Nat, c \in Nat, from <= c, BetweenLines(from, c), ParseGoesOn
  <2> QED
    BY <2>2
<1> QED
  BY <1>2, <1>3, <1>4, <1>5

\* A start parses what is complete, whatever is being written behind it.
LEMMA StartParsesAll ==
  ASSUME NEW st, NEW b, Lines(b)
  PROVE  ParseFrom(st, b, 0) = ParseFrom(st, SubSeq(b, 1, CompleteLen(b)), 0)
<1>1. CompleteLen(b) \in 0..Len(b) /\ b \in Seq(Halves)
  BY CompleteIs DEF Lines
<1>2. ParseFrom(st, b, 0) = Parsed(st, b, 0)[CompleteLen(b)]
  BY HalfIsIgnored
<1>3. ParseFrom(st, SubSeq(b, 1, CompleteLen(b)), 0) = Parsed(st, b, 0)[CompleteLen(b)]
  BY <1>1, CutParse
<1> QED
  BY <1>2, <1>3

\* Behind a reset nothing is there yet.
LEMMA ResetParses ==
  ASSUME NEW st, NEW S, NEW b \in Seq(S), NEW c \in 0..Len(b)
  PROVE  ParseFrom(st, SubSeq(b, 1, c), c) = st
<1>1. Len(b) \in Nat /\ c \in Nat /\ c <= c + 1
  BY LenProperties
<1>2. Parsed(st, b, c)[c] = st
  BY <1>1, ParseRests
<1> QED
  BY <1>2, CutParse

-------------------------------------------------------------------------------
\* A state and a cursor that have consumed all up to the cursor, and show what
\* came behind the place that a reset consumed.
Shows(bytes, from, state, cursor) ==
  /\ from <= cursor /\ cursor <= Len(bytes)
  /\ BetweenLines(from, cursor)
  /\ state = ParseFrom(NoTasks, SubSeq(bytes, 1, cursor), from)

\* Where a cursor can stand.
Places == 0..2 * MaxLines

\* The file, the slot, the cursor of a remote panel and the requests.
PanelTypes ==
  /\ file \in [ino: 0..MaxInodes, bytes: Seq(Halves)]
  /\ Lines(file.bytes) /\ Len(file.bytes) <= 2 * MaxLines
  /\ file.ino = 0 => file.bytes = <<>>
  /\ DOMAIN slot = {"on", "state", "cursor", "base", "ino"}
  /\ slot.on \in BOOLEAN /\ slot.cursor \in Places /\ slot.base \in Places
  /\ slot.base <= slot.cursor /\ slot.ino \in 0..file.ino
  /\ remoteCursor \in [seen: Seq(Halves), resetAt: Places, known: BOOLEAN]
  /\ Len(remoteCursor.seen) <= 2 * MaxLines
  /\ resets \in 0..MaxResets /\ polls \in 0..MaxPolls
  /\ cleared \in Places /\ raced \in BOOLEAN

\* A local session has a slot and a remote one its cursor, each its requests.
PollKinds(p) ==
  /\ DOMAIN poll[p] = {"pc", "state", "cursor", "bytes"}
  /\ poll[p].cursor \in Places
  /\ poll[p].bytes \in Seq(Halves) /\ Len(poll[p].bytes) <= 2 * MaxLines
  /\ \/ poll[p].pc = "idle"
     \/ where = "local" /\ poll[p].pc \in {"parse", "insert", "reconcile"}
     \/ where = "ssh" /\ poll[p].pc \in {"read", "start"}

\* Those of a session of either kind.
PanelKinds ==
  /\ where \in {"local", "ssh"}
  /\ where = "ssh" => ~slot.on
  /\ where = "local" => ~remoteCursor.known
  /\ poll = [p \in Polls |-> poll[p]]
  /\ \A p \in Polls: PollKinds(p)

\* As long as no start raced: a slot of the file at hand has consumed it, one
\* of an older file will start over, and a start has parsed the file.
SlotShows ==
  /\ slot.on /\ slot.ino = file.ino => Shows(file.bytes, cleared, slot.state, slot.cursor)
  /\ slot.on /\ slot.ino # file.ino =>
       cleared = 0 /\ (slot.ino = 0 => slot.cursor = 0 /\ slot.state = NoTasks)

\* A start that is about to insert its slot has parsed the file.
StartShows ==
  where = "local" /\ ~slot.on =>
    /\ cleared = 0
    /\ \A p \in Polls: poll[p].pc = "insert" =>
         Shows(file.bytes, cleared, poll[p].state, poll[p].cursor)

\* Unless something raced, all of it.
PanelInv == PanelTypes /\ PanelKinds /\ (~raced => SlotShows /\ StartShows)

\* What the bounds are good for.
LEMMA PanelBounds ==
  /\ MaxLines \in Nat /\ MaxLines # 0 /\ MaxInodes \in Nat /\ MaxInodes # 0
  /\ MaxResets \in Nat /\ MaxPolls \in Nat
  /\ 2 * MaxLines \in Nat /\ 2 <= 2 * MaxLines
  /\ Places \subseteq Nat /\ 0 \in Places
<1>1. /\ MaxLines \in Nat /\ MaxLines # 0 /\ MaxInodes \in Nat /\ MaxInodes # 0
      /\ MaxResets \in Nat /\ MaxPolls \in Nat
  BY TranscriptAssumption
<1> QED
  BY <1>1 DEF Places

\* A panel without a file is in order.
LEMMA PanelStarts == TranscriptInit => PanelInv
<1> SUFFICES ASSUME TranscriptInit PROVE PanelInv
  OBVIOUS
<1>1. <<>> \in Seq(Halves) /\ Len(<<>>) = 0
  OBVIOUS
<1>2. Lines(<<>>)
  BY <1>1 DEF Lines
<1>3. PanelTypes
  <2>1. /\ file \in [ino: 0..MaxInodes, bytes: Seq(Halves)]
        /\ Lines(file.bytes) /\ Len(file.bytes) <= 2 * MaxLines
        /\ file.ino = 0 /\ file.bytes = <<>>
    BY <1>1, <1>2, PanelBounds DEF TranscriptInit, NoFile
  <2>2. /\ DOMAIN slot = {"on", "state", "cursor", "base", "ino"}
        /\ slot.on = FALSE /\ slot.cursor = 0 /\ slot.base = 0 /\ slot.ino = 0
    BY DEF TranscriptInit, NoSlot
  <2>3. /\ remoteCursor \in [seen: Seq(Halves), resetAt: Places, known: BOOLEAN]
        /\ Len(remoteCursor.seen) <= 2 * MaxLines
    BY <1>1, PanelBounds DEF TranscriptInit
  <2>4. resets \in 0..MaxResets /\ polls \in 0..MaxPolls /\ cleared \in Places
    BY PanelBounds DEF TranscriptInit
  <2>5. raced \in BOOLEAN
    BY DEF TranscriptInit
  <2>6. slot.on \in BOOLEAN
    BY <2>2
  <2>7. /\ slot.cursor \in Places /\ slot.base \in Places
        /\ slot.base <= slot.cursor /\ slot.ino \in 0..file.ino
    BY <2>1, <2>2, PanelBounds
  <2> QED
    BY <2>1, <2>2, <2>3, <2>4, <2>5, <2>6, <2>7 DEF PanelTypes
<1>4. ASSUME NEW p \in Polls PROVE PollKinds(p)
  <2>1. poll[p] = NoPoll
    BY DEF TranscriptInit
  <2>2. DOMAIN NoPoll = {"pc", "state", "cursor", "bytes"} /\ NoPoll.pc = "idle"
        /\ NoPoll.cursor = 0 /\ NoPoll.bytes = <<>>
    BY DEF NoPoll
  <2> QED
    BY <1>1, <2>1, <2>2, PanelBounds DEF PollKinds
<1>5. PanelKinds
  BY <1>4 DEF TranscriptInit, PanelKinds, NoSlot
<1>6. SlotShows /\ StartShows
  BY DEF TranscriptInit, SlotShows, StartShows, NoSlot, NoPoll
<1> QED
  BY <1>3, <1>5, <1>6 DEF PanelInv

\* What has consumed a file has consumed the longer one.
LEMMA ShowsLonger ==
  ASSUME NEW S, NEW b \in Seq(S), NEW x \in S, NEW from \in Nat, NEW state, NEW c \in Nat,
         Shows(b, from, state, c)
  PROVE  Shows(Append(b, x), from, state, c)
<1> DEFINE d == Append(b, x)
<1>1. /\ d \in Seq(S) /\ Len(d) = Len(b) + 1 /\ Len(b) \in Nat
      /\ \A i \in 1..Len(b): d[i] = b[i]
  BY AppendProperties, LenProperties
<1>2. c \in 0..Len(b) /\ c \in 0..Len(d) /\ c <= Len(b) /\ c <= Len(d) /\ c \in 0..c
      /\ \A i \in 1..c: d[i] = b[i]
  BY <1>1 DEF Shows
<1> HIDE DEF d
<1>3. \A i \in 0..c: Parsed(NoTasks, d, from)[i] = Parsed(NoTasks, b, from)[i]
  BY <1>1, <1>2, ParsePrefix
<1>4. ParseFrom(NoTasks, SubSeq(b, 1, c), from) = Parsed(NoTasks, b, from)[c]
  BY <1>2, CutParse
<1>5. ParseFrom(NoTasks, SubSeq(d, 1, c), from) = Parsed(NoTasks, d, from)[c]
  BY <1>1, <1>2, CutParse
<1>6. ParseFrom(NoTasks, SubSeq(d, 1, c), from) = ParseFrom(NoTasks, SubSeq(b, 1, c), from)
  BY <1>2, <1>3, <1>4, <1>5
<1>7. Shows(d, from, state, c)
  BY <1>2, <1>6 DEF Shows
<1> QED
  BY <1>7 DEF d

\* Nothing is shown of what a reset has consumed; an empty file shows nothing.
LEMMA ShowsNothing ==
  ASSUME NEW S, NEW b \in Seq(S), NEW c \in 0..Len(b)
  PROVE  Shows(b, c, NoTasks, c)
<1>1. ParseFrom(NoTasks, SubSeq(b, 1, c), c) = NoTasks
  BY ResetParses
<1>2. Len(b) \in Nat /\ c <= c /\ c <= Len(b)
  BY LenProperties
<1> QED
  BY <1>1, <1>2 DEF Shows, BetweenLines

\* And of an empty file nothing is shown.
LEMMA EmptyShows ==
  ASSUME NEW b \in Seq(Halves), b = <<>>, NEW from \in Nat, NEW state, NEW c \in Nat,
         Shows(b, from, state, c)
  PROVE  from = 0 /\ c = 0 /\ state = NoTasks
<1>1. Len(b) = 0
  OBVIOUS
<1>2. from = 0 /\ c = 0
  BY <1>1 DEF Shows
<1>3. state = ParseFrom(NoTasks, SubSeq(b, 1, 0), 0)
  BY <1>2 DEF Shows
<1>4. 0 \in 0..Len(b)
  BY <1>1
<1>5. state = NoTasks
  BY <1>3, <1>4, ResetParses
<1> QED
  BY <1>2, <1>5

\* Heads and tails take turns.
LEMMA Parity ==
  ASSUME NEW n \in Nat, NEW m \in Nat
  PROVE  /\ n % 2 = 0 => (n + 1) % 2 = 1
         /\ (n - 1) % 2 = 0 => ~((n + 1) % 2 = 1)
         /\ (n - 1) % 2 = 0 /\ n <= 2 * m => n + 1 <= 2 * m
  OBVIOUS

\* The half that is written next keeps the lines in order.
NextHalf(x) ==
  /\ file' = [ino |-> IF file.ino = 0 THEN 1 ELSE file.ino,
              bytes |-> Append(file.bytes, x)]
  /\ x.half = IF (Len(file.bytes) + 1) % 2 = 1 THEN "head" ELSE "tail"
  /\ Len(file.bytes) + 1 <= 2 * MaxLines

LEMMA AgentAppends ==
  ASSUME PanelInv, AgentWrites
  PROVE  \E x \in Halves: NextHalf(x)
<1> DEFINE n == Len(file.bytes)
<1>1. /\ Lines(file.bytes) /\ n <= 2 * MaxLines /\ file.bytes \in Seq(Halves)
      /\ file \in [ino: 0..MaxInodes, bytes: Seq(Halves)]
      /\ (file.ino = 0 => file.bytes = <<>>)
  BY DEF PanelInv, PanelTypes
<1>2. /\ n \in Nat /\ CompleteLen(file.bytes) \in 0..n /\ CompleteLen(file.bytes) % 2 = 0
      /\ \/ CompleteLen(file.bytes) = n
         \/ CompleteLen(file.bytes) = n - 1 /\ file.bytes # <<>> /\ file.bytes[n].half = "head"
  BY <1>1, CompleteIs
<1>3. CASE CompleteLen(file.bytes) = n
  <2>0. ~(CompleteLen(file.bytes) < Len(file.bytes))
    BY <1>2, <1>3
  <2>1. /\ Len(file.bytes) < 2 * MaxLines
        /\ \E b \in Blocks: file' = [ino |-> IF file.ino = 0 THEN 1 ELSE file.ino,
                                     bytes |-> Append(file.bytes, [half |-> "head", block |-> b])]
    BY <2>0 DEF AgentWrites
  <2>2. PICK b \in Blocks: file' = [ino |-> IF file.ino = 0 THEN 1 ELSE file.ino,
                                    bytes |-> Append(file.bytes, [half |-> "head", block |-> b])]
    BY <2>1
  <2>3. n % 2 = 0
    BY <1>2, <1>3
  <2>4. (n + 1) % 2 = 1 /\ n + 1 <= 2 * MaxLines
    <3>1. n \in Nat /\ n < 2 * MaxLines
      BY <1>2, <2>1
    <3> HIDE DEF n
    <3> QED
      BY <2>3, <3>1, Parity, PanelBounds
  <2> DEFINE x == [half |-> "head", block |-> b]
  <2>5. x \in Halves /\ x.half = "head"
    BY DEF Halves
  <2>6. NextHalf(x)
    BY <2>2, <2>4, <2>5 DEF NextHalf
  <2> QED
    BY <2>5, <2>6
<1>4. CASE CompleteLen(file.bytes) # n
  <2>1. CompleteLen(file.bytes) = n - 1 /\ file.bytes # <<>> /\ n # 0
    BY <1>1, <1>2, <1>4
  <2>2. file' = [file EXCEPT !.bytes = Append(@, [half |-> "tail", block |-> Last(@).block])]
    BY <1>2, <1>4 DEF AgentWrites
  <2> DEFINE x == [half |-> "tail", block |-> Last(file.bytes).block]
  <2>3. Last(file.bytes) = file.bytes[n] /\ n \in 1..n
    BY <1>2, <2>1 DEF Last
  <2>4. file.bytes[n] \in Halves
    BY <1>1, <2>3, ElementOfSeq
  <2>5. x \in Halves /\ x.half = "tail"
    BY <2>3, <2>4 DEF Halves
  <2>6. (n - 1) % 2 = 0
    BY <1>2, <2>1
  <2>7. ~((n + 1) % 2 = 1)
    <3>1. n \in Nat
      BY <1>2
    <3> HIDE DEF n
    <3> QED
      BY <2>6, <3>1, Parity, PanelBounds
  <2>9. n + 1 <= 2 * MaxLines
    BY <1>1, <1>2, <2>6, Parity, PanelBounds
  <2>10. file.ino # 0
    BY <1>1, <2>1
  <2>11. file' = [ino |-> file.ino, bytes |-> Append(file.bytes, x)]
    BY <1>1, <2>2
  <2>12. NextHalf(x)
    <3>1. /\ file' = [ino |-> IF file.ino = 0 THEN 1 ELSE file.ino,
                      bytes |-> Append(file.bytes, x)]
      BY <2>10, <2>11
    <3>2. x.half = IF (Len(file.bytes) + 1) % 2 = 1 THEN "head" ELSE "tail"
      BY <2>5, <2>7, Zenon
    <3> QED
      BY <2>9, <3>1, <3>2 DEF NextHalf
  <2> QED
    BY <2>5, <2>12
<1> QED
  BY <1>3, <1>4

\* So a file of lines stays one.
LEMMA AppendLines ==
  ASSUME NEW b, Lines(b), NEW x \in Halves,
         x.half = IF (Len(b) + 1) % 2 = 1 THEN "head" ELSE "tail"
  PROVE  Lines(Append(b, x)) /\ Len(Append(b, x)) = Len(b) + 1
<1>1. b \in Seq(Halves) /\ \A i \in 1..Len(b): b[i].half = IF i % 2 = 1 THEN "head" ELSE "tail"
  BY DEF Lines
<1> DEFINE d == Append(b, x)
<1>2. /\ d \in Seq(Halves) /\ Len(d) = Len(b) + 1 /\ Len(b) \in Nat
      /\ \A i \in 1..Len(b): d[i] = b[i]
      /\ d[Len(b) + 1] = x
  BY <1>1, AppendProperties, LenProperties
<1> HIDE DEF d
<1>3. ASSUME NEW i \in 1..Len(d)
      PROVE  d[i].half = IF i % 2 = 1 THEN "head" ELSE "tail"
  <2>1. CASE i = Len(b) + 1
    BY <1>2, <2>1
  <2>2. CASE i # Len(b) + 1
    <3>1. i \in 1..Len(b)
      BY <1>2, <2>2
    <3> QED
      BY <1>1, <1>2, <3>1
  <2> QED
    BY <2>1, <2>2
<1>4. Lines(d)
  BY <1>2, <1>3 DEF Lines
<1> QED
  BY <1>2, <1>4 DEF d

\* A file that grows leaves what was shown of it right.
LEMMA AgentWritesKeeps ==
  ASSUME PanelInv, AgentWrites
  PROVE  PanelInv'
<1>0. PICK x \in Halves: NextHalf(x)
  BY AgentAppends
<1>1. /\ file' = [ino |-> IF file.ino = 0 THEN 1 ELSE file.ino,
                  bytes |-> Append(file.bytes, x)]
      /\ x.half = IF (Len(file.bytes) + 1) % 2 = 1 THEN "head" ELSE "tail"
      /\ Len(file.bytes) + 1 <= 2 * MaxLines
  BY <1>0 DEF NextHalf
<1>2. /\ where' = where /\ slot' = slot /\ remoteCursor' = remoteCursor /\ poll' = poll
      /\ resets' = resets /\ polls' = polls /\ cleared' = cleared /\ raced' = raced
  BY DEF AgentWrites
<1>3. /\ file.bytes \in Seq(Halves) /\ Lines(file.bytes) /\ file.ino \in 0..MaxInodes
      /\ slot.ino \in 0..file.ino /\ slot.cursor \in Nat /\ cleared \in Nat
      /\ (file.ino = 0 => file.bytes = <<>>)
  BY PanelBounds DEF PanelInv, PanelTypes
<1>4. /\ file'.bytes = Append(file.bytes, x)
      /\ file'.ino = IF file.ino = 0 THEN 1 ELSE file.ino
  BY <1>1
<1>5. /\ Lines(file'.bytes) /\ Len(file'.bytes) <= 2 * MaxLines /\ file'.bytes \in Seq(Halves)
      /\ file'.bytes # <<>>
  <2>1. Lines(file'.bytes) /\ Len(file'.bytes) = Len(file.bytes) + 1
    BY <1>1, <1>3, <1>4, AppendLines
  <2>2. Len(file.bytes) \in Nat
    BY <1>3, LenProperties
  <2>3. Len(file'.bytes) # 0
    BY <2>1, <2>2
  <2>4. file'.bytes \in Seq(Halves)
    BY <2>1 DEF Lines
  <2> QED
    BY <1>1, <2>1, <2>3, <2>4, EmptySeq
<1>6. file'.ino \in 1..MaxInodes /\ slot.ino \in 0..file'.ino /\ file'.ino # 0
  BY <1>3, <1>4, PanelBounds
<1>7. PanelTypes'
  <2>1. file' \in [ino: 0..MaxInodes, bytes: Seq(Halves)]
    BY <1>1, <1>4, <1>5, <1>6
  <2> QED
    BY <1>2, <1>5, <1>6, <2>1 DEF PanelInv, PanelTypes, Places
<1>8. PanelKinds'
  BY <1>2 DEF PanelInv, PanelKinds, PollKinds, Places
<1>9. ASSUME ~raced PROVE SlotShows' /\ StartShows'
  <2>1. SlotShows /\ StartShows
    BY <1>9 DEF PanelInv
  <2>2. ASSUME NEW state, NEW c \in Nat, Shows(file.bytes, cleared, state, c)
        PROVE  /\ Shows(file'.bytes, cleared, state, c)
               /\ file.ino = 0 => cleared = 0 /\ c = 0 /\ state = NoTasks
    BY <1>3, <1>4, <2>2, ShowsLonger, EmptyShows
  <2>3. SlotShows'
    <3>1. CASE ~slot.on
      BY <1>2, <3>1 DEF SlotShows
    <3>2. CASE slot.on /\ slot.ino = file.ino
      <4>1. Shows(file.bytes, cleared, slot.state, slot.cursor)
        BY <2>1, <3>2 DEF SlotShows
      <4> QED
        BY <1>2, <1>3, <1>4, <2>2, <3>2, <4>1 DEF SlotShows
    <3>3. CASE slot.on /\ slot.ino # file.ino
      <4>1. cleared = 0 /\ (slot.ino = 0 => slot.cursor = 0 /\ slot.state = NoTasks)
        BY <2>1, <3>3 DEF SlotShows
      <4>2. slot.ino # file'.ino
        BY <1>3, <1>4, <3>3
      <4> QED
        BY <1>2, <4>1, <4>2 DEF SlotShows
    <3> QED
      BY <3>1, <3>2, <3>3
  <2>4. StartShows'
    <3>1. \A p \in Polls: poll[p].cursor \in Nat
      BY PanelBounds DEF PanelInv, PanelKinds, PollKinds
    <3> QED
      BY <1>2, <2>1, <2>2, <3>1 DEF StartShows
  <2> QED
    BY <2>3, <2>4
<1> QED
  BY <1>2, <1>7, <1>8, <1>9 DEF PanelInv

\* A replacement leaves a slot of an older file, which will start over.
LEMMA AgentReplacesKeeps ==
  ASSUME PanelInv, AgentReplaces
  PROVE  PanelInv'
<1>1. /\ file.ino \in 1..MaxInodes - 1
      /\ \E b \in Blocks, n \in 0..1:
           file' = [ino |-> file.ino + 1,
                    bytes |-> IF n = 0 THEN <<>>
                              ELSE <<[half |-> "head", block |-> b], [half |-> "tail", block |-> b]>>]
      /\ cleared' = 0
      /\ raced' = (raced \/ \E p \in Polls: poll[p].pc = "insert")
      /\ where' = where /\ slot' = slot /\ remoteCursor' = remoteCursor /\ poll' = poll
      /\ resets' = resets /\ polls' = polls
  BY DEF AgentReplaces
<1>2. PICK b \in Blocks, n \in 0..1:
        file' = [ino |-> file.ino + 1,
                 bytes |-> IF n = 0 THEN <<>>
                           ELSE <<[half |-> "head", block |-> b], [half |-> "tail", block |-> b]>>]
  BY <1>1
<1> DEFINE two == <<[half |-> "head", block |-> b], [half |-> "tail", block |-> b]>>
<1>3. file'.ino = file.ino + 1 /\ (file'.bytes = <<>> \/ file'.bytes = two)
  BY <1>2
<1>4. two \in Seq(Halves) /\ Len(two) = 2 /\ two[1].half = "head" /\ two[2].half = "tail"
  BY DEF Halves
<1>5. Lines(<<>>) /\ Lines(two)
  <2>1. Lines(<<>>)
    BY DEF Lines
  <2>2. \A i \in 1..2: i = 1 \/ i = 2
    OBVIOUS
  <2>3. Lines(two)
    BY <1>4, <2>2 DEF Lines
  <2> QED
    BY <2>1, <2>3
<1>6. Lines(file'.bytes) /\ Len(file'.bytes) <= 2 * MaxLines /\ file'.bytes \in Seq(Halves)
  <2>1. Len(<<>>) = 0 /\ <<>> \in Seq(Halves)
    OBVIOUS
  <2> HIDE DEF two
  <2>2. CASE file'.bytes = <<>>
    BY <1>5, <2>1, <2>2, PanelBounds
  <2>3. CASE file'.bytes = two
    BY <1>4, <1>5, <2>3, PanelBounds
  <2> QED
    BY <1>3, <2>2, <2>3
<1>7. file'.ino \in 1..MaxInodes /\ slot.ino \in 0..file'.ino /\ file'.ino # 0
  <2>1. file.ino \in 1..MaxInodes - 1 /\ slot.ino \in 0..file.ino /\ slot.ino # file'.ino
    BY <1>1, <1>3, PanelBounds DEF PanelInv, PanelTypes
  <2> QED
    BY <1>3, <2>1, PanelBounds
<1>8. slot.ino # file'.ino /\ (slot.ino = 0 => slot.ino # file.ino)
  BY <1>1, <1>3, PanelBounds DEF PanelInv, PanelTypes
<1>9. raced' \in BOOLEAN /\ (~raced' => ~raced /\ \A p \in Polls: poll[p].pc # "insert")
  BY <1>1
<1>10. PanelTypes'
  <2>1. file' \in [ino: 0..MaxInodes, bytes: Seq(Halves)]
    <3>1. file'.ino \in 0..MaxInodes
      BY <1>7
    <3> QED
      BY <1>2, <1>6, <3>1
  <2>2. cleared' \in Places
    BY <1>1, PanelBounds
  <2> QED
    BY <1>1, <1>6, <1>7, <1>9, <2>1, <2>2 DEF PanelInv, PanelTypes, Places
<1>11. PanelKinds'
  BY <1>1 DEF PanelInv, PanelKinds, PollKinds, Places
<1>12. ASSUME ~raced' PROVE SlotShows' /\ StartShows'
  <2>1. SlotShows /\ StartShows
    BY <1>9, <1>12 DEF PanelInv
  <2>2. SlotShows'
    BY <1>1, <1>8, <2>1 DEF SlotShows
  <2>3. StartShows'
    BY <1>1, <1>9, <1>12 DEF StartShows
  <2> QED
    BY <2>2, <2>3
<1> QED
  BY <1>10, <1>11, <1>12 DEF PanelInv

\* refresh, of a slot that is on: it has the identity of the file and has
\* consumed every whole line.
RefreshIs(s) ==
  /\ DOMAIN s = {"on", "state", "cursor", "base", "ino"}
  /\ s.on = slot.on /\ s.cursor \in Places /\ s.base \in Places /\ s.base <= s.cursor
  /\ s.ino \in 0..file.ino
  /\ ~raced /\ s.on => s.ino = file.ino /\ Shows(file.bytes, cleared, s.state, s.cursor)

\* A slot of another file starts over, one of this file goes on.
LEMMA RefreshShows ==
  ASSUME PanelInv, slot.on
  PROVE  RefreshIs(Refreshed(slot))
<1> DEFINE u == SameFile(slot)
           t == IF slot.ino # 0 /\ slot.ino # file.ino THEN StartOver(slot) ELSE slot
           end == CompleteLen(file.bytes)
<1>1. /\ Lines(file.bytes) /\ Len(file.bytes) <= 2 * MaxLines /\ file.bytes \in Seq(Halves)
      /\ file.ino \in Nat /\ (file.ino = 0 => file.bytes = <<>>)
      /\ DOMAIN slot = {"on", "state", "cursor", "base", "ino"}
      /\ slot.cursor \in Places /\ slot.base \in Places /\ slot.base <= slot.cursor
      /\ slot.ino \in 0..file.ino /\ cleared \in Nat
      /\ (~raced => SlotShows)
  BY PanelBounds DEF PanelInv, PanelTypes
<1>2. /\ Len(file.bytes) \in Nat /\ end \in 0..Len(file.bytes) /\ end \in Places
      /\ end % 2 = 0
  <2>1. Len(file.bytes) \in Nat /\ end \in 0..Len(file.bytes) /\ end % 2 = 0
    BY <1>1, CompleteIs
  <2> HIDE DEF end
  <2> QED
    BY <1>1, <2>1, PanelBounds DEF Places
<1>3. CASE file.ino = 0
  <2>1. Refreshed(slot) = slot
    BY <1>3 DEF Refreshed
  <2>2. slot.ino = file.ino
    BY <1>1, <1>3
  <2>3. ~raced => Shows(file.bytes, cleared, slot.state, slot.cursor)
    BY <1>1, <2>2 DEF SlotShows
  <2>4. RefreshIs(slot)
    BY <1>1, <2>2, <2>3 DEF RefreshIs
  <2> QED
    BY <2>1, <2>4
<1>4. CASE file.ino # 0
  <2>1. /\ DOMAIN t = {"on", "state", "cursor", "base", "ino"} /\ t.on = slot.on
        /\ \/ t.cursor = slot.cursor /\ t.base = slot.base /\ t.state = slot.state
              /\ (slot.ino = 0 \/ slot.ino = file.ino)
           \/ t.cursor = 0 /\ t.base = 0 /\ t.state = NoTasks /\ slot.ino # file.ino
    BY <1>1 DEF StartOver
  <2> HIDE DEF t
  <2>2. u = [(IF Len(file.bytes) < t.cursor THEN StartOver(t) ELSE t) EXCEPT !.ino = file.ino]
    BY DEF SameFile, t
  <2>3. /\ DOMAIN u = {"on", "state", "cursor", "base", "ino"} /\ u.on = slot.on
        /\ u.ino = file.ino
        /\ \/ u.cursor = t.cursor /\ u.base = t.base /\ u.state = t.state
           \/ u.cursor = 0 /\ u.base = 0 /\ u.state = NoTasks /\ Len(file.bytes) < t.cursor
    BY <2>1, <2>2 DEF StartOver
  <2> HIDE DEF u
  <2>4. u.cursor \in Places /\ u.base \in Places /\ u.base <= u.cursor
    BY <1>1, <2>1, <2>3, PanelBounds
  <2>5. ASSUME ~raced PROVE Shows(file.bytes, cleared, u.state, u.cursor)
    <3>1. SlotShows
      BY <1>1, <2>5
    <3>2. CASE slot.ino = file.ino
      <4>1. Shows(file.bytes, cleared, slot.state, slot.cursor)
        BY <3>1, <3>2 DEF SlotShows
      <4>2. slot.cursor <= Len(file.bytes) /\ slot.cursor \in Nat
        BY <1>1, <4>1, PanelBounds DEF Shows
      <4>3. t.cursor = slot.cursor /\ t.state = slot.state
        BY <2>1, <3>2
      <4>4. u.cursor = slot.cursor /\ u.state = slot.state
        BY <1>2, <2>3, <4>2, <4>3
      <4> QED
        BY <4>1, <4>4
    <3>3. CASE slot.ino # file.ino
      <4>1. cleared = 0 /\ (slot.ino = 0 => slot.cursor = 0 /\ slot.state = NoTasks)
        BY <3>1, <3>3 DEF SlotShows
      <4>2. u.cursor = 0 /\ u.state = NoTasks
        BY <2>1, <2>3, <3>3, <4>1
      <4>3. 0 \in 0..Len(file.bytes)
        BY <1>2
      <4> QED
        BY <1>1, <4>1, <4>2, <4>3, ShowsNothing
    <3> QED
      BY <3>2, <3>3
  <2>6. CASE end <= u.cursor
    <3>1. Refreshed(slot) = u
      BY <1>4, <2>6 DEF Refreshed, u
    <3> QED
      <4>1. u.ino \in 0..file.ino
        BY <1>1, <2>3
      <4>2. RefreshIs(u)
        BY <2>3, <2>4, <2>5, <4>1 DEF RefreshIs
      <4> QED
        BY <3>1, <4>2
  <2>7. CASE ~(end <= u.cursor)
    <3> DEFINE r == [u EXCEPT !.state = ParseFrom(u.state, file.bytes, u.cursor), !.cursor = end]
    <3>1. Refreshed(slot) = r
      BY <1>4, <2>7 DEF Refreshed, u
    <3>2. /\ DOMAIN r = {"on", "state", "cursor", "base", "ino"}
          /\ r.on = slot.on /\ r.cursor = end /\ r.base = u.base /\ r.ino = file.ino
          /\ r.state = ParseFrom(u.state, file.bytes, u.cursor)
      BY <2>3
    <3> HIDE DEF r, end
    <3>3. u.cursor \in Nat /\ u.base \in Nat /\ u.cursor <= end /\ u.base <= end /\ end \in Nat
      <4>1. u.cursor \in Nat /\ u.base \in Nat /\ end \in Nat /\ u.base <= u.cursor
        BY <1>2, <2>4, PanelBounds
      <4> QED
        BY <2>7, <4>1
    <3>4. ASSUME ~raced PROVE Shows(file.bytes, cleared, r.state, end)
      <4>1. Shows(file.bytes, cleared, u.state, u.cursor)
        BY <2>5, <3>4
      <4>2. /\ cleared <= u.cursor /\ BetweenLines(cleared, u.cursor)
            /\ u.state = ParseFrom(NoTasks, SubSeq(file.bytes, 1, u.cursor), cleared)
        BY <4>1 DEF Shows
      <4>3. r.state = ParseFrom(NoTasks, SubSeq(file.bytes, 1, end), cleared)
        BY <1>1, <3>2, <3>3, <4>2, RefreshParses DEF end
      <4>4. cleared <= end /\ end <= Len(file.bytes) /\ BetweenLines(cleared, end)
        <5>1. end <= Len(file.bytes)
          BY <1>2
        <5>2. BetweenLines(cleared, end)
          BY <1>2 DEF BetweenLines
        <5>3. cleared <= end
          BY <1>1, <3>3, <4>2
        <5> QED
          BY <5>1, <5>2, <5>3
      <4> QED
        BY <4>3, <4>4 DEF Shows
    <3> QED
      <4>1. r.cursor \in Places /\ r.base \in Places /\ r.base <= r.cursor
        BY <1>2, <2>4, <3>2, <3>3
      <4>2. r.ino \in 0..file.ino
        BY <1>1, <3>2
      <4>3. RefreshIs(r)
        BY <3>2, <3>4, <4>1, <4>2 DEF RefreshIs
      <4> QED
        BY <3>1, <4>3
  <2> QED
    BY <2>6, <2>7
<1> QED
  BY <1>3, <1>4

\* A refresh, by the watcher or by a request, keeps the slot right.
LEMMA RefreshKeeps ==
  ASSUME PanelInv, slot' = Refreshed(slot), UNCHANGED <<where, file, remoteCursor>>,
         UNCHANGED <<resets, polls, cleared, raced>>,
         (poll = [p \in Polls |-> poll[p]] /\ \A p \in Polls: PollKinds(p))',
         \A p \in Polls: poll'[p].pc = "insert" => poll'[p] = poll[p]
  PROVE  PanelInv'
<1>1. /\ where' = where /\ file' = file /\ remoteCursor' = remoteCursor
      /\ resets' = resets /\ polls' = polls /\ cleared' = cleared /\ raced' = raced
  OBVIOUS
<1>2. RefreshIs(slot')
  <2>1. CASE slot.on
    BY <2>1, RefreshShows
  <2>2. CASE ~slot.on
    <3>1. slot' = slot
      BY <2>2 DEF Refreshed
    <3> QED
      BY <2>2, <3>1 DEF RefreshIs, PanelInv, PanelTypes
  <2> QED
    BY <2>1, <2>2
<1>3. PanelTypes'
  <2>1. slot'.on \in BOOLEAN
    BY <1>2 DEF RefreshIs, PanelInv, PanelTypes
  <2> QED
    BY <1>1, <1>2, <2>1 DEF RefreshIs, PanelInv, PanelTypes, Places
<1>4. PanelKinds'
  <2>1. slot'.on = slot.on
    BY <1>2 DEF RefreshIs
  <2> QED
    BY <1>1, <2>1 DEF PanelInv, PanelKinds
<1>5. ASSUME ~raced PROVE SlotShows' /\ StartShows'
  <2>1. SlotShows /\ StartShows
    BY <1>5 DEF PanelInv
  <2>2. SlotShows'
    BY <1>1, <1>2, <1>5 DEF RefreshIs, SlotShows
  <2>3. slot'.on = slot.on
    BY <1>2 DEF RefreshIs
  <2>4. StartShows'
    BY <1>1, <2>1, <2>3 DEF StartShows
  <2> QED
    BY <2>2, <2>4
<1> QED
  BY <1>1, <1>3, <1>4, <1>5 DEF PanelInv

\* One request moves.
LEMMA PollMoves ==
  ASSUME PanelKinds, NEW q \in Polls, NEW r, SetPoll(q, r), where' = where,
         DOMAIN r = {"pc", "state", "cursor", "bytes"}, r.cursor \in Places,
         r.bytes \in Seq(Halves), Len(r.bytes) <= 2 * MaxLines,
         \/ r.pc = "idle"
         \/ where = "local" /\ r.pc \in {"parse", "insert", "reconcile"}
         \/ where = "ssh" /\ r.pc \in {"read", "start"}
  PROVE  /\ poll' = [p \in Polls |-> poll'[p]]
         /\ \A p \in Polls: PollKinds(p)'
         /\ poll'[q] = r /\ \A p \in Polls \ {q}: poll'[p] = poll[p]
<1>1. poll' = [poll EXCEPT ![q] = r] /\ poll = [p \in Polls |-> poll[p]]
  BY DEF SetPoll, PanelKinds
<1>2. poll' = [p \in Polls |-> IF p = q THEN r ELSE poll[p]]
  BY <1>1
<1>3. poll'[q] = r /\ \A p \in Polls \ {q}: poll'[p] = poll[p]
  BY <1>2
<1>4. poll' = [p \in Polls |-> poll'[p]]
  BY <1>2
<1>5. ASSUME NEW p \in Polls PROVE PollKinds(p)'
  <2>1. CASE p = q
    BY <1>3, <2>1 DEF PollKinds, Places
  <2>2. CASE p # q
    <3>1. poll'[p] = poll[p] /\ PollKinds(p)
      BY <1>3, <2>2 DEF PanelKinds
    <3> QED
      BY <3>1 DEF PollKinds, Places
  <2> QED
    BY <2>1, <2>2
<1> QED
  BY <1>3, <1>4, <1>5

\* A request that is answered.
LEMMA NoPollIs ==
  /\ DOMAIN NoPoll = {"pc", "state", "cursor", "bytes"} /\ NoPoll.pc = "idle"
  /\ NoPoll.cursor \in Places /\ NoPoll.bytes \in Seq(Halves) /\ Len(NoPoll.bytes) <= 2 * MaxLines
<1>1. <<>> \in Seq(Halves) /\ Len(<<>>) = 0
  OBVIOUS
<1> QED
  BY <1>1, PanelBounds DEF NoPoll

\* A step of a request that leaves the file and the slot.
LEMMA PollKeeps ==
  ASSUME PanelInv, NEW q \in Polls, NEW r, SetPoll(q, r),
         UNCHANGED <<where, file, slot, resets, cleared, raced>>,
         polls' \in 0..MaxPolls,
         DOMAIN r = {"pc", "state", "cursor", "bytes"}, r.cursor \in Places,
         r.bytes \in Seq(Halves), Len(r.bytes) <= 2 * MaxLines,
         \/ r.pc = "idle"
         \/ where = "local" /\ r.pc \in {"parse", "insert", "reconcile"}
         \/ where = "ssh" /\ r.pc \in {"read", "start"},
         r.pc = "insert" => Shows(file.bytes, 0, r.state, r.cursor),
         \/ UNCHANGED remoteCursor
         \/ /\ where = "ssh" /\ remoteCursor' \in [seen: Seq(Halves), resetAt: Places, known: BOOLEAN]
            /\ Len(remoteCursor'.seen) <= 2 * MaxLines
  PROVE  PanelInv'
<1>1. /\ where' = where /\ file' = file /\ slot' = slot
      /\ resets' = resets /\ cleared' = cleared /\ raced' = raced
  OBVIOUS
<1>2. PanelKinds
  BY DEF PanelInv
<1>3. /\ poll' = [p \in Polls |-> poll'[p]]
      /\ \A p \in Polls: PollKinds(p)'
      /\ poll'[q] = r /\ \A p \in Polls \ {q}: poll'[p] = poll[p]
  BY <1>1, <1>2, PollMoves
<1>4. PanelTypes'
  BY <1>1 DEF PanelInv, PanelTypes, Places
<1>5. PanelKinds'
  BY <1>1, <1>2, <1>3 DEF PanelKinds
<1>6. ASSUME ~raced PROVE SlotShows' /\ StartShows'
  <2>1. SlotShows /\ StartShows
    BY <1>6 DEF PanelInv
  <2>2. SlotShows'
    BY <1>1, <2>1 DEF SlotShows
  <2>3. ASSUME where = "local", ~slot.on, NEW p \in Polls, poll'[p].pc = "insert"
        PROVE  Shows(file.bytes, cleared, poll'[p].state, poll'[p].cursor)
    BY <1>3, <2>1, <2>3 DEF StartShows
  <2>4. StartShows'
    BY <1>1, <2>1, <2>3 DEF StartShows
  <2> QED
    BY <2>2, <2>4
<1> QED
  BY <1>1, <1>4, <1>5, <1>6 DEF PanelInv

\* The steps of a request.
LEMMA PollSteps ==
  ASSUME PanelInv, NEW p \in Polls,
         PollStarts(p) \/ StartParses(p) \/ RemoteRead(p) \/ RemoteAnswer(p)
  PROVE  PanelInv'
<1>1. /\ PollKinds(p) /\ where \in {"local", "ssh"} /\ Lines(file.bytes) /\ file.bytes \in Seq(Halves)
      /\ Len(file.bytes) <= 2 * MaxLines /\ Len(file.bytes) \in Nat /\ polls \in 0..MaxPolls
  BY LenProperties DEF PanelInv, PanelTypes, PanelKinds
<1>2. CASE PollStarts(p)
  <2> DEFINE pc == IF where = "ssh" THEN "read" ELSE IF slot.on THEN "reconcile" ELSE "parse"
             r == [NoPoll EXCEPT !.pc = pc]
  <2>1. /\ SetPoll(p, r) /\ UNCHANGED <<where, file, slot, resets, cleared, raced>>
        /\ UNCHANGED remoteCursor /\ polls < MaxPolls /\ polls' = polls + 1
    BY <1>2 DEF PollStarts
  <2>2. /\ DOMAIN r = {"pc", "state", "cursor", "bytes"} /\ r.pc = pc
        /\ r.cursor \in Places /\ r.bytes \in Seq(Halves) /\ Len(r.bytes) <= 2 * MaxLines
    BY NoPollIs
  <2>3. polls' \in 0..MaxPolls
    BY <1>1, <2>1, PanelBounds
  <2>4. /\ pc # "insert"
        /\ \/ where = "local" /\ pc \in {"parse", "insert", "reconcile"}
           \/ where = "ssh" /\ pc \in {"read", "start"}
    BY <1>1
  <2> HIDE DEF r, pc
  <2> QED
    BY <2>1, <2>2, <2>3, <2>4, PollKeeps
<1>3. CASE StartParses(p)
  <2> DEFINE full == ParseFull(file.bytes)
             r == [poll[p] EXCEPT !.pc = "insert", !.state = full.state, !.cursor = full.cursor]
             end == CompleteLen(file.bytes)
  <2>1. /\ SetPoll(p, r) /\ UNCHANGED <<where, file, slot, resets, cleared, raced>>
        /\ UNCHANGED remoteCursor /\ polls' = polls /\ poll[p].pc = "parse"
    BY <1>3 DEF StartParses
  <2>2. full.state = ParseFrom(NoTasks, file.bytes, 0) /\ full.cursor = end
    BY DEF ParseFull
  <2> HIDE DEF full
  <2>3. /\ DOMAIN r = {"pc", "state", "cursor", "bytes"} /\ r.pc = "insert"
        /\ r.state = full.state /\ r.cursor = end /\ r.bytes = poll[p].bytes
    BY <1>1, <2>2 DEF PollKinds
  <2> HIDE DEF r
  <2>4. end \in 0..Len(file.bytes) /\ end % 2 = 0
    BY <1>1, CompleteIs
  <2>5. r.state = ParseFrom(NoTasks, SubSeq(file.bytes, 1, end), 0)
    BY <1>1, <2>2, <2>3, StartParsesAll
  <2>6. Shows(file.bytes, 0, r.state, end)
    <3> HIDE DEF end
    <3>1. 0 <= end /\ end <= Len(file.bytes)
      BY <1>1, <2>4
    <3>2. BetweenLines(0, end)
      BY <2>4 DEF BetweenLines
    <3> QED
      BY <2>5, <3>1, <3>2 DEF Shows
  <2>7. end \in Places
    <3> HIDE DEF end
    <3> QED
      BY <1>1, <2>4, PanelBounds DEF Places
  <2>8. where = "local" /\ r.bytes \in Seq(Halves) /\ Len(r.bytes) <= 2 * MaxLines
    BY <1>1, <2>1, <2>3 DEF PollKinds
  <2> HIDE DEF end
  <2> QED
    BY <1>1, <2>1, <2>3, <2>6, <2>7, <2>8, PollKeeps
<1>4. CASE RemoteRead(p)
  <2>1. /\ UNCHANGED <<where, file, slot, resets, cleared, raced>>
        /\ UNCHANGED remoteCursor /\ polls' = polls /\ poll[p].pc = "read"
    BY <1>4 DEF RemoteRead
  <2>2. CASE SetPoll(p, NoPoll)
    BY <1>1, <2>1, <2>2, NoPollIs, PollKeeps
  <2>3. CASE SetPoll(p, [poll[p] EXCEPT !.pc = "start", !.bytes = file.bytes])
    <3> DEFINE r == [poll[p] EXCEPT !.pc = "start", !.bytes = file.bytes]
    <3>1. /\ DOMAIN r = {"pc", "state", "cursor", "bytes"} /\ r.pc = "start"
          /\ r.cursor \in Places /\ r.bytes = file.bytes
      BY <1>1 DEF PollKinds
    <3>2. where = "ssh"
      BY <1>1, <2>1 DEF PollKinds
    <3>3. SetPoll(p, r)
      BY <2>3
    <3> HIDE DEF r
    <3> QED
      BY <1>1, <2>1, <3>1, <3>2, <3>3, PollKeeps
  <2> QED
    BY <1>4, <2>2, <2>3 DEF RemoteRead
<1>5. CASE RemoteAnswer(p)
  <2> DEFINE at == IF Replaced(poll[p].bytes) THEN 0 ELSE remoteCursor.resetAt
  <2>1. /\ UNCHANGED <<where, file, slot, resets, cleared, raced>> /\ polls' = polls
        /\ poll[p].pc = "start" /\ SetPoll(p, NoPoll)
        /\ remoteCursor' = [seen |-> poll[p].bytes, known |-> TRUE, resetAt |-> at]
    BY <1>5 DEF RemoteAnswer
  <2>2. at \in Places
    BY PanelBounds DEF PanelInv, PanelTypes
  <2>3. where = "ssh" /\ poll[p].bytes \in Seq(Halves) /\ Len(poll[p].bytes) <= 2 * MaxLines
    BY <1>1, <2>1 DEF PollKinds
  <2> HIDE DEF at
  <2>4. /\ remoteCursor' \in [seen: Seq(Halves), resetAt: Places, known: BOOLEAN]
        /\ Len(remoteCursor'.seen) <= 2 * MaxLines
    BY <2>1, <2>2, <2>3
  <2> QED
    BY <1>1, <2>1, <2>3, <2>4, NoPollIs, PollKeeps
<1> QED
  BY <1>2, <1>3, <1>4, <1>5

\* The slot that is inserted is right unless another start or a replacement
\* overlapped with this one.
LEMMA StartKeeps ==
  ASSUME PanelInv, NEW p \in Polls, StartInserts(p)
  PROVE  PanelInv'
<1> DEFINE r == [poll[p] EXCEPT !.pc = "reconcile"]
<1>1. /\ where' = where /\ file' = file /\ remoteCursor' = remoteCursor
      /\ resets' = resets /\ polls' = polls /\ cleared' = cleared
      /\ poll[p].pc = "insert" /\ SetPoll(p, r) /\ raced' = (raced \/ slot.on)
      /\ slot' = [on |-> TRUE, state |-> poll[p].state, base |-> 0,
                  cursor |-> poll[p].cursor, ino |-> file.ino]
  BY DEF StartInserts
<1>2. /\ DOMAIN slot' = {"on", "state", "cursor", "base", "ino"}
      /\ slot'.on = TRUE /\ slot'.base = 0 /\ slot'.ino = file.ino
      /\ slot'.cursor = poll[p].cursor /\ slot'.state = poll[p].state
  BY <1>1
<1>3. PollKinds(p) /\ PanelKinds /\ file.ino \in Nat
  BY PanelBounds DEF PanelInv, PanelTypes, PanelKinds
<1>4. /\ DOMAIN r = {"pc", "state", "cursor", "bytes"} /\ r.pc = "reconcile"
      /\ r.cursor \in Places /\ r.bytes \in Seq(Halves) /\ Len(r.bytes) <= 2 * MaxLines
  BY <1>3 DEF PollKinds
<1>5. where = "local"
  BY <1>1, <1>3 DEF PollKinds
<1>6. /\ poll' = [q \in Polls |-> poll'[q]] /\ \A q \in Polls: PollKinds(q)'
  <2> HIDE DEF r
  <2> QED
    BY <1>1, <1>3, <1>4, <1>5, PollMoves
<1>7. raced' \in BOOLEAN /\ (~raced' => ~raced /\ ~slot.on)
  BY <1>1
<1>8. PanelTypes'
  <2>1. slot'.cursor \in Places /\ slot'.base \in Places /\ slot'.base <= slot'.cursor
    <3>1. poll[p].cursor \in Places /\ poll[p].cursor \in Nat
      BY <1>3, PanelBounds DEF PollKinds
    <3>2. 0 <= poll[p].cursor
      BY <3>1
    <3> QED
      BY <1>2, <3>1, <3>2, PanelBounds
  <2>2. slot'.ino \in 0..file'.ino /\ slot'.on \in BOOLEAN
    BY <1>1, <1>2, <1>3
  <2> QED
    BY <1>1, <1>2, <1>7, <2>1, <2>2 DEF PanelInv, PanelTypes, Places
<1>9. PanelKinds'
  BY <1>1, <1>3, <1>5, <1>6 DEF PanelKinds
<1>10. ASSUME ~raced' PROVE SlotShows' /\ StartShows'
  <2>1. StartShows /\ ~slot.on
    BY <1>7, <1>10 DEF PanelInv
  <2>2. Shows(file.bytes, cleared, poll[p].state, poll[p].cursor)
    BY <1>1, <1>5, <2>1 DEF StartShows
  <2>3. SlotShows' /\ StartShows'
    BY <1>1, <1>2, <2>2 DEF SlotShows, StartShows
  <2> QED
    BY <2>3
<1> QED
  BY <1>8, <1>9, <1>10 DEF PanelInv

\* A request that refreshes the slot before it answers.
LEMMA ReconcileKeeps ==
  ASSUME PanelInv, NEW p \in Polls, ReconcileSlot(p)
  PROVE  PanelInv'
<1>1. /\ slot' = Refreshed(slot) /\ UNCHANGED <<where, file, remoteCursor>>
      /\ UNCHANGED <<resets, polls, cleared, raced>> /\ SetPoll(p, NoPoll) /\ where' = where
  BY DEF ReconcileSlot
<1>2. PanelKinds
  BY DEF PanelInv
<1>3. /\ poll' = [q \in Polls |-> poll'[q]] /\ \A q \in Polls: PollKinds(q)'
      /\ poll'[p] = NoPoll /\ \A q \in Polls \ {p}: poll'[q] = poll[q]
  BY <1>1, <1>2, NoPollIs, PollMoves
<1>4. \A q \in Polls: poll'[q].pc = "insert" => poll'[q] = poll[q]
  BY <1>3, NoPollIs
<1> QED
  BY <1>1, <1>3, <1>4, RefreshKeeps

\* A reset empties the slot and puts its cursor behind all there is.
LEMMA ResetKeeps ==
  ASSUME PanelInv, ResetPanel
  PROVE  PanelInv'
<1> DEFINE n == Len(file.bytes)
<1>1. /\ resets < MaxResets /\ resets' = resets + 1
      /\ where' = where /\ file' = file /\ poll' = poll /\ polls' = polls
      /\ raced' = (raced \/ (slot.on /\ slot.ino # file.ino))
  BY DEF ResetPanel
<1>2. /\ file.bytes \in Seq(Halves) /\ n <= 2 * MaxLines /\ n \in Nat
      /\ file.ino \in Nat /\ (file.ino = 0 => file.bytes = <<>>)
      /\ DOMAIN slot = {"on", "state", "cursor", "base", "ino"} /\ slot.on \in BOOLEAN
      /\ slot.cursor \in Places /\ slot.ino \in 0..file.ino
      /\ remoteCursor \in [seen: Seq(Halves), resetAt: Places, known: BOOLEAN]
      /\ Len(remoteCursor.seen) <= 2 * MaxLines /\ Len(remoteCursor.seen) \in Nat
      /\ resets \in 0..MaxResets /\ cleared \in Places
  BY PanelBounds, LenProperties DEF PanelInv, PanelTypes
<1>3. resets' \in 0..MaxResets
  BY <1>1, <1>2, PanelBounds
<1>4. raced' \in BOOLEAN /\ (~raced' => ~raced /\ (slot.on => slot.ino = file.ino))
  BY <1>1
<1>5. n \in Places /\ Len(remoteCursor.seen) \in Places
  <2> HIDE DEF n
  <2> QED
    BY <1>2, PanelBounds DEF Places
<1>6. /\ remoteCursor' \in [seen: Seq(Halves), resetAt: Places, known: BOOLEAN]
      /\ remoteCursor'.seen = remoteCursor.seen /\ remoteCursor'.known = remoteCursor.known
  <2>1. CASE remoteCursor.known
    <3>1. remoteCursor' = [remoteCursor EXCEPT !.resetAt = Len(remoteCursor.seen)]
      BY <2>1 DEF ResetPanel
    <3> QED
      BY <1>2, <1>5, <3>1
  <2>2. CASE ~remoteCursor.known
    <3>1. remoteCursor' = remoteCursor
      BY <2>2 DEF ResetPanel
    <3> QED
      BY <1>2, <3>1
  <2> QED
    BY <2>1, <2>2
<1>7. CASE slot.on
  <2> DEFINE end == IF file.ino = 0 THEN slot.cursor ELSE n
  <2>1. slot' = [slot EXCEPT !.state = NoTasks, !.cursor = end, !.base = end]
        /\ cleared' = n
    BY <1>7 DEF ResetPanel
  <2>2. /\ DOMAIN slot' = {"on", "state", "cursor", "base", "ino"}
        /\ slot'.on = slot.on /\ slot'.ino = slot.ino
        /\ slot'.state = NoTasks /\ slot'.cursor = end /\ slot'.base = end
    BY <1>2, <2>1
  <2>3. end \in Places
    BY <1>2, <1>5
  <2>4. PanelTypes'
    <3>1. slot'.cursor \in Places /\ slot'.base \in Places /\ slot'.base <= slot'.cursor
      <4> HIDE DEF end
      <4> QED
        BY <2>2, <2>3, PanelBounds
    <3>2. cleared' \in Places
      BY <1>5, <2>1
    <3> QED
      BY <1>1, <1>2, <1>3, <1>4, <1>6, <2>2, <3>1, <3>2 DEF PanelInv, PanelTypes, Places
  <2>5. PanelKinds'
    BY <1>1, <1>6, <2>2 DEF PanelInv, PanelKinds, PollKinds, Places
  <2>6. ASSUME ~raced' PROVE SlotShows' /\ StartShows'
    <3>1. slot.ino = file.ino /\ SlotShows
      BY <1>4, <1>7, <2>6 DEF PanelInv
    <3>2. Shows(file.bytes, cleared, slot.state, slot.cursor)
      BY <1>7, <3>1 DEF SlotShows
    <3>3. end = n
      <4>1. CASE file.ino = 0
        <5>1. file.bytes = <<>> /\ slot.cursor \in Nat /\ cleared \in Nat
          BY <1>2, <4>1, PanelBounds
        <5>2. slot.cursor = 0 /\ n = 0
          BY <1>2, <3>2, <5>1, EmptyShows
        <5> QED
          BY <5>2
      <4>2. CASE file.ino # 0
        BY <4>2
      <4> QED
        BY <4>1, <4>2
    <3>4. Shows(file.bytes, n, NoTasks, n)
      BY <1>2, ShowsNothing
    <3> QED
      BY <1>1, <1>7, <2>1, <2>2, <3>1, <3>3, <3>4 DEF SlotShows, StartShows
  <2> QED
    BY <2>4, <2>5, <2>6 DEF PanelInv
<1>8. CASE ~slot.on
  <2>1. slot' = slot
    BY <1>8 DEF ResetPanel
  <2>2. \/ cleared' = cleared
        \/ cleared' = Len(remoteCursor.seen) /\ remoteCursor.known
    BY <1>8 DEF ResetPanel
  <2>3. cleared' \in Places
    BY <1>2, <1>5, <2>2
  <2>4. PanelTypes'
    BY <1>1, <1>2, <1>3, <1>4, <1>6, <2>1, <2>3 DEF PanelInv, PanelTypes, Places
  <2>5. PanelKinds'
    BY <1>1, <1>6, <2>1 DEF PanelInv, PanelKinds, PollKinds, Places
  <2>6. ASSUME ~raced' PROVE SlotShows' /\ StartShows'
    <3>1. SlotShows /\ StartShows
      BY <1>4, <2>6 DEF PanelInv
    <3>2. where = "local" => cleared' = cleared
      BY <2>2 DEF PanelInv, PanelKinds
    <3> QED
      BY <1>1, <1>8, <2>1, <3>1, <3>2 DEF SlotShows, StartShows
  <2> QED
    BY <2>4, <2>5, <2>6 DEF PanelInv
<1> QED
  BY <1>2, <1>7, <1>8

\* So every step keeps the panel right ...
LEMMA PanelSteps == PanelInv /\ [TranscriptNext]_transcriptVars => PanelInv'
<1> SUFFICES ASSUME PanelInv, [TranscriptNext]_transcriptVars
             PROVE  PanelInv'
  OBVIOUS
<1>1. CASE WatcherRefresh
  <2>1. /\ slot' = Refreshed(slot) /\ UNCHANGED <<where, file, remoteCursor>>
        /\ UNCHANGED <<resets, polls, cleared, raced>> /\ poll' = poll /\ where' = where
    BY <1>1 DEF WatcherRefresh
  <2>2. (poll = [p \in Polls |-> poll[p]] /\ \A p \in Polls: PollKinds(p))'
    BY <2>1 DEF PanelInv, PanelKinds, PollKinds, Places
  <2> QED
    BY <2>1, <2>2, RefreshKeeps
<1>2. CASE UNCHANGED transcriptVars
  BY <1>2 DEF transcriptVars, PanelInv, PanelTypes, PanelKinds, PollKinds, Places, SlotShows, StartShows
<1> QED
  BY <1>1, <1>2, AgentWritesKeeps, AgentReplacesKeeps, PollSteps, StartKeeps, ReconcileKeeps,
     ResetKeeps DEF TranscriptNext

\* ... and within its types.
LEMMA PanelHolds == PanelInv => PanelShowsFile /\ TranscriptTypeOK
<1> SUFFICES ASSUME PanelInv PROVE PanelShowsFile /\ TranscriptTypeOK
  OBVIOUS
<1>1. PanelShowsFile
  BY DEF PanelInv, PanelShowsFile, SlotShows, Shows
<1>2. \A p \in Polls: poll[p].pc \in {"idle", "parse", "insert", "reconcile", "read", "start"}
  BY DEF PanelInv, PanelKinds, PollKinds
<1>3. file.ino \in 0..MaxInodes /\ remoteCursor.resetAt <= 2 * MaxLines
  BY PanelBounds DEF PanelInv, PanelTypes, Places
<1>4. TranscriptTypeOK
  BY <1>2, <1>3 DEF PanelInv, PanelTypes, PanelKinds, TranscriptTypeOK, Places
<1> QED
  BY <1>1, <1>4

-------------------------------------------------------------------------------
(* Together.                                                               *)

\* Whatever overlaps: no removal or prune that was not forced destroys
\* uncommitted work, a desk session whose worktree is gone can start again, the
\* panel shows what git would say, and a commit of picked files holds those
\* alone (git.rs, routes/worktrees.rs, routes/sessions.rs, routes/git.rs).
THEOREM WorkSurvives == MCSpec => WorkIsKept
<1>1. MCInit => TreeInv
  BY TreeStarts DEF MCInit
<1>2. ASSUME TreeInv, [MCNext]_MCVars
      PROVE  TreeInv'
  <2>1. [WorktreeNext]_wtVars
    BY <1>2 DEF MCNext, MCVars, Only
  <2> QED
    BY <1>2, <2>1, TreeSteps
<1>3. TreeInv => UnforcedKeepsWork /\ OpenedAlwaysStarts
  BY DEF TreeInv
<1>4. [ReadStatus => answer' = TrueStatus]_gitVars
  <2>1. ReadStatus => Status
    BY DEF ReadStatus
  <2> QED
    BY <2>1, StatusIsTrue
<1>5. [CommitPaths => \A p \in Files \ gitReq.paths: head'[p] = head[p]]_gitVars
  BY CommitTakesPick
<1> QED
  BY <1>1, <1>2, <1>3, <1>4, <1>5, PTL DEF MCSpec, WorkIsKept, StatusIsFaithful, CommitIsThePick

\* A client sees what is in the file behind its view: no byte a snapshot shows
\* already, and the todos and tasks of the transcript, however file events,
\* polls, resets and replacements fall (routes/sessions.rs stream_session,
\* transcript_store.rs).
THEOREM ShowsTrue == MCSpec => []ShowsWhatIsThere
<1> DEFINE Inv == StreamTypes /\ ViewInv /\ PanelInv
<1>1. MCInit => Inv
  BY StreamStarts, ViewStarts, PanelStarts DEF MCInit
<1>2. Inv /\ [MCNext]_MCVars => Inv'
  <2> SUFFICES ASSUME StreamTypes, ViewInv, PanelInv, [MCNext]_MCVars
               PROVE  StreamTypes' /\ ViewInv' /\ PanelInv'
    OBVIOUS
  <2>1. [StreamNext]_streamVars
    BY DEF MCNext, MCVars, Only
  <2>2. [TranscriptNext]_transcriptVars
    BY DEF MCNext, MCVars, Only
  <2> QED
    BY <2>1, <2>2, PartSteps, ViewSteps, PanelSteps
<1>3. Inv => ShowsWhatIsThere
  <2> SUFFICES ASSUME ViewInv, PanelInv PROVE ShowsWhatIsThere
    OBVIOUS
  <2>1. NoReplayOverSnapshot
    BY DEF ViewInv, SeenOk, NoReplayOverSnapshot, InPhase
  <2>2. PanelShowsFile
    BY PanelHolds
  <2> QED
    BY <2>1, <2>2 DEF ShowsWhatIsThere
<1> QED
  BY <1>1, <1>2, <1>3, PTL DEF MCSpec

\* Together: these parts of the daemon stay within their types.
KeptInOrder ==
  /\ StreamTypes /\ ViewInv /\ CheckpointOk /\ PanelInv
  /\ TreeInv /\ WtTypes /\ GitTypes

LEMMA KeptStarts == MCInit => KeptInOrder
<1> SUFFICES ASSUME MCInit PROVE KeptInOrder
  OBVIOUS
<1>1. /\ StreamInit /\ TranscriptInit /\ WorktreeInit /\ GitInit
  BY DEF MCInit
<1>2. CheckpointOk
  BY <1>1, StreamAssumption DEF StreamInit, NoCheckpoint, CheckpointOk
<1> QED
  BY <1>1, <1>2, StreamStarts, ViewStarts, PanelStarts, TreeStarts, WtStarts, GitStarts
  DEF KeptInOrder

LEMMA KeptSteps == KeptInOrder /\ [MCNext]_MCVars => KeptInOrder'
<1> SUFFICES ASSUME KeptInOrder, [MCNext]_MCVars PROVE KeptInOrder'
  OBVIOUS
<1>1. /\ [StreamNext]_streamVars /\ [TranscriptNext]_transcriptVars
      /\ [WorktreeNext]_wtVars /\ [GitNext]_gitVars
  BY DEF MCNext, MCVars, Only
<1>2. StreamTypes' /\ ViewInv' /\ CheckpointOk'
  BY <1>1, PartSteps, ViewSteps, CheckpointSteps DEF KeptInOrder
<1>3. PanelInv' /\ TreeInv' /\ WtTypes' /\ GitTypes'
  BY <1>1, PanelSteps, TreeSteps, WtSteps, GitSteps DEF KeptInOrder
<1> QED
  BY <1>2, <1>3 DEF KeptInOrder

LEMMA KeptHolds ==
  KeptInOrder => StreamTypeOK /\ TranscriptTypeOK /\ WorktreeTypeOK /\ GitTypeOK
BY StreamHolds, PanelHolds, WtHolds, GitHolds DEF KeptInOrder
===============================================================================
