------------------------------- MODULE TuiProofs -------------------------------
(***************************************************************************)
(* Proofs about the terminal UI: what a pane and a dot show is the         *)
(* session's they are drawn for, answers find their requests, keyboard,    *)
(* cursor and mouse fit what is on the screen, and a refresh keeps the     *)
(* user where they were.  Each part has an inductive invariant of its own; *)
(* the last section puts them together for MCTui.                          *)
(***************************************************************************)
EXTENDS MCTui, SequenceTheorems, FiniteSetTheorems, FunctionTheorems,
        WellFoundedInduction, TLAPS

-------------------------------------------------------------------------------
(* Activity: events, snapshots and the dot of a session.                     *)

BusEvents == AgentEvents \cup EndEvents

\* The type invariant in three parts.
BusTypes == bus \in Seq(BusEvents) /\ Len(bus) <= BusRoom
CountTypes == /\ shown \in 0 .. MaxShows /\ dials \in 0 .. MaxDials
              /\ typed \in 0 .. MaxTyped
MarkTypes ==
  /\ signed \in BOOLEAN /\ quiet \in BOOLEAN /\ guessed \in BOOLEAN
  /\ shows \in Classes /\ life \in {"running", "stopped", "crashed"}
  /\ watch \in Classes \cup {"none", "unknown"}
  /\ lastEvent \in AgentEvents \cup {NoEvent}
  /\ sock \in {"down", "replay", "live"} /\ dot \in Classes \cup {"none"}

LEMMA TypesSplit == /\ ActivityTypeOK <=> BusTypes /\ CountTypes /\ MarkTypes
                    /\ ActivityTypeOK' <=> BusTypes' /\ CountTypes' /\ MarkTypes'
BY Zenon DEF ActivityTypeOK, BusTypes, CountTypes, MarkTypes, BusEvents

\* What the watch task knows has been emitted: it is the latest agent event,
\* and the last one that a connected socket has yet to deliver, if any.
ActivityInv ==
  /\ ActivityTypeOK
  /\ watch \in Classes => lastEvent \in AgentEvents /\ lastEvent.state = watch
  /\ sock # "down" /\ bus # <<>> /\ watch \in Classes => bus[Len(bus)].state = watch
  /\ sock = "live" /\ bus = <<>> /\ ~guessed /\ watch \in Classes => dot = watch

LEMMA ActivityStarts == ActivityInit => ActivityInv
<1> SUFFICES ASSUME ActivityInit PROVE ActivityInv
  OBVIOUS
<1>1. <<>> \in Seq(BusEvents) /\ Len(<<>>) = 0
  OBVIOUS
<1>2. "none" \notin Classes
  BY DEF Classes
<1>3. ActivityTypeOK
  <2>1. BusTypes
    BY <1>1, ActivityAssumption DEF ActivityInit, BusTypes
  <2>2. CountTypes
    BY ActivityAssumption DEF ActivityInit, CountTypes
  <2>3. MarkTypes
    BY Zenon DEF ActivityInit, MarkTypes
  <2> QED
    BY <2>1, <2>2, <2>3, TypesSplit
<1> QED
  BY <1>2, <1>3 DEF ActivityInit, ActivityInv

\* No agent event is the event that stands for none.
LEMMA EventStates ==
  /\ \A e \in BusEvents: e # NoEvent /\ e.state \in Classes \cup {"none"}
  /\ \A e \in AgentEvents: e.state \in Classes
BY DEF BusEvents, AgentEvents, EndEvents, NoEvent, Classes

\* The event of a change of activity is an agent's, and names the new activity.
LEMMA TransitionNames ==
  ASSUME NEW prev \in Classes \cup {"unknown"}, NEW next \in Classes, prev # next
  PROVE  Transition(prev, next) \in AgentEvents /\ Transition(prev, next).state = next
<1>1. CASE prev = "awaiting"
  <2>1. next \in {"working", "idle"}
    BY <1>1 DEF Classes
  <2>2. Transition(prev, next) = [kind |-> "resolved", state |-> next]
    BY <1>1 DEF Transition
  <2> QED
    BY <2>1, <2>2 DEF AgentEvents
<1>2. CASE prev # "awaiting" /\ next = "awaiting"
  <2>1. Transition(prev, next) = [kind |-> "awaiting", state |-> "awaiting"]
    BY <1>2 DEF Transition
  <2> QED
    BY <1>2, <2>1 DEF AgentEvents
<1>3. CASE prev \in {"working", "unknown"} /\ next = "idle"
  <2>1. Transition(prev, next) = [kind |-> "finished", state |-> "idle"]
    BY <1>3 DEF Transition
  <2> QED
    BY <1>3, <2>1 DEF AgentEvents
<1>4. CASE prev # "awaiting" /\ next = "working"
  <2>1. Transition(prev, next) = [kind |-> "working", state |-> "working"]
    BY <1>4 DEF Transition
  <2> QED
    BY <1>4, <2>1 DEF AgentEvents
<1> QED
  BY <1>1, <1>2, <1>3, <1>4 DEF Classes

\* What the bus holds after an event: that one last, for a socket there is.
LEMMA BusAfter ==
  ASSUME ActivityTypeOK, NEW e \in BusEvents, Broadcast(e)
  PROVE  /\ bus' \in Seq(BusEvents) /\ Len(bus') <= BusRoom
         /\ sock # "down" => bus' # <<>> /\ bus'[Len(bus')] = e
<1>1. bus \in Seq(BusEvents) /\ Len(bus) <= BusRoom /\ Len(bus) \in Nat
      /\ BusRoom \in Nat \ {0}
  BY ActivityAssumption DEF ActivityTypeOK, BusEvents
<1>2. CASE sock = "down"
  BY <1>1, <1>2 DEF Broadcast
<1>3. CASE sock # "down"
  <2> DEFINE kept == IF Len(bus) = BusRoom THEN Tail(bus) ELSE bus
  <2>1. kept \in Seq(BusEvents) /\ Len(kept) \in Nat /\ Len(kept) < BusRoom
    <3>1. CASE Len(bus) = BusRoom
      <4>1. bus # <<>> /\ kept = Tail(bus)
        BY <1>1, <3>1
      <4>2. Tail(bus) \in Seq(BusEvents) /\ Len(Tail(bus)) = Len(bus) - 1
        BY <1>1, <4>1, HeadTailProperties
      <4>3. Len(bus) - 1 \in Nat /\ Len(bus) - 1 < BusRoom
        <5>1. bus \in Seq(BusEvents) /\ Len(bus) \in Nat /\ Len(bus) # 0
          BY <1>1, <4>1, EmptySeq
        <5> QED
          BY <1>1, <5>1
      <4> HIDE DEF kept
      <4> QED
        BY <4>1, <4>2, <4>3
    <3>2. CASE Len(bus) # BusRoom
      BY <1>1, <3>2
    <3> QED
      BY <3>1, <3>2
  <2>2. bus' = Append(kept, e)
    BY <1>3 DEF Broadcast
  <2> HIDE DEF kept
  <2>3. /\ Append(kept, e) \in Seq(BusEvents) /\ Len(Append(kept, e)) = Len(kept) + 1
        /\ Append(kept, e)[Len(kept) + 1] = e
    BY <2>1
  <2>4. Append(kept, e) # <<>>
    BY <2>1, <2>3
  <2> QED
    BY <1>1, <2>1, <2>2, <2>3, <2>4
<1> QED
  BY <1>2, <1>3

LEMMA WatchSteps ==
  ASSUME ActivityInv, WatchStarts \/ WatchSamples
                      \/ \E how \in {"stopped", "crashed"}: SessionEnds(how)
  PROVE  ActivityInv'
<1>1. ActivityTypeOK /\ {"none", "unknown"} \cap Classes = {}
  BY DEF ActivityInv, Classes
<1>2. CASE WatchStarts
  <2>1. ActivityTypeOK'
    BY <1>1, <1>2 DEF WatchStarts, ActivityTypeOK
  <2>2. watch' \notin Classes
    BY <1>1, <1>2 DEF WatchStarts
  <2> QED
    BY <2>1, <2>2 DEF ActivityInv
<1>3. CASE WatchSamples
  <2>1. Classify \in Classes
    BY <1>1 DEF Classify, ActivityTypeOK, Classes
  <2>2. watch \in Classes \cup {"unknown"} /\ watch # Classify /\ watch' = Classify
    BY <1>1, <1>3 DEF WatchSamples, ActivityTypeOK
  <2> DEFINE e == Transition(watch, Classify)
  <2>3. e \in AgentEvents /\ e.state = watch'
    BY <2>1, <2>2, TransitionNames
  <2>4. Emit(e)
    BY <1>3 DEF WatchSamples
  <2> HIDE DEF e
  <2>5. lastEvent' = e /\ Broadcast(e) /\ e \in BusEvents
    BY <2>3, <2>4 DEF Emit, BusEvents
  <2>6. /\ bus' \in Seq(BusEvents) /\ Len(bus') <= BusRoom
        /\ sock # "down" => bus' # <<>> /\ bus'[Len(bus')] = e
    BY <1>1, <2>5, BusAfter
  <2>7. UNCHANGED <<signed, shows, quiet, life, sock, dot, shown, dials, typed, guessed>>
    BY <1>3 DEF WatchSamples
  <2>8. ActivityTypeOK'
    BY <1>1, <2>1, <2>2, <2>3, <2>5, <2>6, <2>7 DEF ActivityTypeOK, BusEvents
  <2> QED
    BY <2>3, <2>5, <2>6, <2>7, <2>8 DEF ActivityInv
<1>4. ASSUME NEW how \in {"stopped", "crashed"}, SessionEnds(how)
      PROVE  ActivityInv'
  <2> DEFINE e == [kind |-> how, state |-> "none"]
  <2>1. e \in BusEvents /\ e \notin AgentEvents
    BY DEF BusEvents, EndEvents, AgentEvents
  <2>2. Emit(e) /\ watch' = "none" /\ life' = how
        /\ UNCHANGED <<signed, shows, quiet, sock, dot, shown, dials, typed, guessed>>
    BY <1>4 DEF SessionEnds
  <2> HIDE DEF e
  <2>3. lastEvent' = lastEvent /\ bus' \in Seq(BusEvents) /\ Len(bus') <= BusRoom
    BY <1>1, <2>1, <2>2, BusAfter DEF Emit
  <2>4. ActivityTypeOK'
    BY <1>1, <2>2, <2>3 DEF ActivityTypeOK, BusEvents
  <2> QED
    BY <1>1, <2>2, <2>4 DEF ActivityInv
<1> QED
  BY <1>2, <1>3, <1>4

LEMMA SocketSteps ==
  ASSUME ActivityInv, SocketDials \/ SocketReplays \/ SocketDelivers \/ SocketDrops
  PROVE  ActivityInv'
<1>1. /\ ActivityTypeOK /\ bus \in Seq(BusEvents)
      /\ <<>> \in Seq(BusEvents) /\ Len(<<>>) = 0 /\ BusRoom \in Nat
      /\ Len(bus) <= BusRoom /\ Len(bus) \in Nat
  BY ActivityAssumption DEF ActivityInv, ActivityTypeOK, BusEvents
<1>2. CASE SocketDials \/ SocketDrops
  <2>1. ActivityTypeOK'
    <3>1. CountTypes'
      BY <1>1, <1>2, TypesSplit, ActivityAssumption DEF SocketDials, SocketDrops, CountTypes
    <3>2. MarkTypes'
      BY <1>1, <1>2, TypesSplit, Zenon DEF SocketDials, SocketDrops, MarkTypes
    <3>3. BusTypes'
      <4>1. bus' = <<>>
        BY <1>2 DEF SocketDials, SocketDrops
      <4> QED
        BY <1>1, <4>1 DEF BusTypes
    <3> QED
      BY <3>1, <3>2, <3>3, TypesSplit
  <2>2. bus' = <<>> /\ sock' # "live" /\ UNCHANGED <<watch, lastEvent>>
    BY <1>2 DEF SocketDials, SocketDrops
  <2> QED
    BY <2>1, <2>2 DEF ActivityInv
<1>3. CASE SocketReplays
  <2>1. /\ sock = "replay" /\ sock' = "live" /\ dot' = ApplyEvent(dot, lastEvent)
        /\ guessed' = (guessed /\ lastEvent = NoEvent)
        /\ UNCHANGED <<signed, shows, quiet, life, watch, lastEvent, bus, shown, dials,
                       typed>>
    BY <1>3 DEF SocketReplays
  <2>2. lastEvent \in AgentEvents \cup {NoEvent} /\ dot \in Classes \cup {"none"}
    BY <1>1 DEF ActivityTypeOK
  <2>3. dot' \in Classes \cup {"none"}
        /\ (lastEvent \in AgentEvents => dot' = lastEvent.state)
    BY <2>1, <2>2, EventStates DEF ApplyEvent, BusEvents
  <2>4. guessed' \in BOOLEAN
    BY <2>1
  <2>5. ActivityTypeOK'
    BY <1>1, <2>1, <2>3, <2>4 DEF ActivityTypeOK
  <2> QED
    BY <2>1, <2>3, <2>5 DEF ActivityInv
<1>4. CASE SocketDelivers
  <2>1. /\ sock = "live" /\ bus # <<>> /\ bus' = Tail(bus)
        /\ dot' = ApplyEvent(dot, Head(bus)) /\ guessed' = FALSE
        /\ UNCHANGED <<signed, shows, quiet, life, watch, lastEvent, sock, shown, dials,
                       typed>>
    BY <1>4 DEF SocketDelivers
  <2>2. /\ Head(bus) \in BusEvents /\ Head(bus) = bus[1] /\ bus' \in Seq(BusEvents)
        /\ Len(bus') = Len(bus) - 1 /\ \A i \in 1..Len(bus'): bus'[i] = bus[i + 1]
    BY <1>1, <2>1, HeadTailProperties
  <2>3. dot' = Head(bus).state /\ dot' \in Classes \cup {"none"}
    BY <2>1, <2>2, EventStates DEF ApplyEvent
  <2>4. ActivityTypeOK'
    <3>1. CountTypes'
      BY <1>1, <2>1, TypesSplit DEF CountTypes
    <3>2. MarkTypes'
      BY <1>1, <2>1, <2>3, TypesSplit, Zenon DEF MarkTypes
    <3>3. BusTypes'
      BY <1>1, <2>2 DEF BusTypes
    <3> QED
      BY <3>1, <3>2, <3>3, TypesSplit
  <2>5. watch \in Classes => bus[Len(bus)].state = watch
    BY <2>1 DEF ActivityInv
  <2>6. bus' = <<>> => Len(bus) = 1
    BY <1>1, <2>2
  <2>7. bus' # <<>> => bus'[Len(bus')] = bus[Len(bus)]
    <3> SUFFICES ASSUME bus' # <<>> PROVE bus'[Len(bus')] = bus[Len(bus)]
      OBVIOUS
    <3>1. Len(bus') \in 1..Len(bus') /\ Len(bus') + 1 = Len(bus)
      BY <1>1, <2>2
    <3> QED
      BY <2>2, <3>1
  <2> QED
    BY <2>1, <2>2, <2>3, <2>4, <2>5, <2>6, <2>7 DEF ActivityInv
<1> QED
  BY <1>2, <1>3, <1>4

LEMMA ActivitySteps ==
  ASSUME ActivityInv, [ActivityNext]_activityVars
  PROVE  ActivityInv'
<1>1. ActivityTypeOK /\ "none" \notin Classes
  BY DEF ActivityInv, Classes
<1>2. CASE PaneShows \/ PaneQuiet \/ SessionStarts
  <2>1. ActivityTypeOK'
    <3>1. CountTypes'
      BY <1>1, <1>2, TypesSplit, ActivityAssumption
      DEF PaneShows, PaneQuiet, SessionStarts, CountTypes
    <3>2. MarkTypes'
      BY <1>1, <1>2, TypesSplit DEF PaneShows, PaneQuiet, SessionStarts, MarkTypes
    <3>3. BusTypes'
      BY <1>1, <1>2, TypesSplit DEF PaneShows, PaneQuiet, SessionStarts, BusTypes
    <3> QED
      BY <3>1, <3>2, <3>3, TypesSplit
  <2>2. UNCHANGED <<watch, lastEvent, bus, sock, dot, guessed>>
    BY <1>2 DEF PaneShows, PaneQuiet, SessionStarts
  <2> QED
    BY <2>1, <2>2 DEF ActivityInv
<1>3. CASE KeyTyped
  <2>1. ActivityTypeOK'
    <3>1. CountTypes'
      BY <1>1, <1>3, TypesSplit, ActivityAssumption DEF KeyTyped, CountTypes
    <3>2. MarkTypes'
      BY <1>1, <1>3, TypesSplit, Zenon DEF KeyTyped, MarkTypes, Classes
    <3>3. BusTypes'
      BY <1>1, <1>3, TypesSplit DEF KeyTyped, BusTypes
    <3> QED
      BY <3>1, <3>2, <3>3, TypesSplit
  <2>2. UNCHANGED <<watch, lastEvent, bus, sock>> /\ guessed'
    BY <1>3 DEF KeyTyped
  <2> QED
    BY <2>1, <2>2 DEF ActivityInv
<1>4. CASE UNCHANGED activityVars
  BY <1>4 DEF activityVars, ActivityInv, ActivityTypeOK
<1> QED
  BY <1>2, <1>3, <1>4, WatchSteps, SocketSteps DEF ActivityNext

LEMMA ActivitySafe == ActivityInv => ActivityTypeOK /\ DotIsCurrent
BY DEF ActivityInv, DotIsCurrent

-------------------------------------------------------------------------------
(* TuiPanes: the two panes, the tree and the streams.                        *)

StreamTasks == {"none", "dialing", "live", "dead"}
PaneStates == [sel : Ids, key : Ids, resume : BOOLEAN, task : StreamTasks, sent : 0 .. MaxOut,
               term : Parsers]

\* The rows of the tree.
RowsOf(S) == IF S = {} THEN 0 ELSE IF expanded THEN 1 + Cardinality(S) ELSE 1

\* What the proof of the panes needs of them, in four parts.
ListTypes ==
  /\ listed \subseteq TuiSessions /\ known \subseteq TuiSessions
  /\ checked \subseteq known /\ asking \subseteq TuiSessions /\ marks \subseteq TuiSessions
  /\ expanded \in BOOLEAN /\ split \in BOOLEAN /\ orphaned \in BOOLEAN /\ hushed \in BOOLEAN
  /\ lastSide \in Sides /\ prevSel \in Ids
PressTypes == presses \in 0 .. MaxKeyPresses
StreamTypes ==
  /\ printed \in [TuiSessions -> 0 .. MaxOut]
  /\ resumeAt \in [TuiSessions -> -1 .. MaxOut]
  /\ pane \in [Sides -> PaneStates]
  /\ cache \in [TuiSessions -> Parsers \cup {<<>>}]
ChannelTypes == channel \in [Sides -> Seq(Messages)]
CursorFits == cursor \in Nat /\ (cursor = 0 \/ cursor < RowsOf(known))
SidesFollow ==
  /\ pane["right"].key = pane["right"].sel
  /\ pane["left"].key = pane["left"].sel \/ orphaned
  /\ pane["right"].sel # Nobody => split
  /\ lastSide = "right" => split

PanesInv ==
  /\ ListTypes /\ PressTypes /\ StreamTypes /\ ChannelTypes
  /\ CursorFits /\ SidesFollow

LEMMA PanesSafe == PanesInv => TuiTypeOK /\ StreamsFollowSelection
<1> SUFFICES ASSUME PanesInv PROVE TuiTypeOK /\ StreamsFollowSelection
  OBVIOUS
<1>1. StreamsFollowSelection
  BY DEF PanesInv, SidesFollow, ListTypes, StreamsFollowSelection
<1>2. cursor \in 0 .. Cardinality(TuiSessions)
  <2>1. /\ IsFiniteSet(known) /\ Cardinality(known) \in Nat
        /\ Cardinality(known) <= Cardinality(TuiSessions) /\ Cardinality(TuiSessions) \in Nat
    BY TuiSessionsAssumption, FS_Subset, FS_CardinalityType DEF PanesInv, ListTypes
  <2>2. cursor \in Nat /\ (cursor = 0 \/ cursor < RowsOf(known))
    BY DEF PanesInv, CursorFits
  <2>3. RowsOf(known) <= 1 + Cardinality(known) /\ RowsOf(known) \in Nat
    BY <2>1 DEF RowsOf
  <2> QED
    BY <2>1, <2>2, <2>3
<1>3. \A d \in Sides : channel[d] \in Seq(Messages)
  BY DEF PanesInv, ChannelTypes
<1>4. /\ printed \in [TuiSessions -> 0 .. MaxOut]
      /\ resumeAt \in [TuiSessions -> -1 .. MaxOut]
      /\ pane \in [Sides -> [sel : Ids, key : Ids, resume : BOOLEAN,
                             task : {"none", "dialing", "live", "dead"},
                             sent : 0 .. MaxOut, term : Parsers]]
      /\ cache \in [TuiSessions -> Parsers \cup {<<>>}]
  BY DEF PanesInv, StreamTypes, PaneStates, StreamTasks
<1>5. presses \in 0 .. MaxKeyPresses
  BY DEF PanesInv, PressTypes
<1>6. /\ listed \subseteq TuiSessions /\ known \subseteq TuiSessions
      /\ checked \subseteq TuiSessions /\ asking \subseteq TuiSessions /\ marks \subseteq TuiSessions
      /\ expanded \in BOOLEAN /\ split \in BOOLEAN /\ orphaned \in BOOLEAN /\ hushed \in BOOLEAN
      /\ lastSide \in Sides /\ prevSel \in Ids
  BY DEF PanesInv, ListTypes
<1> QED
  BY <1>1, <1>2, <1>3, <1>4, <1>5, <1>6, Zenon DEF TuiTypeOK

-----------------------------------------------------------------------------

\* The least index with a property.
LEMMA LeastIndex ==
  ASSUME NEW S \in SUBSET Nat, S # {}
  PROVE  \E i \in S : \A j \in S : i <= j
<1> DEFINE R == {ss \in Nat \X Nat : ss[1] < ss[2]}
<1>1. IsWellFoundedOn(R, Nat)
  BY Zenon, NatLessThanWellFounded DEF OpToRel
<1>2. \A i, j \in Nat : i < j => <<i, j>> \in R
  OBVIOUS
<1> HIDE DEF R
<1>3. PICK i \in S : \A j \in S : ~(<<j, i>> \in R)
  BY <1>1, WFMin
<1>4. ASSUME NEW j \in S
      PROVE  i <= j
  <2>1. i \in Nat /\ j \in Nat /\ ~(<<j, i>> \in R)
    BY <1>3
  <2>2. ~(j < i)
    BY <1>2, <2>1
  <2> QED
    BY <2>1, <2>2
<1> QED
  BY <1>4

\* There is a function that starts with b and goes on by st.
Recursive(n, V, b, st) ==
  \E g \in [0..n -> V]: g[0] = b /\ \A i \in 1..n: g[i] = st[i][g[i - 1]]

\* A recursion over 0 .. n that stays in V defines a function.
LEMMA RecursionDefines ==
  ASSUME NEW n \in Nat, NEW V, NEW b \in V, NEW st \in [1..n -> [V -> V]]
  PROVE  Recursive(n, V, b, st)
<1> SUFFICES \E g \in [0..n -> V]: g[0] = b /\ \A i \in 1..n: g[i] = st[i][g[i - 1]]
  BY DEF Recursive
<1> DEFINE Good(m) == \E g \in [0..m -> V]: g[0] = b /\ \A i \in 1..m: g[i] = st[i][g[i - 1]]
           Bad == {m \in 0..n: ~Good(m)}
<1>1. CASE Bad = {}
  <2>1. n \in 0..n
    OBVIOUS
  <2>2. Good(n)
    BY <1>1, <2>1
  <2> QED
    BY <2>2
<1>2. CASE Bad # {}
  <2>1. Bad \in SUBSET Nat
    OBVIOUS
  <2> HIDE DEF Good, Bad
  <2>2. PICK m \in Bad: \A j \in Bad: m <= j
    BY <1>2, <2>1, LeastIndex
  <2>3. m \in 0..n /\ ~Good(m)
    BY <2>2 DEF Bad
  <2>4. CASE m = 0
    <3> DEFINE g == [i \in 0..0 |-> b]
    <3>1. g \in [0..m -> V] /\ g[0] = b /\ \A i \in 1..m: g[i] = st[i][g[i - 1]]
      BY <2>4
    <3>2. Good(m)
      BY <3>1 DEF Good
    <3> QED
      BY <2>3, <3>2
  <2>5. CASE m # 0
    <3>1. m - 1 \in 0..n /\ ~(m <= m - 1) /\ m \in 1..n
      BY <2>3, <2>5
    <3>2. Good(m - 1)
      BY <2>2, <3>1 DEF Bad
    <3>3. PICK h \in [0..(m - 1) -> V]:
            h[0] = b /\ \A i \in 1..(m - 1): h[i] = st[i][h[i - 1]]
      BY <3>2 DEF Good
    <3> DEFINE g == [i \in 0..m |-> IF i = m THEN st[m][h[m - 1]] ELSE h[i]]
    <3>4. h[m - 1] \in V /\ st[m][h[m - 1]] \in V
      BY <3>1, <3>3
    <3>5. g \in [0..m -> V]
      BY <3>1, <3>3, <3>4
    <3>6. \A i \in 0..m: i # m => g[i] = h[i]
      OBVIOUS
    <3>7. m \in 0..m /\ g[m] = st[m][h[m - 1]]
      BY <3>1
    <3> HIDE DEF g
    <3>8. g[0] = b
      BY <2>5, <3>1, <3>3, <3>6
    <3>9. ASSUME NEW i \in 1..m
          PROVE  g[i] = st[i][g[i - 1]]
      <4>1. i - 1 \in 0..m /\ i - 1 # m /\ i \in 0..m
        BY <3>1
      <4>2. g[i - 1] = h[i - 1]
        BY <3>6, <4>1
      <4>3. CASE i = m
        BY <3>7, <4>2, <4>3
      <4>4. CASE i # m
        <5>1. i \in 1..(m - 1)
          BY <3>1, <4>4
        <5> QED
          BY <3>3, <3>6, <4>1, <4>2, <4>4, <5>1
      <4> QED
        BY <4>3, <4>4
    <3>10. Good(m)
      BY <3>5, <3>8, <3>9 DEF Good
    <3> QED
      BY <2>3, <3>10
  <2> QED
    BY <2>4, <2>5
<1> QED
  BY <1>1, <1>2

\* What holds at 0 and goes from each index to the next holds at all of them.
LEMMA IndexInduction ==
  ASSUME NEW n \in Nat, NEW Good, 0 \in Good,
         \A i \in 1..n: i - 1 \in Good => i \in Good
  PROVE  \A i \in 0..n: i \in Good
<1> DEFINE Bad == {m \in 0..n: m \notin Good}
<1>1. CASE Bad = {}
  BY <1>1
<1>2. CASE Bad # {}
  <2>1. Bad \in SUBSET Nat
    OBVIOUS
  <2>2. PICK m \in Bad: \A j \in Bad: m <= j
    BY <1>2, <2>1, LeastIndex
  <2>3. m \in 1..n
    BY <2>2
  <2>4. m - 1 \in 0..n /\ ~(m <= m - 1)
    BY <2>3
  <2> QED
    BY <2>2, <2>3, <2>4
<1> QED
  BY <1>1, <1>2

-----------------------------------------------------------------------------
\* The rows of a sorted list are numbered from one, and every one of them is
\* some session's.
LEMMA RowsAreFilled ==
  ASSUME NEW S \in SUBSET TuiSessions
  PROVE  /\ IsFiniteSet(S) /\ Cardinality(S) \in Nat
         /\ \A id \in S: RowOf(S, id) \in 1..Cardinality(S)
         /\ \A rowNo \in 1..Cardinality(S): SessionOf(S, rowNo) \in S
<1>1. IsFiniteSet(S) /\ Cardinality(S) \in Nat /\ S \subseteq Nat
  BY TuiSessionsAssumption, FS_Subset, FS_CardinalityType
<1> DEFINE Upto(id) == {s \in S : s <= id}
<1>2. ASSUME NEW id \in S
      PROVE  /\ IsFiniteSet(Upto(id)) /\ Cardinality(Upto(id)) = RowOf(S, id)
             /\ RowOf(S, id) \in 1..Cardinality(S)
  <2>1. Upto(id) \in SUBSET S /\ id \in Upto(id)
    BY <1>1
  <2>2. IsFiniteSet(Upto(id)) /\ Cardinality(Upto(id)) <= Cardinality(S)
    BY <1>1, <2>1, FS_Subset
  <2>3. Cardinality(Upto(id)) \in Nat /\ Cardinality(Upto(id)) # 0
    BY <2>1, <2>2, FS_CardinalityType, FS_EmptySet
  <2>4. Cardinality(Upto(id)) = RowOf(S, id)
    BY DEF RowOf
  <2> HIDE DEF Upto
  <2> QED
    BY <1>1, <2>2, <2>3, <2>4
<1> DEFINE rowNo == [id \in S |-> RowOf(S, id)]
           N == Cardinality(S)
<1>3. ASSUME NEW a \in S, NEW b \in S, a < b
      PROVE  RowOf(S, a) < RowOf(S, b)
  <2>1. Upto(a) \in SUBSET Upto(b) /\ b \in Upto(b) /\ b \notin Upto(a)
    <3>1. a \in Nat /\ b \in Nat
      BY <1>1
    <3>2. \A s \in S: s <= a => s <= b
      BY <1>1, <1>3, <3>1
    <3>3. ~(b <= a) /\ b <= b
      BY <1>3, <3>1
    <3>4. Upto(a) \subseteq Upto(b)
      BY <3>2
    <3>5. b \in Upto(b) /\ b \notin Upto(a)
      BY <3>3
    <3> QED
      BY <3>4, <3>5, Zenon
  <2>2. /\ Cardinality(Upto(a)) <= Cardinality(Upto(b))
        /\ Cardinality(Upto(a)) # Cardinality(Upto(b))
    <3>1. IsFiniteSet(Upto(b))
      BY <1>2
    <3> HIDE DEF Upto
    <3> QED
      BY <2>1, <3>1, FS_Subset
  <2> HIDE DEF Upto
  <2>3. RowOf(S, a) <= RowOf(S, b) /\ RowOf(S, a) # RowOf(S, b)
    BY <1>2, <2>2
  <2>4. RowOf(S, a) \in Nat /\ RowOf(S, b) \in Nat
    BY <1>1, <1>2
  <2> QED
    BY <2>3, <2>4
<1>4. rowNo \in [S -> 1..N]
  BY <1>2
<1>5. \A a, b \in S: rowNo[a] = rowNo[b] => a = b
  <2> SUFFICES ASSUME NEW a \in S, NEW b \in S, rowNo[a] = rowNo[b], a # b
               PROVE  FALSE
    OBVIOUS
  <2>1. rowNo[a] = RowOf(S, a) /\ rowNo[b] = RowOf(S, b)
    OBVIOUS
  <2>2. RowOf(S, a) \in Nat /\ RowOf(S, b) \in Nat /\ a \in Nat /\ b \in Nat
    <3>1. RowOf(S, a) \in 1..Cardinality(S) /\ RowOf(S, b) \in 1..Cardinality(S)
      BY <1>2, Zenon
    <3> QED
      BY <1>1, <3>1
  <2>3. a < b \/ b < a
    BY <2>2
  <2> HIDE DEF rowNo
  <2>4. RowOf(S, a) = RowOf(S, b)
    BY <2>1
  <2>5. RowOf(S, a) < RowOf(S, b) \/ RowOf(S, b) < RowOf(S, a)
    BY <1>3, <2>3
  <2> QED
    BY <2>2, <2>4, <2>5
<1>6. rowNo \in Injection(S, 1..N)
  BY <1>4, <1>5, Fun_IsInj
<1>7. IsFiniteSet(1..N) /\ Cardinality(1..N) = N
  BY <1>1, FS_Interval
<1> HIDE DEF rowNo, N
<1>8. rowNo \in Surjection(S, 1..N)
  BY <1>6, <1>7, FS_Injection DEF N
<1>9. ASSUME NEW r \in 1..N
      PROVE  SessionOf(S, r) \in S
  <2>1. \E id \in S: rowNo[id] = r
    <3>1. rowNo \in [S -> 1..N] /\ \A t \in 1..N : \E s \in S : rowNo[s] = t
      BY <1>8 DEF Surjection
    <3> QED
      BY <3>1
  <2>2. PICK id \in S: RowOf(S, id) = r
    BY <2>1 DEF rowNo
  <2>3. (CHOOSE s \in S : RowOf(S, s) = r) \in S
    BY <2>2
  <2> QED
    BY <2>3 DEF SessionOf
<1> QED
  BY <1>1, <1>2, <1>9 DEF N

\* The row under the cursor of a list it fits is a session of the list.
LEMMA CursorNames ==
  ASSUME NEW S \in SUBSET TuiSessions, NEW c \in Nat, c = 0 \/ c < RowsOf(S)
  PROVE  /\ CurrentSession(S, c) \in S \cup {Nobody}
         /\ S # {} => CurrentSession(S, c) \in S
<1>1. CASE S = {}
  BY <1>1 DEF CurrentSession
<1>2. CASE S # {}
  <2> DEFINE r == IF c = 0 THEN 1 ELSE c
  <2>1. /\ Cardinality(S) \in Nat
        /\ \A rowNo \in 1..Cardinality(S): SessionOf(S, rowNo) \in S
    BY RowsAreFilled
  <2>2. Cardinality(S) # 0
    BY <1>2, RowsAreFilled, FS_EmptySet
  <2>3. r \in 1..Cardinality(S)
    BY <1>2, <2>1, <2>2 DEF RowsOf
  <2>4. CurrentSession(S, c) = SessionOf(S, r)
    BY <1>2 DEF CurrentSession
  <2> QED
    BY <2>1, <2>3, <2>4
<1> QED
  BY <1>1, <1>2

\* Clamping and selecting leave a cursor that fits the list.
LEMMA ClampFits ==
  ASSUME NEW S \in SUBSET TuiSessions, NEW c \in Nat
  PROVE  Clamp(S, c) \in Nat /\ (Clamp(S, c) = 0 \/ Clamp(S, c) < RowsOf(S))
<1>1. Cardinality(S) \in Nat
  BY RowsAreFilled
<1>2. Clamp(S, c) = IF RowsOf(S) = 0 THEN 0 ELSE IF c >= RowsOf(S) THEN RowsOf(S) - 1 ELSE c
  BY DEF Clamp, RowsOf
<1>3. RowsOf(S) \in Nat
  BY <1>1 DEF RowsOf
<1> QED
  BY <1>2, <1>3

LEMMA SelectFits ==
  ASSUME NEW S \in SUBSET TuiSessions, NEW c \in Nat, c = 0 \/ c < RowsOf(S), NEW id
  PROVE  /\ SelectRow(S, id, c) \in Nat
         /\ SelectRow(S, id, c) = 0 \/ SelectRow(S, id, c) < RowsOf(S)
<1>1. CASE expanded /\ id \in S
  <2>1. SelectRow(S, id, c) \in 1..Cardinality(S) /\ Cardinality(S) \in Nat
    BY <1>1, RowsAreFilled DEF SelectRow
  <2>2. RowsOf(S) = 1 + Cardinality(S)
    BY <1>1 DEF RowsOf
  <2> QED
    BY <2>1, <2>2
<1>2. CASE ~(expanded /\ id \in S)
  <2>1. SelectRow(S, id, c) = c
    BY <1>2 DEF SelectRow
  <2> QED
    BY <2>1
<1> QED
  BY <1>1, <1>2
-----------------------------------------------------------------------------
\* Parsers.

LEMMA FeedKeeps ==
  ASSUME NEW t \in Parsers, NEW s, NEW m \in Messages
  PROVE  Feed(t, s, m) \in Parsers
BY DEF Feed, Parsers, Messages

LEMMA FeedAllKeeps ==
  ASSUME NEW t \in Parsers, NEW s, NEW ms \in Seq(Messages)
  PROVE  FeedAll(t, s, ms) \in Parsers
<1> DEFINE st == [i \in 1..Len(ms) |-> [v \in Parsers |-> Feed(v, s, ms[i])]]
           Run(g) == [n \in 0..Len(ms) |-> IF n = 0 THEN t ELSE Feed(g[n - 1], s, ms[n])]
<1>1. Len(ms) \in Nat /\ \A i \in 1..Len(ms): ms[i] \in Messages
  OBVIOUS
<1>2. st \in [1..Len(ms) -> [Parsers -> Parsers]]
  <2>1. \A i \in 1..Len(ms): \A v \in Parsers: Feed(v, s, ms[i]) \in Parsers
    BY <1>1, FeedKeeps
  <2> QED
    BY <2>1
<1>3. \A i \in 1..Len(ms): \A v \in Parsers: st[i][v] = Feed(v, s, ms[i])
  OBVIOUS
<1> HIDE DEF st
<1>4. PICK g \in [0..Len(ms) -> Parsers]: g[0] = t /\ \A i \in 1..Len(ms): g[i] = st[i][g[i - 1]]
  <2>1. Recursive(Len(ms), Parsers, t, st)
    BY <1>1, <1>2, RecursionDefines
  <2> QED
    BY <2>1 DEF Recursive
<1>5. g = Run(g)
  <2>1. ASSUME NEW n \in 0..Len(ms)
        PROVE  g[n] = IF n = 0 THEN t ELSE Feed(g[n - 1], s, ms[n])
    <3>1. CASE n = 0
      BY <1>4, <3>1
    <3>2. CASE n # 0
      <4>1. n \in 1..Len(ms) /\ n - 1 \in 0..Len(ms)
        BY <1>1, <3>2
      <4>2. g[n - 1] \in Parsers
        BY <1>4, <4>1
      <4> QED
        BY <1>3, <1>4, <3>2, <4>1, <4>2
    <3> QED
      BY <3>1, <3>2
  <2> QED
    BY <1>4, <2>1
<1> DEFINE fed == CHOOSE f : f = Run(f)
<1>6. fed = Run(fed)
  BY <1>5
<1>7. FeedAll(t, s, ms) = fed[Len(ms)]
  BY DEF FeedAll
<1> DEFINE Fed == {n \in 0..Len(ms): fed[n] \in Parsers}
<1>8. ASSUME NEW n \in 0..Len(ms)
      PROVE  fed[n] = IF n = 0 THEN t ELSE Feed(fed[n - 1], s, ms[n])
  BY <1>6
<1> HIDE DEF fed
<1>9. 0 \in Fed
  <2>1. 0 \in 0..Len(ms)
    BY <1>1
  <2> QED
    BY <1>8, <2>1
<1>10. ASSUME NEW i \in 1..Len(ms), i - 1 \in Fed
       PROVE  i \in Fed
  <2>1. i \in 0..Len(ms) /\ i # 0 /\ fed[i - 1] \in Parsers /\ ms[i] \in Messages
    BY <1>1, <1>10
  <2>2. fed[i] = Feed(fed[i - 1], s, ms[i])
    BY <1>8, <2>1
  <2>3. fed[i] \in Parsers
    BY <2>1, <2>2, FeedKeeps
  <2> QED
    BY <2>1, <2>3
<1>11. Len(ms) \in Fed
  <2>1. \A i \in 0..Len(ms): i \in Fed
    <3> HIDE DEF Fed
    <3> QED
      BY <1>1, <1>9, <1>10, IndexInduction
  <2>2. Len(ms) \in 0..Len(ms)
    BY <1>1
  <2> QED
    BY <2>1, <2>2
<1> QED
  BY <1>7, <1>11

-----------------------------------------------------------------------------
\* Selections.

Checkpoints == [TuiSessions -> -1 .. MaxOut]

LEMMA CheckpointKeeps ==
  ASSUME NEW p \in [Sides -> PaneStates], NEW d \in Sides, NEW at \in Checkpoints
  PROVE  Checkpoint(p, d, at) \in Checkpoints
<1>1. p[d].sent \in -1 .. MaxOut
  <2>1. p[d] \in PaneStates
    OBVIOUS
  <2>2. p[d].sent \in 0 .. MaxOut
    BY <2>1 DEF PaneStates
  <2> QED
    BY <2>2, TuiSessionsAssumption
<1> QED
  BY <1>1 DEF Checkpoint, Checkpoints

LEMMA BlankIsParser == Blank \in Parsers /\ Idle \in PaneStates
BY TuiSessionsAssumption DEF Blank, Parsers, Idle, PaneStates, StreamTasks, Ids

\* A side that is pointed elsewhere has a key channel of its selection, and
\* the other side keeps what it has.
LEMMA UpdateKeeps ==
  ASSUME StreamTypes, prevSel \in Ids, NEW d \in Sides, NEW new \in Ids,
         UpdateSelection(d, new)
  PROVE  /\ pane' \in [Sides -> PaneStates] /\ resumeAt' \in Checkpoints
         /\ cache' \in [TuiSessions -> Parsers \cup {<<>>}] /\ prevSel' \in Ids
         /\ \A e \in Sides: e # d => pane'[e] = pane[e]
         /\ pane'[d] = pane[d] \/ pane'[d].key = pane'[d].sel
<1>1. /\ pane \in [Sides -> PaneStates] /\ resumeAt \in Checkpoints
      /\ cache \in [TuiSessions -> Parsers \cup {<<>>}]
  BY DEF StreamTypes, Checkpoints
<1>2. CASE new = pane[d].sel
  BY <1>1, <1>2 DEF UpdateSelection
<1>3. CASE new # pane[d].sel
  <2> DEFINE cached == d = "left" /\ new # Nobody /\ cache[new] # <<>>
             kept == IF d = "left" /\ pane[d].sel # Nobody
                     THEN [cache EXCEPT ![pane[d].sel] = pane[d].term] ELSE cache
             rec == [sel |-> new, key |-> new, sent |-> 0,
                     task |-> IF new = Nobody THEN "none" ELSE "dialing",
                     resume |-> cached,
                     term |-> IF cached THEN cache[new]
                              ELSE IF d = "left" /\ pane[d].sel = Nobody
                              THEN pane[d].term ELSE Blank]
  <2>1. /\ resumeAt' = Checkpoint(pane, d, resumeAt)
        /\ pane' = [pane EXCEPT ![d] = rec]
        /\ cache' = (IF cached THEN [kept EXCEPT ![new] = <<>>] ELSE kept)
        /\ prevSel' = (IF d = "left" /\ pane[d].sel # Nobody THEN pane[d].sel ELSE prevSel)
    BY <1>3 DEF UpdateSelection
  <2>2. pane[d] \in PaneStates /\ pane[d].term \in Parsers /\ pane[d].sel \in Ids
    BY <1>1 DEF PaneStates
  <2>3. cached => cache[new] \in Parsers
    BY <1>1 DEF Ids
  <2>4. kept \in [TuiSessions -> Parsers \cup {<<>>}]
    BY <1>1, <2>2
  <2>5. cached \in BOOLEAN
    OBVIOUS
  <2>6. rec.term \in Parsers
    BY <2>2, <2>3, BlankIsParser
  <2>7. rec \in PaneStates
    <3>1. (IF new = Nobody THEN "none" ELSE "dialing") \in StreamTasks
      BY DEF StreamTasks
    <3>2. 0 \in 0 .. MaxOut
      BY TuiSessionsAssumption
    <3> DEFINE tm == rec.term
               tk == IF new = Nobody THEN "none" ELSE "dialing"
    <3>3. rec = [sel |-> new, key |-> new, sent |-> 0, task |-> tk,
                 resume |-> cached, term |-> tm]
      OBVIOUS
    <3>4. tm \in Parsers
      BY <2>6
    <3> HIDE DEF cached, tm, tk, rec
    <3> QED
      BY <2>5, <3>1, <3>2, <3>3, <3>4 DEF PaneStates, tk
  <2>8. rec.key = rec.sel
    OBVIOUS
  <2> HIDE DEF rec
  <2>9. pane' \in [Sides -> PaneStates] /\ pane'[d] = rec /\ \A e \in Sides: e # d => pane'[e] = pane[e]
    BY <1>1, <2>1, <2>7
  <2>10. cache' \in [TuiSessions -> Parsers \cup {<<>>}]
    <3> HIDE DEF cached, kept
    <3> QED
      BY <2>1, <2>4
  <2>11. resumeAt' \in Checkpoints
    BY <1>1, <2>1, CheckpointKeeps
  <2>12. prevSel' \in Ids
    BY <2>1, <2>2
  <2> QED
    BY <2>8, <2>9, <2>10, <2>11, <2>12
<1> QED
  BY <1>2, <1>3

\* A refresh keeps a pane or empties it, and leaves a cursor that fits the
\* list and checked sessions of it.
LEMMA RefreshKeeps ==
  ASSUME NEW p \in [Sides -> PaneStates], NEW S \in SUBSET TuiSessions,
         resumeAt \in Checkpoints, cursor \in Nat,
         RefreshSessions(p, resumeAt, cursor, S)
  PROVE  /\ pane' \in [Sides -> PaneStates] /\ resumeAt' \in Checkpoints
         /\ \A d \in Sides: pane'[d] = p[d] \/ pane'[d] = Idle
         /\ known' = S /\ checked' \subseteq S
         /\ cursor' \in Nat /\ (cursor' = 0 \/ cursor' < RowsOf(S))
<1> DEFINE Gone(d) == p[d].sel \notin S \cup {Nobody}
           ended == Checkpoint(p, "left", resumeAt)
           l == IF Gone("left") THEN ended ELSE resumeAt
<1>1. /\ known' = S
      /\ pane' = [d \in Sides |-> IF Gone(d) THEN Idle ELSE p[d]]
      /\ resumeAt' = (IF Gone("right") THEN Checkpoint(p, "right", l) ELSE l)
      /\ cursor' = (IF p["left"].sel \in S
                    THEN SelectRow(S, p["left"].sel, Clamp(S, cursor))
                    ELSE Clamp(S, cursor))
      /\ checked' = checked \cap S
  BY DEF RefreshSessions
<1>2. /\ pane' \in [Sides -> PaneStates]
      /\ \A d \in Sides: pane'[d] = p[d] \/ pane'[d] = Idle
  <2> HIDE DEF Gone
  <2> QED
    BY <1>1, BlankIsParser
<1>3. resumeAt' \in Checkpoints
  <2>1. ended \in Checkpoints
    BY CheckpointKeeps DEF Sides
  <2>2. l \in Checkpoints
    <3> HIDE DEF Gone, ended
    <3> QED
      BY <2>1
  <2> HIDE DEF l, Gone
  <2>3. Checkpoint(p, "right", l) \in Checkpoints
    BY <2>2, CheckpointKeeps DEF Sides
  <2> QED
    BY <1>1, <2>2, <2>3
<1>4. cursor' \in Nat /\ (cursor' = 0 \/ cursor' < RowsOf(S))
  <2> DEFINE c == Clamp(S, cursor)
  <2>1. c \in Nat /\ (c = 0 \/ c < RowsOf(S))
    BY ClampFits
  <2> HIDE DEF c
  <2>2. /\ SelectRow(S, p["left"].sel, c) \in Nat
        /\ SelectRow(S, p["left"].sel, c) = 0 \/ SelectRow(S, p["left"].sel, c) < RowsOf(S)
    BY <2>1, SelectFits
  <2> QED
    BY <1>1, <2>1, <2>2 DEF c
<1> QED
  BY <1>1, <1>2, <1>3, <1>4
-----------------------------------------------------------------------------
\* The steps.

LEMMA SelectionsStay ==
  ASSUME SidesFollow, UNCHANGED <<split, lastSide, orphaned>>,
         \A d \in Sides: pane'[d].sel = pane[d].sel /\ pane'[d].key = pane[d].key
  PROVE  SidesFollow'
BY DEF SidesFollow, Sides

LEMMA CursorStays ==
  ASSUME CursorFits, UNCHANGED <<known, expanded, cursor>>
  PROVE  CursorFits'
BY DEF CursorFits, RowsOf

LEMMA StreamSteps ==
  ASSUME PanesInv,
         \/ ServerChanges
         \/ \E s \in TuiSessions: SessionPrints(s)
         \/ \E d \in Sides: StreamConnects(d) \/ StreamForwards(d) \/ StreamDrops(d)
         \/ HandleTerminalMsgs
  PROVE  PanesInv'
<1>1. ListTypes /\ PressTypes /\ StreamTypes /\ ChannelTypes /\ CursorFits /\ SidesFollow
  BY DEF PanesInv
<1>2. /\ pane \in [Sides -> PaneStates] /\ printed \in [TuiSessions -> 0 .. MaxOut]
      /\ resumeAt \in [TuiSessions -> -1 .. MaxOut] /\ resumeAt \in Checkpoints
      /\ channel \in [Sides -> Seq(Messages)]
  BY <1>1 DEF StreamTypes, ChannelTypes, Checkpoints
<1>3. CASE ServerChanges
  <2>1. ListTypes'
    BY <1>1, <1>3 DEF ServerChanges, ListTypes
  <2>2. PressTypes'
    BY <1>1, <1>3, TuiSessionsAssumption DEF ServerChanges, PressTypes
  <2>3. UNCHANGED <<printed, resumeAt, known, expanded, cursor, pane, split, lastSide, cache,
                    channel, orphaned>>
    BY <1>3 DEF ServerChanges
  <2>4. StreamTypes' /\ ChannelTypes' /\ CursorFits' /\ SidesFollow'
    BY <1>1, <2>3, CursorStays DEF StreamTypes, ChannelTypes, SidesFollow
  <2> QED
    BY <2>1, <2>2, <2>4 DEF PanesInv
<1>4. ASSUME NEW s \in TuiSessions, SessionPrints(s)
      PROVE  PanesInv'
  <2>1. /\ printed[s] < MaxOut /\ printed' = [printed EXCEPT ![s] = @ + 1]
        /\ UNCHANGED <<listed, resumeAt, known, expanded, cursor, pane, split, lastSide, cache,
                       prevSel, channel, checked, asking, marks, presses, orphaned, hushed>>
    BY <1>4 DEF SessionPrints
  <2>2. printed' \in [TuiSessions -> 0 .. MaxOut]
    BY <1>2, <2>1, TuiSessionsAssumption
  <2>3. ListTypes' /\ PressTypes' /\ StreamTypes' /\ ChannelTypes' /\ CursorFits' /\ SidesFollow'
    BY <1>1, <2>1, <2>2, CursorStays
    DEF ListTypes, PressTypes, StreamTypes, ChannelTypes, SidesFollow
  <2> QED
    BY <2>3 DEF PanesInv
<1>5. ASSUME NEW d \in Sides, StreamConnects(d)
      PROVE  PanesInv'
  <2>1. UNCHANGED <<listed, printed, resumeAt, known, expanded, cursor, split, lastSide, cache,
                    prevSel, checked, asking, marks, presses, orphaned, hushed>>
    BY <1>5 DEF StreamConnects
  <2>2. pane[d] \in PaneStates
    BY <1>2
  <2>3. /\ pane' \in [Sides -> PaneStates] /\ channel' \in [Sides -> Seq(Messages)]
        /\ \A e \in Sides: pane'[e].sel = pane[e].sel /\ pane'[e].key = pane[e].key
    <3> DEFINE s == pane[d].key
               from == IF pane[d].resume /\ resumeAt[s] >= 0 THEN resumeAt[s] ELSE 0
               m == [of |-> s, from |-> from, to |-> printed[s]]
    <3>1. CASE s \in listed
      <4>1. s \in TuiSessions /\ printed[s] \in 0 .. MaxOut /\ resumeAt[s] \in -1 .. MaxOut
        BY <1>1, <1>2, <3>1 DEF ListTypes
      <4>2. from \in 0 .. MaxOut
        BY <4>1, TuiSessionsAssumption
      <4>3. m \in Messages
        <5> HIDE DEF from, s
        <5> QED
          BY <4>1, <4>2 DEF Messages
      <4>4. /\ channel' = [channel EXCEPT ![d] = Append(@, m)]
            /\ pane' = [pane EXCEPT ![d].task = "live", ![d].sent = printed[s]]
        BY <1>5, <3>1 DEF StreamConnects
      <4> DEFINE r == [pane[d] EXCEPT !.task = "live", !.sent = printed[s]]
      <4>5. r \in PaneStates /\ r.sel = pane[d].sel /\ r.key = pane[d].key
        BY <2>2, <4>1 DEF PaneStates, StreamTasks
      <4>6. pane' = [pane EXCEPT ![d] = r]
        BY <1>2, <4>4
      <4> HIDE DEF r, m, s
      <4>7. channel' \in [Sides -> Seq(Messages)]
        <5>1. Append(channel[d], m) \in Seq(Messages)
          BY <1>2, <4>3
        <5> QED
          BY <1>2, <4>4, <5>1
      <4> QED
        BY <1>2, <4>5, <4>6, <4>7
    <3>2. CASE s \notin listed
      <4>1. channel' = channel /\ pane' = [pane EXCEPT ![d].task = "dead"]
        BY <1>5, <3>2 DEF StreamConnects
      <4> DEFINE r == [pane[d] EXCEPT !.task = "dead"]
      <4>2. r \in PaneStates /\ r.sel = pane[d].sel /\ r.key = pane[d].key
        BY <2>2 DEF PaneStates, StreamTasks
      <4>3. pane' = [pane EXCEPT ![d] = r]
        BY <1>2, <4>1
      <4> HIDE DEF r
      <4> QED
        BY <1>2, <4>1, <4>2, <4>3
    <3> QED
      BY <3>1, <3>2
  <2>4. StreamTypes'
    BY <1>1, <2>1, <2>3 DEF StreamTypes
  <2>5. ListTypes' /\ PressTypes' /\ ChannelTypes' /\ CursorFits' /\ SidesFollow'
    BY <1>1, <2>1, <2>3, CursorStays, SelectionsStay DEF ListTypes, PressTypes, ChannelTypes
  <2> QED
    BY <2>4, <2>5 DEF PanesInv
<1>6. ASSUME NEW d \in Sides, StreamForwards(d)
      PROVE  PanesInv'
  <2>1. UNCHANGED <<listed, printed, resumeAt, known, expanded, cursor, split, lastSide, cache,
                    prevSel, checked, asking, marks, presses, orphaned, hushed>>
    BY <1>6 DEF StreamForwards
  <2>2. pane[d] \in PaneStates
    BY <1>2
  <2>3. /\ pane' \in [Sides -> PaneStates] /\ channel' \in [Sides -> Seq(Messages)]
        /\ \A e \in Sides: pane'[e].sel = pane[e].sel /\ pane'[e].key = pane[e].key
    <3> DEFINE s == pane[d].key
               m == [of |-> s, from |-> pane[d].sent, to |-> printed[s]]
               r == [pane[d] EXCEPT !.sent = printed[s]]
    <3>1. /\ s \in listed
          /\ channel' = [channel EXCEPT ![d] = Append(@, m)]
          /\ pane' = [pane EXCEPT ![d].sent = printed[s]]
      BY <1>6 DEF StreamForwards
    <3>2. s \in TuiSessions /\ printed[s] \in 0 .. MaxOut /\ pane[d].sent \in 0 .. MaxOut
      BY <1>1, <1>2, <2>2, <3>1 DEF ListTypes, PaneStates
    <3>3. m \in Messages
      BY <3>2 DEF Messages
    <3>4. r \in PaneStates /\ r.sel = pane[d].sel /\ r.key = pane[d].key
      BY <2>2, <3>2 DEF PaneStates
    <3>5. pane' = [pane EXCEPT ![d] = r]
      BY <1>2, <3>1
    <3> HIDE DEF r, m, s
    <3>6. Append(channel[d], m) \in Seq(Messages)
      BY <1>2, <3>3
    <3> QED
      BY <1>2, <3>1, <3>4, <3>5, <3>6
  <2>4. StreamTypes'
    BY <1>1, <2>1, <2>3 DEF StreamTypes
  <2>5. ListTypes' /\ PressTypes' /\ ChannelTypes' /\ CursorFits' /\ SidesFollow'
    BY <1>1, <2>1, <2>3, CursorStays, SelectionsStay DEF ListTypes, PressTypes, ChannelTypes
  <2> QED
    BY <2>4, <2>5 DEF PanesInv
<1>7. ASSUME NEW d \in Sides, StreamDrops(d)
      PROVE  PanesInv'
  <2>1. /\ UNCHANGED <<listed, printed, known, expanded, cursor, split, lastSide, cache,
                       prevSel, channel, checked, asking, marks, orphaned, hushed>>
        /\ presses < MaxKeyPresses /\ presses' = presses + 1
        /\ resumeAt' = Checkpoint(pane, d, resumeAt)
        /\ pane' = [pane EXCEPT ![d].task = "dialing", ![d].resume = TRUE]
    BY <1>7 DEF StreamDrops
  <2> DEFINE r == [pane[d] EXCEPT !.task = "dialing", !.resume = TRUE]
  <2>2. r \in PaneStates /\ r.sel = pane[d].sel /\ r.key = pane[d].key
    <3>1. pane[d] \in PaneStates
      BY <1>2
    <3> QED
      BY <3>1 DEF PaneStates, StreamTasks
  <2>3. pane' = [pane EXCEPT ![d] = r]
    BY <1>2, <2>1
  <2> HIDE DEF r
  <2>4. /\ pane' \in [Sides -> PaneStates]
        /\ \A e \in Sides: pane'[e].sel = pane[e].sel /\ pane'[e].key = pane[e].key
    BY <1>2, <2>2, <2>3
  <2>5. resumeAt' \in [TuiSessions -> -1 .. MaxOut]
    BY <1>2, <2>1, CheckpointKeeps DEF Checkpoints
  <2>6. PressTypes'
    BY <1>1, <2>1, TuiSessionsAssumption DEF PressTypes
  <2>7. StreamTypes'
    BY <1>1, <2>1, <2>4, <2>5 DEF StreamTypes
  <2>8. ListTypes' /\ ChannelTypes' /\ CursorFits' /\ SidesFollow'
    BY <1>1, <2>1, <2>4, CursorStays, SelectionsStay DEF ListTypes, ChannelTypes
  <2> QED
    BY <2>6, <2>7, <2>8 DEF PanesInv
<1>8. CASE HandleTerminalMsgs
  <2>1. /\ UNCHANGED <<listed, printed, resumeAt, known, expanded, cursor, split, lastSide,
                       cache, prevSel, checked, asking, marks, presses, orphaned, hushed>>
        /\ pane' = [d \in Sides |->
               IF d = "left" \/ split
               THEN [pane[d] EXCEPT !.term = FeedAll(@, pane[d].sel, channel[d])]
               ELSE pane[d]]
        /\ channel' = [d \in Sides |-> <<>>]
    BY <1>8 DEF HandleTerminalMsgs
  <2>2. ASSUME NEW d \in Sides
        PROVE  pane'[d] \in PaneStates /\ pane'[d].sel = pane[d].sel /\ pane'[d].key = pane[d].key
    <3>1. pane[d] \in PaneStates /\ pane[d].term \in Parsers /\ channel[d] \in Seq(Messages)
      BY <1>2 DEF PaneStates
    <3>2. CASE d = "left" \/ split
      <4> DEFINE t == FeedAll(pane[d].term, pane[d].sel, channel[d])
      <4>1. t \in Parsers
        BY <3>1, FeedAllKeeps
      <4>2. pane'[d] = [pane[d] EXCEPT !.term = t]
        BY <2>1, <3>2
      <4> HIDE DEF t
      <4> QED
        BY <3>1, <4>1, <4>2 DEF PaneStates
    <3>3. CASE ~(d = "left" \/ split)
      BY <2>1, <3>1, <3>3
    <3> QED
      BY <3>2, <3>3
  <2>3. pane' \in [Sides -> PaneStates]
    BY <2>1, <2>2
  <2>4. channel' \in [Sides -> Seq(Messages)]
    <3>1. <<>> \in Seq(Messages)
      OBVIOUS
    <3> QED
      BY <2>1, <3>1
  <2>5. StreamTypes'
    BY <1>1, <2>1, <2>3 DEF StreamTypes
  <2>6. ListTypes' /\ PressTypes' /\ ChannelTypes' /\ CursorFits'
    BY <1>1, <2>1, <2>4, CursorStays DEF ListTypes, PressTypes, ChannelTypes
  <2>7. SidesFollow'
    BY <1>1, <2>1, <2>2, SelectionsStay
  <2> QED
    BY <2>5, <2>6, <2>7 DEF PanesInv
<1> QED
  BY <1>3, <1>4, <1>5, <1>6, <1>7, <1>8

\* A key that points a side at the row under the cursor.
LEMMA Pointed ==
  ASSUME PanesInv, NEW d \in Sides, NEW new \in Ids, UpdateSelection(d, new),
         UNCHANGED <<listed, printed, known, expanded, channel, checked, asking, marks,
                     orphaned, hushed>>,
         PressTypes', CursorFits', split' \in BOOLEAN, lastSide' \in Sides,
         split => split', d = "right" => split', lastSide' = "right" => split'
  PROVE  PanesInv'
<1>1. ListTypes /\ StreamTypes /\ ChannelTypes /\ SidesFollow
  BY DEF PanesInv
<1>2. /\ pane' \in [Sides -> PaneStates] /\ resumeAt' \in Checkpoints
      /\ cache' \in [TuiSessions -> Parsers \cup {<<>>}] /\ prevSel' \in Ids
      /\ \A e \in Sides: e # d => pane'[e] = pane[e]
      /\ pane'[d] = pane[d] \/ pane'[d].key = pane'[d].sel
  <2>1. prevSel \in Ids
    BY <1>1 DEF ListTypes
  <2> QED
    BY <1>1, <2>1, UpdateKeeps
<1>3. ListTypes'
  BY <1>1, <1>2 DEF ListTypes
<1>4. StreamTypes' /\ ChannelTypes'
  BY <1>1, <1>2 DEF StreamTypes, ChannelTypes, Checkpoints
<1>5. SidesFollow'
  <2>1. CASE d = "left"
    <3>1. pane'["right"] = pane["right"]
      BY <1>2, <2>1 DEF Sides
    <3>2. pane'["left"].key = pane'["left"].sel \/ orphaned'
      BY <1>1, <1>2, <2>1 DEF SidesFollow
    <3> QED
      BY <1>1, <3>1, <3>2 DEF SidesFollow
  <2>2. CASE d = "right"
    <3>1. pane'["left"] = pane["left"] /\ split'
      BY <1>2, <2>2 DEF Sides
    <3>2. pane'["right"].key = pane'["right"].sel
      BY <1>1, <1>2, <2>2 DEF SidesFollow
    <3> QED
      BY <1>1, <3>1, <3>2 DEF SidesFollow
  <2> QED
    BY <2>1, <2>2 DEF Sides
<1> QED
  BY <1>3, <1>4, <1>5 DEF PanesInv

LEMMA KeySteps ==
  ASSUME PanesInv,
         \/ MoveCursor \/ PreviousSession \/ FoldTree \/ ToggleSplit
         \/ \E d \in Sides: FocusPane(d)
         \/ ToggleCheck \/ AskKill \/ CancelKill
  PROVE  PanesInv'
<1>1. ListTypes /\ PressTypes /\ StreamTypes /\ ChannelTypes /\ CursorFits /\ SidesFollow
  BY DEF PanesInv
<1>2. /\ cursor \in Nat /\ (cursor = 0 \/ cursor < RowsOf(known))
      /\ known \in SUBSET TuiSessions /\ Cardinality(known) \in Nat
  BY <1>1, RowsAreFilled DEF CursorFits, ListTypes
<1>3. Press => PressTypes'
  BY <1>1, TuiSessionsAssumption DEF Press, PressTypes
<1>4. ASSUME NEW c \in Nat, c = 0 \/ c < RowsOf(known),
             cursor' = c, UNCHANGED <<known, expanded>>
      PROVE  CursorFits' /\ CurrentSession(known, c) \in Ids
  <2>1. CursorFits'
    BY <1>4 DEF CursorFits, RowsOf
  <2>2. CurrentSession(known, c) \in known \cup {Nobody}
    BY <1>2, <1>4, CursorNames
  <2> QED
    BY <1>2, <2>1, <2>2 DEF Ids
<1>5. CASE MoveCursor
  <2>1. PICK step \in {-1, 1}:
          LET c == Clamp(known, IF cursor + step < 0 THEN 0 ELSE cursor + step)
          IN  /\ cursor' = c
              /\ UpdateSelection(lastSide, CurrentSession(known, c))
    BY <1>5 DEF MoveCursor
  <2> DEFINE at == IF cursor + step < 0 THEN 0 ELSE cursor + step
             c == Clamp(known, at)
  <2>2. at \in Nat
    BY <1>2
  <2>3. cursor' = c /\ UpdateSelection(lastSide, CurrentSession(known, c))
    BY <2>1
  <2> HIDE DEF at
  <2>4. c \in Nat /\ (c = 0 \/ c < RowsOf(known))
    BY <1>2, <2>2, ClampFits
  <2> HIDE DEF c
  <2>5. /\ Press
        /\ UNCHANGED <<listed, printed, known, expanded, split, lastSide, channel, checked,
                       asking, marks, orphaned, hushed>>
    BY <1>5 DEF MoveCursor
  <2>6. CursorFits' /\ CurrentSession(known, c) \in Ids
    BY <1>4, <2>3, <2>4, <2>5
  <2>7. /\ lastSide \in Sides /\ (lastSide = "right" => split)
        /\ split' \in BOOLEAN /\ split' = split /\ lastSide' = lastSide
    BY <1>1, <2>5 DEF ListTypes, SidesFollow
  <2> QED
    BY <1>3, <2>3, <2>5, <2>6, <2>7, Pointed
<1>6. CASE PreviousSession
  <2> DEFINE c == SelectRow(known, prevSel, cursor)
  <2>1. /\ Press /\ cursor' = c /\ UpdateSelection(lastSide, CurrentSession(known, c))
        /\ UNCHANGED <<listed, printed, known, expanded, split, lastSide, channel, checked,
                       asking, marks, orphaned, hushed>>
    BY <1>6 DEF PreviousSession
  <2>2. c \in Nat /\ (c = 0 \/ c < RowsOf(known))
    BY <1>2, SelectFits
  <2> HIDE DEF c
  <2>3. CursorFits' /\ CurrentSession(known, c) \in Ids
    BY <1>4, <2>1, <2>2
  <2>4. /\ lastSide \in Sides /\ (lastSide = "right" => split)
        /\ split' \in BOOLEAN /\ split' = split /\ lastSide' = lastSide
    BY <1>1, <2>1 DEF ListTypes, SidesFollow
  <2> QED
    BY <1>3, <2>1, <2>3, <2>4, Pointed
<1>7. CASE ToggleSplit /\ ~split
  <2>1. /\ Press /\ split' = ~split /\ lastSide' = "right"
        /\ UpdateSelection("right", CurrentSession(known, cursor))
        /\ UNCHANGED <<listed, printed, known, expanded, cursor, channel, checked, asking,
                       marks, orphaned, hushed>>
    BY <1>7 DEF ToggleSplit
  <2>2. CursorFits' /\ CurrentSession(known, cursor) \in Ids
    BY <1>2, <1>4, <2>1
  <2>3. split' \in BOOLEAN /\ split'
    BY <1>7, <2>1
  <2>4. "right" \in Sides
    BY DEF Sides
  <2> QED
    BY <1>3, <2>1, <2>2, <2>3, <2>4, Pointed
<1>8. CASE ToggleSplit /\ split
  <2>1. /\ Press /\ split' = FALSE /\ lastSide' = "left"
        /\ resumeAt' = Checkpoint(pane, "right", resumeAt)
        /\ pane' = [pane EXCEPT !["right"] = Idle]
        /\ UNCHANGED <<listed, printed, known, expanded, cursor, channel, checked, asking,
                       marks, orphaned, hushed, cache, prevSel>>
    BY <1>8 DEF ToggleSplit
  <2>2. pane \in [Sides -> PaneStates] /\ resumeAt \in Checkpoints
    BY <1>1 DEF StreamTypes, Checkpoints
  <2>3. /\ pane' \in [Sides -> PaneStates] /\ pane'["right"] = Idle
        /\ pane'["left"] = pane["left"]
    BY <2>1, <2>2, BlankIsParser DEF Sides
  <2>4. resumeAt' \in Checkpoints
    BY <2>1, <2>2, CheckpointKeeps DEF Sides
  <2>5. StreamTypes'
    BY <1>1, <2>1, <2>3, <2>4 DEF StreamTypes, Checkpoints
  <2>6. SidesFollow'
    BY <1>1, <2>1, <2>3 DEF SidesFollow, Idle
  <2>7. ListTypes' /\ ChannelTypes' /\ CursorFits'
    BY <1>1, <2>1, CursorStays DEF ListTypes, ChannelTypes, Sides
  <2> QED
    BY <1>3, <2>1, <2>5, <2>6, <2>7 DEF PanesInv
<1>9. CASE FoldTree
  <2>1. /\ Press /\ expanded' = ~expanded
        /\ cursor' = (IF expanded THEN 0 ELSE cursor)
        /\ UNCHANGED <<listed, printed, resumeAt, known, pane, split, lastSide, cache, prevSel,
                       channel, checked, asking, marks, orphaned, hushed>>
    BY <1>9 DEF FoldTree
  <2>2. expanded \in BOOLEAN
    BY <1>1 DEF ListTypes
  <2>3. cursor' = 0
    BY <1>2, <2>1 DEF RowsOf
  <2>4. CursorFits'
    BY <2>3 DEF CursorFits
  <2>5. ListTypes' /\ StreamTypes' /\ ChannelTypes' /\ SidesFollow'
    BY <1>1, <2>1, <2>2 DEF ListTypes, StreamTypes, ChannelTypes, SidesFollow
  <2> QED
    BY <1>3, <2>1, <2>4, <2>5 DEF PanesInv
<1>10. ASSUME NEW d \in Sides, FocusPane(d)
       PROVE  PanesInv'
  <2>1. /\ Press /\ lastSide' = d /\ (d = "right" => split)
        /\ UNCHANGED <<listed, printed, resumeAt, known, expanded, cursor, pane, split, cache,
                       prevSel, channel, checked, asking, marks, orphaned, hushed>>
    BY <1>10 DEF FocusPane
  <2>2. ListTypes' /\ StreamTypes' /\ ChannelTypes' /\ SidesFollow' /\ CursorFits'
    BY <1>1, <1>10, <2>1, CursorStays DEF ListTypes, StreamTypes, ChannelTypes, SidesFollow
  <2> QED
    BY <1>3, <2>1, <2>2 DEF PanesInv
<1>11. CASE ToggleCheck
  <2> DEFINE s == CurrentSession(known, cursor)
  <2>1. /\ Press /\ known # {}
        /\ checked' = (IF s \in checked THEN checked \ {s} ELSE checked \cup {s})
        /\ UNCHANGED <<listed, printed, resumeAt, known, expanded, cursor, pane, split,
                       lastSide, cache, prevSel, channel, asking, marks, orphaned, hushed>>
    BY <1>11 DEF ToggleCheck
  <2>2. s \in known
    BY <1>2, <2>1, CursorNames
  <2> HIDE DEF s
  <2>3. ListTypes'
    BY <1>1, <2>1, <2>2 DEF ListTypes
  <2>4. StreamTypes' /\ ChannelTypes' /\ SidesFollow' /\ CursorFits'
    BY <1>1, <2>1, CursorStays DEF StreamTypes, ChannelTypes, SidesFollow
  <2> QED
    BY <1>3, <2>1, <2>3, <2>4 DEF PanesInv
<1>12. CASE AskKill \/ CancelKill
  <2>1. /\ UNCHANGED <<listed, printed, resumeAt, known, expanded, cursor, pane, split,
                       lastSide, cache, prevSel, channel, checked, marks, orphaned, hushed>>
        /\ asking' \subseteq known /\ (Press \/ presses' = presses)
    BY <1>12 DEF AskKill, CancelKill
  <2>2. PressTypes'
    BY <1>1, <1>3, <2>1 DEF PressTypes
  <2>3. ListTypes'
    BY <1>1, <2>1 DEF ListTypes
  <2>4. StreamTypes' /\ ChannelTypes' /\ SidesFollow' /\ CursorFits'
    BY <1>1, <2>1, CursorStays DEF StreamTypes, ChannelTypes, SidesFollow
  <2> QED
    BY <2>2, <2>3, <2>4 DEF PanesInv
<1> QED
  BY <1>5, <1>6, <1>7, <1>8, <1>9, <1>10, <1>11, <1>12

\* A refresh of panes that follow their selections.
LEMMA Refreshed ==
  ASSUME PanesInv, NEW p \in [Sides -> PaneStates], NEW S \in SUBSET TuiSessions,
         RefreshSessions(p, resumeAt, cursor, S),
         UNCHANGED <<printed, expanded, split, lastSide, cache, prevSel, channel>>,
         listed' \subseteq TuiSessions, asking' \subseteq TuiSessions,
         marks' \subseteq TuiSessions, PressTypes',
         orphaned' \in BOOLEAN, hushed' \in BOOLEAN,
         p["right"] = pane["right"], p["left"].key = p["left"].sel \/ orphaned'
  PROVE  PanesInv'
<1>1. ListTypes /\ StreamTypes /\ ChannelTypes /\ CursorFits /\ SidesFollow
  BY DEF PanesInv
<1>2. resumeAt \in Checkpoints /\ cursor \in Nat
  BY <1>1 DEF StreamTypes, Checkpoints, CursorFits
<1>3. /\ pane' \in [Sides -> PaneStates] /\ resumeAt' \in Checkpoints
      /\ \A d \in Sides: pane'[d] = p[d] \/ pane'[d] = Idle
      /\ known' = S /\ checked' \subseteq S
      /\ cursor' \in Nat /\ (cursor' = 0 \/ cursor' < RowsOf(S))
  BY <1>2, RefreshKeeps
<1>4. ListTypes'
  BY <1>1, <1>3 DEF ListTypes
<1>5. StreamTypes' /\ ChannelTypes'
  BY <1>1, <1>3 DEF StreamTypes, ChannelTypes, Checkpoints
<1>6. CursorFits'
  BY <1>3 DEF CursorFits, RowsOf
<1>7. SidesFollow'
  <2>1. /\ pane'["right"] = pane["right"] \/ pane'["right"] = Idle
        /\ pane'["left"] = p["left"] \/ pane'["left"] = Idle
    BY <1>3 DEF Sides
  <2>2. Idle.key = Idle.sel /\ Idle.sel = Nobody
    BY DEF Idle
  <2> QED
    BY <1>1, <2>1, <2>2 DEF SidesFollow
<1> QED
  BY <1>4, <1>5, <1>6, <1>7 DEF PanesInv

LEMMA RefreshSteps ==
  ASSUME PanesInv,
         ExecuteKill \/ Refresh \/ \E s \in TuiSessions: CrashEvent(s)
  PROVE  PanesInv'
<1>1. ListTypes /\ PressTypes /\ StreamTypes /\ SidesFollow
  BY DEF PanesInv
<1>2. /\ pane \in [Sides -> PaneStates] /\ listed \subseteq TuiSessions
      /\ asking \subseteq TuiSessions /\ marks \subseteq TuiSessions
      /\ orphaned \in BOOLEAN /\ hushed \in BOOLEAN
      /\ pane["left"].key = pane["left"].sel \/ orphaned
  BY <1>1 DEF StreamTypes, ListTypes, SidesFollow
<1>3. CASE Refresh
  <2>1. PICK S \in Lists(listed): RefreshSessions(pane, resumeAt, cursor, S)
    BY <1>3 DEF Refresh
  <2>2. S \in SUBSET TuiSessions
    BY <1>2, <2>1 DEF Lists
  <2>3. UNCHANGED <<listed, printed, expanded, split, lastSide, cache, prevSel, channel,
                    asking, marks, presses, orphaned, hushed>>
    BY <1>3 DEF Refresh
  <2>4. PressTypes'
    BY <1>1, <2>3 DEF PressTypes
  <2> QED
    BY <1>2, <2>1, <2>2, <2>3, <2>4, Refreshed
<1>4. ASSUME NEW s \in TuiSessions, CrashEvent(s)
      PROVE  PanesInv'
  <2>1. /\ presses < MaxKeyPresses /\ presses' = presses + 1
        /\ hushed' = (hushed \/ (s \in listed /\ s \in marks))
        /\ marks' = marks \ {s}
        /\ UNCHANGED <<listed, printed, expanded, split, lastSide, cache, prevSel, channel,
                       asking, orphaned>>
    BY <1>4 DEF CrashEvent
  <2>2. PICK S \in Lists(listed): RefreshSessions(pane, resumeAt, cursor, S)
    BY <1>4 DEF CrashEvent
  <2>3. S \in SUBSET TuiSessions
    BY <1>2, <2>2 DEF Lists
  <2>4. PressTypes'
    BY <1>1, <2>1, TuiSessionsAssumption DEF PressTypes
  <2>5. hushed' \in BOOLEAN /\ marks' \subseteq TuiSessions
    BY <1>2, <2>1
  <2> QED
    BY <1>2, <2>1, <2>2, <2>3, <2>4, <2>5, Refreshed
<1>5. CASE ExecuteKill
  <2> DEFINE displays == pane["left"].sel \in asking
             r == [pane["left"] EXCEPT !.sel = Nobody, !.term = Blank]
             p == IF displays THEN [pane EXCEPT !["left"].sel = Nobody, !["left"].term = Blank]
                  ELSE pane
  <2>1. /\ asking' = {} /\ marks' = marks \cup asking
        /\ orphaned' = (orphaned \/ displays)
        /\ UNCHANGED <<printed, expanded, split, lastSide, cache, prevSel, channel, presses,
                       hushed>>
        /\ \E gone \in SUBSET (asking \cap listed):
             /\ listed' = listed \ gone
             /\ \E S \in Lists(listed \ gone): RefreshSessions(p, resumeAt, cursor, S)
    BY <1>5 DEF ExecuteKill
  <2>2. r \in PaneStates
    <3>1. pane["left"] \in PaneStates
      BY <1>2 DEF Sides
    <3> QED
      BY <3>1, BlankIsParser DEF PaneStates, Ids
  <2>3. /\ p \in [Sides -> PaneStates] /\ p["right"] = pane["right"]
        /\ p["left"].key = p["left"].sel \/ orphaned'
    <3>1. CASE displays
      <4>1. p = [pane EXCEPT !["left"] = r]
        BY <1>2, <3>1
      <4>2. orphaned'
        BY <2>1, <3>1
      <4> HIDE DEF r, p, displays
      <4>3. p \in [Sides -> PaneStates] /\ p["right"] = pane["right"]
        BY <1>2, <2>2, <4>1 DEF Sides
      <4>4. p["left"].key = p["left"].sel \/ orphaned'
        BY <4>2
      <4> QED
        BY <4>3, <4>4
    <3>2. CASE ~displays
      <4>1. p = pane
        BY <3>2
      <4> HIDE DEF p, displays
      <4> QED
        BY <1>2, <2>1, <4>1
    <3> QED
      BY <3>1, <3>2
  <2> HIDE DEF p
  <2>4. PICK gone \in SUBSET (asking \cap listed):
          /\ listed' = listed \ gone
          /\ \E S \in Lists(listed \ gone): RefreshSessions(p, resumeAt, cursor, S)
    BY <2>1
  <2>5. PICK S \in Lists(listed \ gone): RefreshSessions(p, resumeAt, cursor, S)
    BY <2>4
  <2>6. S \in SUBSET TuiSessions /\ listed' \subseteq TuiSessions
    BY <1>2, <2>4, <2>5 DEF Lists
  <2>7. PressTypes'
    BY <1>1, <2>1 DEF PressTypes
  <2>8. orphaned' \in BOOLEAN /\ hushed' \in BOOLEAN /\ marks' \subseteq TuiSessions
        /\ asking' \subseteq TuiSessions
    BY <1>2, <2>1
  <2> QED
    BY <2>1, <2>3, <2>5, <2>6, <2>7, <2>8, Refreshed
<1> QED
  BY <1>3, <1>4, <1>5

LEMMA PanesStart == TuiInit => PanesInv
<1> SUFFICES ASSUME TuiInit PROVE PanesInv
  OBVIOUS
<1> DEFINE first == SessionOf(TuiSessions, 1)
           r == [Idle EXCEPT !.sel = first, !.key = first, !.task = "dialing"]
<1>1. /\ listed = TuiSessions /\ known = TuiSessions
      /\ printed = [s \in TuiSessions |-> 0] /\ resumeAt = [s \in TuiSessions |-> -1]
      /\ expanded = TRUE /\ cursor = Clamp(TuiSessions, 1)
      /\ pane = [d \in Sides |-> IF d = "left" /\ TuiSessions # {} THEN r ELSE Idle]
      /\ split = FALSE /\ lastSide = "left" /\ cache = [s \in TuiSessions |-> <<>>]
      /\ prevSel = Nobody /\ channel = [d \in Sides |-> <<>>]
      /\ checked = {} /\ asking = {} /\ marks = {} /\ presses = 0
      /\ orphaned = FALSE /\ hushed = FALSE
  BY DEF TuiInit
<1>2. TuiSessions # {} => first \in TuiSessions
  <2> SUFFICES ASSUME TuiSessions # {} PROVE first \in TuiSessions
    OBVIOUS
  <2>1. /\ IsFiniteSet(TuiSessions) /\ Cardinality(TuiSessions) \in Nat
        /\ \A rowNo \in 1..Cardinality(TuiSessions): SessionOf(TuiSessions, rowNo) \in TuiSessions
    BY RowsAreFilled
  <2>2. 1 \in 1..Cardinality(TuiSessions)
    BY <2>1, FS_EmptySet
  <2> QED
    BY <2>1, <2>2
<1>3. TuiSessions # {} => r \in PaneStates
  BY <1>2, BlankIsParser DEF PaneStates, StreamTasks, Ids
<1>4. r.key = r.sel /\ Idle.key = Idle.sel /\ Idle.sel = Nobody
  BY DEF Idle
<1> HIDE DEF r
<1>5. pane \in [Sides -> PaneStates]
  BY <1>1, <1>3, BlankIsParser
<1>6. SidesFollow
  BY <1>1, <1>4 DEF SidesFollow, Sides
<1>7. StreamTypes
  <2>1. printed \in [TuiSessions -> 0 .. MaxOut] /\ resumeAt \in [TuiSessions -> -1 .. MaxOut]
    BY <1>1, TuiSessionsAssumption
  <2>2. cache \in [TuiSessions -> Parsers \cup {<<>>}]
    BY <1>1
  <2> QED
    BY <1>5, <2>1, <2>2 DEF StreamTypes
<1>8. ChannelTypes
  <2>1. <<>> \in Seq(Messages)
    OBVIOUS
  <2> QED
    BY <1>1, <2>1 DEF ChannelTypes
<1>9. CursorFits
  BY <1>1, ClampFits DEF CursorFits
<1>10. ListTypes
  BY <1>1 DEF ListTypes, Sides, Ids
<1>11. PressTypes
  BY <1>1, TuiSessionsAssumption DEF PressTypes
<1> QED
  BY <1>6, <1>7, <1>8, <1>9, <1>10, <1>11 DEF PanesInv

LEMMA PanesSteps ==
  ASSUME PanesInv, [TuiNext]_paneVars
  PROVE  PanesInv'
<1>1. CASE UNCHANGED paneVars
  <2>1. ListTypes /\ PressTypes /\ StreamTypes /\ ChannelTypes /\ CursorFits /\ SidesFollow
    BY DEF PanesInv
  <2>2. ListTypes' /\ PressTypes' /\ ChannelTypes' /\ CursorFits' /\ SidesFollow'
    BY <1>1, <2>1, CursorStays DEF paneVars, ListTypes, PressTypes, ChannelTypes, SidesFollow
  <2>3. StreamTypes'
    BY <1>1, <2>1 DEF paneVars, StreamTypes
  <2> QED
    BY <2>2, <2>3 DEF PanesInv
<1> QED
  BY <1>1, StreamSteps, KeySteps, RefreshSteps DEF TuiNext

-------------------------------------------------------------------------------
(* TuiForms: forms that work in the background.                              *)

\* While the form is the overlay it is there; a busy one is awaited.
FormInv ==
  /\ overlay \in {"none", "form", "palette", "hosts"}
  /\ IF overlay = "form" THEN form \in FormStates ELSE form = <<>>
  /\ activeOp \in 0 .. MaxOps /\ nextOp \in 0 .. MaxOps
  /\ running \subseteq Tasks
  /\ results \in Seq(Results)
  /\ hostVersion \in [FormHosts -> 0 .. MaxEdits]
  /\ report \in [FormHosts -> Reports \cup {<<>>}]
  /\ created \subseteq 1 .. MaxOps
  /\ formsOpened \in 0 .. MaxForms
  /\ scribbled \in BOOLEAN
  /\ FrozenFormIsAwaited

\* What only the server and the cache know.
HostsOk ==
  /\ hostVersion \in [FormHosts -> 0 .. MaxEdits]
  /\ report \in [FormHosts -> Reports \cup {<<>>}]

\* The form, the overlay it is, and the operation it waits for.
FormOk ==
  /\ overlay \in {"none", "form", "palette", "hosts"}
  /\ IF overlay = "form" THEN form \in FormStates ELSE form = <<>>
  /\ activeOp \in 0 .. MaxOps /\ nextOp \in 0 .. MaxOps
  /\ formsOpened \in 0 .. MaxForms

WorkOk ==
  /\ running \subseteq Tasks
  /\ results \in Seq(Results)
  /\ created \subseteq 1 .. MaxOps
  /\ scribbled \in BOOLEAN

LEMMA FormParts ==
  FormInv <=> FormOk /\ WorkOk /\ HostsOk /\ FrozenFormIsAwaited
BY DEF FormInv, FormOk, WorkOk, HostsOk

LEMMA FormParts2 ==
  FormInv' <=> FormOk' /\ WorkOk' /\ HostsOk' /\ FrozenFormIsAwaited'
BY DEF FormInv, FormOk, WorkOk, HostsOk

\* A record is no empty sequence.
LEMMA FormIsThere == \A f \in FormStates: f # <<>>
<1> SUFFICES ASSUME NEW f \in FormStates, f = <<>> PROVE FALSE
  OBVIOUS
<1>1. DOMAIN f = {"number", "host", "dirBy", "busy", "op"}
  BY DEF FormStates
<1>2. DOMAIN <<>> = {}
  OBVIOUS
<1> QED
  BY <1>1, <1>2

LEMMA FormSafe == FormInv => FormTypeOK /\ FrozenFormIsAwaited
BY FormIsThere, Zenon DEF FormInv, FormTypeOK

LEMMA FormStarts == FormInit => FormInv
<1> SUFFICES ASSUME FormInit PROVE FormInv
  OBVIOUS
<1>1. 0 \in 0 .. MaxOps /\ 0 \in 0 .. MaxForms /\ 0 \in 0 .. MaxEdits
  BY FormAssumption
<1>2. <<>> \in Seq(Results)
  OBVIOUS
<1>3. FormOk /\ WorkOk /\ FrozenFormIsAwaited
  BY <1>1, <1>2 DEF FormInit, FormOk, WorkOk, FrozenFormIsAwaited, NoOp
<1>4. HostsOk
  BY <1>1 DEF FormInit, HostsOk
<1> QED
  BY <1>3, <1>4, FormParts

\* An operation begins: the form waits for it and it is at work.
LEMMA Begins ==
  ASSUME FormOk, WorkOk, NEW f \in FormStates, NEW kind \in Kinds, Begin(f, kind),
         overlay' = "form", formsOpened' \in 0 .. MaxForms,
         UNCHANGED <<results, created, scribbled>>
  PROVE  FormOk' /\ WorkOk' /\ FrozenFormIsAwaited'
<1>1. nextOp + 1 \in 1 .. MaxOps /\ nextOp + 1 \in 0 .. MaxOps
  BY FormAssumption DEF FormOk, Begin
<1> DEFINE n == nextOp + 1
           t == [op |-> n, kind |-> kind, host |-> f.host]
<1>2. t \in Tasks
  BY <1>1 DEF Tasks, FormStates
<1>3. form' = [f EXCEPT !.busy = TRUE, !.op = n] /\ activeOp' = n /\ nextOp' = n
      /\ running' = running \cup {t}
  BY DEF Begin
<1>4. t.op = n
  OBVIOUS
<1> HIDE DEF t, n
<1>5. n \in 1 .. MaxOps /\ n \in 0 .. MaxOps
  BY <1>1 DEF n
<1>6. form' \in FormStates /\ form'.op = n
  BY <1>3, <1>5 DEF FormStates
<1>7. FormOk'
  BY <1>3, <1>5, <1>6 DEF FormOk
<1>8. WorkOk'
  BY <1>2, <1>3 DEF WorkOk
<1>9. FrozenFormIsAwaited'
  BY <1>3, <1>4, <1>6 DEF FrozenFormIsAwaited
<1> QED
  BY <1>7, <1>8, <1>9

LEMMA Submits ==
  ASSUME FormInv, OpenForm \/ CycleHost \/ Submit
  PROVE  FormInv'
<1>1. FormOk /\ WorkOk /\ HostsOk
  BY FormParts
<1>2. HostsOk'
  BY <1>1 DEF OpenForm, CycleHost, Submit, HostsOk
<1>3. CASE OpenForm
  <2> DEFINE fresh == [number |-> formsOpened + 1, host |-> Local, dirBy |-> 0,
                       busy |-> FALSE, op |-> NoOp]
  <2>1. formsOpened' = formsOpened + 1 /\ formsOpened' \in 1 .. MaxForms
        /\ formsOpened' \in 0 .. MaxForms
    BY <1>1, <1>3, FormAssumption DEF OpenForm, FormOk
  <2>2. fresh \in FormStates /\ ~fresh.busy
    BY <2>1, FormAssumption DEF FormStates, NoOp
  <2>3. overlay' = "form" /\ UNCHANGED <<results, created, scribbled>>
        /\ \/ form' = fresh /\ UNCHANGED <<activeOp, nextOp, running>>
           \/ Begin(fresh, "home")
    BY <1>3 DEF OpenForm
  <2> HIDE DEF fresh
  <2>4. CASE Begin(fresh, "home")
    BY <1>1, <1>2, <2>1, <2>2, <2>3, <2>4, Begins, FormParts2 DEF Kinds
  <2>5. CASE form' = fresh /\ UNCHANGED <<activeOp, nextOp, running>>
    <3>1. FormOk'
      BY <1>1, <2>1, <2>2, <2>3, <2>5 DEF FormOk
    <3>2. WorkOk'
      BY <1>1, <2>3, <2>5 DEF WorkOk
    <3>3. FrozenFormIsAwaited'
      BY <2>2, <2>5 DEF FrozenFormIsAwaited
    <3> QED
      BY <1>2, <3>1, <3>2, <3>3, FormParts2
  <2> QED
    BY <2>3, <2>4, <2>5
<1>4. CASE CycleHost
  <2>1. form \in FormStates
    BY <1>1, <1>4 DEF FormOk, CycleHost
  <2>2. PICK h \in FormHosts \cup {Local}: Begin([form EXCEPT !.host = h], "prepare")
    BY <1>4 DEF CycleHost
  <2>3. [form EXCEPT !.host = h] \in FormStates
    BY <2>1 DEF FormStates
  <2>4. overlay' = "form" /\ formsOpened' \in 0 .. MaxForms
        /\ UNCHANGED <<results, created, scribbled>>
    BY <1>1, <1>4 DEF FormOk, CycleHost
  <2> QED
    BY <1>1, <1>2, <2>2, <2>3, <2>4, Begins, FormParts2 DEF Kinds
<1>5. CASE Submit
  <2>1. form \in FormStates /\ Begin(form, "create")
        /\ overlay' = "form" /\ formsOpened' \in 0 .. MaxForms
        /\ UNCHANGED <<results, created, scribbled>>
    BY <1>1, <1>5 DEF FormOk, Submit
  <2> QED
    BY <1>1, <1>2, <2>1, Begins, FormParts2 DEF Kinds
<1> QED
  BY <1>3, <1>4, <1>5

\* An answer joins the results.
LEMMA Answers ==
  ASSUME FormInv, TaskAnswers
  PROVE  FormInv'
<1>1. FormOk /\ WorkOk /\ HostsOk /\ FrozenFormIsAwaited
  BY FormParts
<1>2. PICK t \in running, ok \in BOOLEAN, ready \in BOOLEAN:
        /\ running' = running \ {t}
        /\ results' = Append(results,
              [task |-> t, ok |-> ok,
               report |-> IF t.kind = "prepare" /\ t.host # Local
                          THEN [version |-> hostVersion[t.host], ok |-> ready]
                          ELSE <<>>])
  BY DEF TaskAnswers
<1> DEFINE m == IF t.kind = "prepare" /\ t.host # Local
                THEN [version |-> hostVersion[t.host], ok |-> ready] ELSE <<>>
           r == [task |-> t, ok |-> ok, report |-> m]
<1>3. t \in Tasks
  BY <1>1, <1>2 DEF WorkOk
<1>4. m \in Reports \cup {<<>>}
  <2>1. CASE t.kind = "prepare" /\ t.host # Local
    <3>1. t.host \in FormHosts
      BY <1>3, <2>1 DEF Tasks
    <3>2. hostVersion[t.host] \in 0 .. MaxEdits
      BY <1>1, <3>1 DEF HostsOk
    <3> QED
      BY <2>1, <3>2 DEF Reports
  <2> QED
    BY <2>1
<1> HIDE DEF m
<1>5. r \in Results /\ r.task = t
  BY <1>3, <1>4 DEF Results
<1>6. results' = Append(results, r)
  BY <1>2 DEF m
<1> HIDE DEF r
<1>7. /\ results' \in Seq(Results) /\ Len(results') = Len(results) + 1
      /\ results'[Len(results')] = r /\ Len(results) \in Nat
      /\ \A i \in 1 .. Len(results): results'[i] = results[i]
  BY <1>1, <1>5, <1>6 DEF WorkOk
<1>8. UNCHANGED <<overlay, form, activeOp, nextOp, hostVersion, report, created,
                  formsOpened, scribbled>>
  BY DEF TaskAnswers
<1>9. FormOk' /\ HostsOk'
  BY <1>1, <1>8 DEF FormOk, HostsOk
<1>10. WorkOk'
  BY <1>1, <1>2, <1>7, <1>8 DEF WorkOk
<1>11. FrozenFormIsAwaited'
  <2> SUFFICES ASSUME overlay = "form", form.busy
               PROVE  \/ \E u \in running': u.op = form.op
                      \/ \E i \in 1 .. Len(results'): results'[i].task.op = form.op
    BY <1>1, <1>8 DEF FrozenFormIsAwaited
  <2>1. CASE t.op = form.op
    <3>1. Len(results') \in 1 .. Len(results')
      BY <1>7
    <3> QED
      BY <1>5, <1>7, <2>1, <3>1
  <2>2. CASE \E u \in running: u.op = form.op /\ u # t
    BY <1>2, <2>2
  <2>3. CASE \E i \in 1 .. Len(results): results[i].task.op = form.op
    <3>1. PICK i \in 1 .. Len(results): results[i].task.op = form.op
      BY <2>3
    <3>2. i \in 1 .. Len(results') /\ results'[i] = results[i]
      BY <1>7
    <3> QED
      BY <3>1, <3>2
  <2> QED
    BY <1>1, <2>1, <2>2, <2>3 DEF FrozenFormIsAwaited
<1> QED
  BY <1>9, <1>10, <1>11, FormParts2

\* A result is applied: to the form that waits for it, or to none.
LEMMA Applies ==
  ASSUME FormInv, ApplyResult
  PROVE  FormInv'
<1>1. FormOk /\ WorkOk /\ HostsOk /\ FrozenFormIsAwaited
  BY FormParts
<1> DEFINE r == Head(results)
           won == r.task.kind = "create" /\ r.ok
<1>2. /\ results # <<>> /\ results' = Tail(results)
      /\ activeOp' = IF r.task.op = activeOp THEN NoOp ELSE activeOp
      /\ report' = IF r.report # <<>>
                   THEN [report EXCEPT ![r.task.host] = r.report] ELSE report
      /\ created' = IF r.task.kind = "create" /\ r.ok
                    THEN created \cup {r.task.op} ELSE created
      /\ overlay' = IF r.task.op = activeOp /\ r.task.kind = "create" /\ r.ok
                    THEN "none" ELSE overlay
      /\ form' = IF Answered(r) /\ r.task.kind = "create" /\ r.ok
                 THEN <<>> ELSE Thawed(r)
      /\ scribbled' = (scribbled \/ (Answered(r) /\ form.op # r.task.op))
      /\ UNCHANGED <<nextOp, running, hostVersion, formsOpened>>
  BY DEF ApplyResult
<1>3. /\ results \in Seq(Results) /\ r \in Results /\ r = results[1]
      /\ results' \in Seq(Results) /\ Len(results) \in Nat \ {0}
      /\ Len(results') = Len(results) - 1
      /\ \A i \in 1 .. Len(results'): results'[i] = results[i + 1]
  BY <1>1, <1>2, HeadTailProperties DEF WorkOk
<1> HIDE DEF r
<1>4. r.task \in Tasks /\ r.ok \in BOOLEAN /\ r.report \in Reports \cup {<<>>}
  BY <1>3 DEF Results
<1>5. r.task.op \in 1 .. MaxOps /\ r.task.op \in 0 .. MaxOps
  BY <1>4, FormAssumption DEF Tasks
<1>6. HostsOk'
  <2>1. r.report # <<>> => r.report \in Reports
    BY <1>4
  <2>2. report' \in [FormHosts -> Reports \cup {<<>>}]
    BY <1>1, <1>2, <2>1 DEF HostsOk
  <2> QED
    BY <1>1, <1>2, <2>2 DEF HostsOk
<1>7. WorkOk'
  <2>1. created' \subseteq 1 .. MaxOps
    BY <1>1, <1>2, <1>5 DEF WorkOk
  <2>2. scribbled' \in BOOLEAN
    BY <1>1, <1>2, Zenon DEF WorkOk
  <2> QED
    BY <1>1, <1>2, <1>3, <2>1, <2>2 DEF WorkOk
<1>8. activeOp' \in 0 .. MaxOps
  BY <1>1, <1>2, FormAssumption DEF FormOk, NoOp
<1>9. CASE Answered(r)
  <2>1. overlay = "form" /\ r.task.op = activeOp /\ form \in FormStates
    BY <1>1, <1>9 DEF Answered, FormOk
  <2>2. CASE r.task.kind = "create" /\ r.ok
    <3>1. overlay' = "none" /\ form' = <<>>
      BY <1>2, <1>9, <2>1, <2>2
    <3> QED
      BY <1>1, <1>2, <1>6, <1>7, <1>8, <3>1, FormParts2 DEF FormOk, FrozenFormIsAwaited
  <2>3. CASE ~(r.task.kind = "create" /\ r.ok)
    <3>1. form' = [form EXCEPT !.busy = FALSE,
                               !.dirBy = IF r.ok /\ r.task.kind # "create"
                                         THEN r.task.op ELSE @]
      BY <1>2, <1>9, <2>3 DEF Thawed
    <3>2. form.dirBy \in 0 .. MaxOps
      BY <2>1 DEF FormStates
    <3>3. form' \in FormStates /\ ~form'.busy
      BY <1>5, <2>1, <3>1, <3>2 DEF FormStates
    <3>4. overlay' = overlay
      BY <1>2, <2>3
    <3> QED
      BY <1>1, <1>2, <1>6, <1>7, <1>8, <2>1, <3>3, <3>4, FormParts2
      DEF FormOk, FrozenFormIsAwaited
  <2> QED
    BY <2>2, <2>3
<1>10. CASE ~Answered(r)
  <2>1. form' = form
    BY <1>2, <1>10 DEF Thawed
  <2>2. CASE overlay # "form"
    <3>1. overlay' # "form" /\ overlay' \in {"none", "form", "palette", "hosts"}
          /\ form' = <<>>
      BY <1>1, <1>2, <2>1, <2>2 DEF FormOk
    <3> QED
      BY <1>1, <1>2, <1>6, <1>7, <1>8, <3>1, FormParts2 DEF FormOk, FrozenFormIsAwaited
  <2>3. CASE overlay = "form"
    <3>1. r.task.op # activeOp /\ overlay' = overlay /\ activeOp' = activeOp
      BY <1>2, <1>10, <2>3 DEF Answered
    <3>2. FrozenFormIsAwaited'
      <4> SUFFICES ASSUME form.busy
                   PROVE  /\ activeOp = form.op
                          /\ \/ \E u \in running: u.op = form.op
                             \/ \E i \in 1 .. Len(results'):
                                  results'[i].task.op = form.op
        BY <1>2, <2>1, <3>1 DEF FrozenFormIsAwaited
      <4>1. activeOp = form.op
        BY <1>1, <2>3 DEF FrozenFormIsAwaited
      <4>2. CASE \E i \in 1 .. Len(results): results[i].task.op = form.op
        <5>1. PICK i \in 1 .. Len(results): results[i].task.op = form.op
          BY <4>2
        <5>2. i # 1
          BY <1>3, <3>1, <4>1, <5>1
        <5>3. i - 1 \in 1 .. Len(results') /\ (i - 1) + 1 = i
          BY <1>3, <5>2
        <5>4. results'[i - 1] = results[i]
          BY <1>3, <5>3
        <5> QED
          BY <4>1, <5>1, <5>3, <5>4
      <4> QED
        BY <1>1, <2>3, <4>1, <4>2 DEF FrozenFormIsAwaited
    <3> QED
      BY <1>1, <1>2, <1>6, <1>7, <1>8, <2>1, <3>1, <3>2, FormParts2 DEF FormOk
  <2> QED
    BY <2>2, <2>3
<1> QED
  BY <1>9, <1>10

LEMMA FormSteps ==
  ASSUME FormInv, [FormNext]_formVars
  PROVE  FormInv'
<1>1. FormOk /\ WorkOk /\ HostsOk /\ FrozenFormIsAwaited
  BY FormParts
<1>2. CASE OpenOther \/ HideForm \/ CloseOverlay
  <2>1. overlay' # "form" /\ overlay' \in {"none", "palette", "hosts"}
    BY <1>2 DEF OpenOther, HideForm, CloseOverlay
  <2>2. form' = <<>>
    BY <1>1, <1>2 DEF OpenOther, HideForm, CloseOverlay, FormOk
  <2>3. activeOp' \in 0 .. MaxOps
    BY <1>1, <1>2, FormAssumption DEF OpenOther, HideForm, CloseOverlay, FormOk, NoOp
  <2>4. UNCHANGED <<nextOp, running, results, hostVersion, report, created, formsOpened,
                    scribbled>>
    BY <1>2 DEF OpenOther, HideForm, CloseOverlay
  <2>5. FormOk' /\ FrozenFormIsAwaited'
    BY <1>1, <2>1, <2>2, <2>3, <2>4 DEF FormOk, FrozenFormIsAwaited
  <2>6. WorkOk' /\ HostsOk'
    BY <1>1, <2>4 DEF WorkOk, HostsOk
  <2> QED
    BY <2>5, <2>6, FormParts2
<1>3. CASE EditDir
  <2>1. form \in FormStates /\ ~form.busy /\ form' = [form EXCEPT !.dirBy = 0]
    BY <1>1, <1>3 DEF EditDir, FormOk
  <2>2. form' \in FormStates /\ ~form'.busy
    BY <2>1, FormAssumption DEF FormStates
  <2> QED
    BY <1>1, <1>3, <2>2, FormParts2
    DEF EditDir, FormOk, WorkOk, HostsOk, FrozenFormIsAwaited
<1>4. CASE CheckHost \/ ProvisionHost \/ EditHost \/ ReportExpires
  <2>1. HostsOk'
    <3>1. CASE CheckHost
      <4>1. PICK h \in FormHosts, ready \in BOOLEAN:
              report' = [report EXCEPT ![h] = [version |-> hostVersion[h], ok |-> ready]]
        BY <3>1 DEF CheckHost
      <4>2. [version |-> hostVersion[h], ok |-> ready] \in Reports
        BY <1>1 DEF HostsOk, Reports
      <4> QED
        BY <1>1, <3>1, <4>1, <4>2 DEF CheckHost, HostsOk
    <3>2. CASE ProvisionHost
      <4>1. PICK h \in FormHosts, ready \in BOOLEAN:
              /\ hostVersion[h] < MaxEdits
              /\ hostVersion' = [hostVersion EXCEPT ![h] = @ + 1]
              /\ report' = [report EXCEPT ![h] =
                              [version |-> hostVersion[h] + 1, ok |-> ready]]
        BY <3>2 DEF ProvisionHost
      <4>2. hostVersion[h] + 1 \in 0 .. MaxEdits
        BY <1>1, <4>1, FormAssumption DEF HostsOk
      <4>3. [version |-> hostVersion[h] + 1, ok |-> ready] \in Reports
        BY <4>2 DEF Reports
      <4> QED
        BY <1>1, <4>1, <4>2, <4>3 DEF HostsOk
    <3>3. CASE EditHost
      <4>1. PICK h \in FormHosts:
              /\ hostVersion[h] < MaxEdits
              /\ hostVersion' = [hostVersion EXCEPT ![h] = @ + 1]
              /\ report' = [report EXCEPT ![h] = <<>>]
        BY <3>3 DEF EditHost
      <4>2. hostVersion[h] + 1 \in 0 .. MaxEdits
        BY <1>1, <4>1, FormAssumption DEF HostsOk
      <4> QED
        BY <1>1, <4>1, <4>2 DEF HostsOk
    <3>4. CASE ReportExpires
      <4>1. PICK h \in FormHosts: report' = [report EXCEPT ![h] = <<>>]
        BY <3>4 DEF ReportExpires
      <4> QED
        BY <1>1, <3>4, <4>1 DEF HostsOk, ReportExpires
    <3> QED
      BY <1>4, <3>1, <3>2, <3>3, <3>4
  <2>2. UNCHANGED <<overlay, form, activeOp, nextOp, running, results, created,
                    formsOpened, scribbled>>
    BY <1>4 DEF CheckHost, ProvisionHost, EditHost, ReportExpires
  <2>3. FormOk' /\ WorkOk' /\ FrozenFormIsAwaited'
    BY <1>1, <2>2 DEF FormOk, WorkOk, FrozenFormIsAwaited
  <2> QED
    BY <2>1, <2>3, FormParts2
<1>5. CASE UNCHANGED formVars
  <2>1. FormOk' /\ WorkOk' /\ HostsOk' /\ FrozenFormIsAwaited'
    BY <1>1, <1>5 DEF formVars, FormOk, WorkOk, HostsOk, FrozenFormIsAwaited
  <2> QED
    BY <2>1, FormParts2
<1> QED
  BY <1>2, <1>3, <1>4, <1>5, Submits, Answers, Applies DEF FormNext

-------------------------------------------------------------------------------
(* TuiLayout: what is open, and where the keyboard is.                       *)

\* What waits to be served is the directory of the selection there is.
PendingIsSelected == pending # NoDir /\ leftDir # NoDir => pending = leftDir

LayoutInv == LayoutTypeOK /\ KeyboardHasAPane /\ LazygitFollows /\ PendingIsSelected

LEMMA LayoutStarts == LayoutInit => LayoutInv
<1> SUFFICES ASSUME LayoutInit PROVE LayoutInv
  OBVIOUS
<1>1. LayoutTypeOK
  BY DEF LayoutInit, LayoutTypeOK, Panes
<1> QED
  BY <1>1 DEF LayoutInit, LayoutInv, KeyboardHasAPane, LazygitFollows, PendingIsSelected, LazygitOpen

\* Where the keyboard may go from a pane that has it.
LEMMA FocusGoes ==
  ASSUME LayoutTypeOK, KeyboardHasAPane
  PROVE  /\ NextFocus(focus) \in Panes /\ PrevFocus(focus) \in Panes
         /\ NextFocus(focus) = "termRight" \/ PrevFocus(focus) = "termRight" => rightOpen
         /\ NextFocus(focus) = "lazygit" \/ PrevFocus(focus) = "lazygit" => LazygitOpen
<1>1. CASE focus = "tree"
  BY <1>1 DEF NextFocus, PrevFocus, Panes
<1>2. CASE focus = "term"
  BY <1>2 DEF NextFocus, PrevFocus, Panes
<1>3. CASE focus = "termRight"
  BY <1>3 DEF NextFocus, PrevFocus, Panes
<1>4. CASE focus = "lazygit"
  BY <1>4 DEF NextFocus, PrevFocus, Panes, KeyboardHasAPane
<1> QED
  BY <1>1, <1>2, <1>3, <1>4 DEF LayoutTypeOK, Panes

\* The keyboard goes to pane f, and the side typed in last may follow it.
GoesTo(f) ==
  /\ focus' = f
  /\ \/ lastTerm' = lastTerm
     \/ lastTerm' = "left"
     \/ lastTerm' = "right" /\ f = "termRight"

\* It may go there.
MayGoTo(f) == /\ f \in Panes
              /\ f = "termRight" => rightOpen
              /\ f = "lazygit" => LazygitOpen

\* The panes and the selection stay; the tree may be hidden or shown.
PanesStay == /\ UNCHANGED <<rightOpen, lazy, pending, leftDir>>
             /\ barHidden' \in BOOLEAN /\ full' \in BOOLEAN
RestStays == UNCHANGED <<rested, section, folded, quit, interrupt>>

LEMMA WaysToGo ==
  ASSUME NEW f
  PROVE  /\ SetFocus(f) => GoesTo(f)
         /\ focus' = f /\ lastTerm' = lastTerm => GoesTo(f)
<1>1. CASE f = "term"
  BY <1>1 DEF SetFocus, GoesTo
<1>2. CASE f = "termRight"
  BY <1>2 DEF SetFocus, GoesTo
<1>3. CASE f \notin {"term", "termRight"}
  BY <1>3 DEF SetFocus, GoesTo
<1> QED
  BY <1>1, <1>2, <1>3

LEMMA FocusMoves ==
  ASSUME LayoutInv, NEW f, MayGoTo(f), GoesTo(f), PanesStay,
         rested' \in BOOLEAN, section' \in {"servers", "sessions"}, folded' \in BOOLEAN,
         quit' \in BOOLEAN, interrupt' \in Panes \cup {"none"},
         section' = "servers" => ~folded'
  PROVE  LayoutInv'
<1>1. LayoutTypeOK /\ KeyboardHasAPane /\ LazygitFollows /\ PendingIsSelected
  BY DEF LayoutInv
<1>2. focus' = f /\ (\/ lastTerm' = lastTerm
                     \/ lastTerm' = "left"
                     \/ lastTerm' = "right" /\ f = "termRight")
  BY DEF GoesTo
<1>3. LayoutTypeOK'
  BY <1>1, <1>2 DEF LayoutTypeOK, PanesStay, MayGoTo
<1>4. LazygitFollows' /\ PendingIsSelected'
  BY <1>1 DEF LazygitFollows, PendingIsSelected, LazygitOpen, PanesStay
<1>5. KeyboardHasAPane'
  BY <1>1, <1>2 DEF KeyboardHasAPane, LazygitOpen, PanesStay, MayGoTo
<1> QED
  BY <1>3, <1>4, <1>5 DEF LayoutInv

LEMMA FocusJumps ==
  ASSUME LayoutInv, NEW f, MayGoTo(f), GoesTo(f), PanesStay, RestStays
  PROVE  LayoutInv'
<1>1. /\ rested \in BOOLEAN
      /\ section \in {"servers", "sessions"} /\ folded \in BOOLEAN /\ quit \in BOOLEAN
      /\ interrupt \in Panes \cup {"none"} /\ (section = "servers" => ~folded)
  BY DEF LayoutInv, LayoutTypeOK, KeyboardHasAPane
<1>2. rested' = rested /\ section' = section /\ folded' = folded /\ quit' = quit
      /\ interrupt' = interrupt
  BY DEF RestStays
<1>3. /\ rested' \in BOOLEAN /\ folded' \in BOOLEAN /\ quit' \in BOOLEAN
      /\ interrupt' \in Panes \cup {"none"}
  BY <1>1, <1>2
<1>4. section' \in {"servers", "sessions"} /\ (section' = "servers" => ~folded')
  BY <1>1, <1>2
<1> QED
  BY <1>3, <1>4, FocusMoves

LEMMA FocusSteps ==
  ASSUME LayoutInv,
         \/ CycleFocus \/ JumpFocus \/ FlipFocus \/ EnterTerm \/ ToggleSidebar
         \/ ToggleFullscreen \/ PlainFullscreen \/ ToggleServers \/ CrossSection
         \/ Rest \/ CtrlC \/ CtrlQ
  PROVE  LayoutInv'
<1>1. LayoutTypeOK /\ KeyboardHasAPane
  BY DEF LayoutInv
<1>2. MayGoTo(focus) /\ MayGoTo("tree") /\ MayGoTo("term")
  BY <1>1 DEF LayoutTypeOK, KeyboardHasAPane, MayGoTo, Panes
<1>3. barHidden \in BOOLEAN /\ full \in BOOLEAN
  BY <1>1 DEF LayoutTypeOK
<1>4. CASE CycleFocus
  <2>1. PICK f \in {NextFocus(focus), PrevFocus(focus)}: SetFocus(f)
    BY <1>4 DEF CycleFocus
  <2>2. MayGoTo(f)
    BY <1>1, <2>1, FocusGoes DEF MayGoTo
  <2>3. PanesStay /\ RestStays
    BY <1>3, <1>4 DEF CycleFocus, PanesStay, RestStays
  <2> QED
    BY <2>1, <2>2, <2>3, WaysToGo, FocusJumps
<1>5. CASE JumpFocus
  <2>1. PICK f \in Panes: AssignFocus(f)
    BY <1>5 DEF JumpFocus
  <2>2. MayGoTo(f) /\ GoesTo(f)
    BY <2>1 DEF AssignFocus, MayGoTo, GoesTo
  <2>3. PanesStay /\ RestStays
    BY <1>3, <1>5 DEF JumpFocus, PanesStay, RestStays
  <2> QED
    BY <2>2, <2>3, FocusJumps
<1>6. CASE FlipFocus
  <2> DEFINE f == IF focus # "tree" THEN "tree"
                  ELSE IF lastTerm = "right" /\ rightOpen THEN "termRight" ELSE "term"
  <2>1. SetFocus(f)
    BY <1>6 DEF FlipFocus
  <2>2. MayGoTo(f)
    BY DEF MayGoTo, Panes
  <2> HIDE DEF f
  <2>3. PanesStay /\ RestStays
    BY <1>3, <1>6 DEF FlipFocus, PanesStay, RestStays
  <2> QED
    BY <2>1, <2>2, <2>3, WaysToGo, FocusJumps
<1>7. CASE EnterTerm
  <2>1. SetFocus("term") /\ PanesStay /\ RestStays
    BY <1>3, <1>7 DEF EnterTerm, PanesStay, RestStays
  <2> QED
    BY <1>2, <2>1, WaysToGo, FocusJumps
<1>8. CASE ToggleSidebar \/ ToggleFullscreen \/ PlainFullscreen
  <2>1. GoesTo("term") \/ GoesTo(focus)
    BY <1>8, WaysToGo DEF ToggleSidebar, ToggleFullscreen, PlainFullscreen
  <2>2. PanesStay /\ RestStays
    BY <1>3, <1>8 DEF ToggleSidebar, ToggleFullscreen, PlainFullscreen, PanesStay, RestStays
  <2> QED
    BY <1>2, <2>1, <2>2, FocusJumps
<1>9. CASE ToggleServers \/ CrossSection \/ Rest \/ CtrlC \/ CtrlQ
  <2>1. /\ focus' = focus /\ lastTerm' = lastTerm
        /\ UNCHANGED <<rightOpen, lazy, pending, leftDir, barHidden, full>>
    BY <1>9 DEF ToggleServers, CrossSection, Rest, CtrlC, CtrlQ
  <2>2. PanesStay /\ GoesTo(focus)
    BY <1>3, <2>1 DEF PanesStay, GoesTo
  <2>3. /\ rested \in BOOLEAN /\ folded \in BOOLEAN /\ quit \in BOOLEAN
        /\ interrupt \in Panes \cup {"none"} /\ focus \in Panes
        /\ section \in {"servers", "sessions"} /\ (section = "servers" => ~folded)
    BY <1>1 DEF LayoutTypeOK, KeyboardHasAPane
  <2>4. rested' \in BOOLEAN
    BY <1>9, <2>3 DEF ToggleServers, CrossSection, Rest, CtrlC, CtrlQ
  <2>5. folded' \in BOOLEAN
    BY <1>9, <2>3 DEF ToggleServers, CrossSection, Rest, CtrlC, CtrlQ
  <2>6. quit' \in BOOLEAN
    BY <1>9, <2>3 DEF ToggleServers, CrossSection, Rest, CtrlC, CtrlQ
  <2>7. interrupt' \in Panes \cup {"none"}
    BY <1>9, <2>3 DEF ToggleServers, CrossSection, Rest, CtrlC, CtrlQ
  <2>8. section' \in {"servers", "sessions"} /\ (section' = "servers" => ~folded')
    BY <1>9, <2>3 DEF ToggleServers, CrossSection, Rest, CtrlC, CtrlQ
  <2> QED
    BY <1>2, <2>2, <2>4, <2>5, <2>6, <2>7, <2>8, FocusMoves
<1> QED
  BY <1>4, <1>5, <1>6, <1>7, <1>8, <1>9

\* A step that opens or closes a pane, or moves the selection.
LEMMA PaneSteps ==
  ASSUME LayoutInv,
         \/ OpenSplit \/ CloseSplit \/ AttachCreated \/ ToggleLazygit \/ LazygitExits
         \/ SelectLeft \/ LoseSelection \/ DrivePending
  PROVE  LayoutInv'
<1>1. LayoutTypeOK /\ KeyboardHasAPane /\ LazygitFollows /\ PendingIsSelected
  BY DEF LayoutInv
<1>2. NoDir \notin Dirs /\ NoDir \notin LocalDirs /\ LocalDirs \subseteq Dirs
      /\ RemoteDirs \subseteq Dirs
  BY LayoutAssumption DEF Dirs
<1>3. CASE OpenSplit \/ CloseSplit
  <2>1. LayoutTypeOK'
    <3>1. /\ focus' \in Panes /\ rightOpen' \in BOOLEAN
          /\ lastTerm' \in {"left", "right"}
      BY <1>1, <1>3 DEF OpenSplit, CloseSplit, LayoutTypeOK, Panes
    <3>2. UNCHANGED <<lazy, pending, rested, leftDir, barHidden, full, section, folded, quit,
                      interrupt>>
      BY <1>3 DEF OpenSplit, CloseSplit
    <3> QED
      BY <1>1, <3>1, <3>2 DEF LayoutTypeOK
  <2>2. UNCHANGED <<lazy, pending, leftDir, section, folded>>
    BY <1>3 DEF OpenSplit, CloseSplit
  <2>3. KeyboardHasAPane'
    BY <1>1, <1>3, <2>2 DEF OpenSplit, CloseSplit, KeyboardHasAPane, LazygitOpen
  <2>4. LazygitFollows' /\ PendingIsSelected'
    BY <1>1, <2>2 DEF LazygitFollows, PendingIsSelected, LazygitOpen
  <2> QED
    BY <2>1, <2>3, <2>4 DEF LayoutInv
<1>4. CASE AttachCreated
  <2>1. CASE /\ lazy' = NoDir
             /\ rightOpen' = TRUE
             /\ focus' = "termRight" /\ lastTerm' = "right"
             /\ UNCHANGED <<pending, rested, leftDir, barHidden, full, section, folded, quit,
                            interrupt>>
    <3>1. LayoutTypeOK'
      BY <1>1, <2>1 DEF LayoutTypeOK, Panes
    <3>2. KeyboardHasAPane' /\ LazygitFollows' /\ PendingIsSelected'
      BY <1>1, <2>1 DEF KeyboardHasAPane, LazygitOpen, LazygitFollows, PendingIsSelected
    <3> QED
      BY <3>1, <3>2 DEF LayoutInv
  <2>2. CASE /\ focus = "termRight" \/ (focus # "term" /\ lastTerm = "right")
             /\ SetFocus("termRight")
             /\ UNCHANGED <<leftDir, pending, rested, rightOpen, lazy, barHidden, full, section,
                            folded, quit, interrupt>>
    <3>1. MayGoTo("termRight")
      BY <1>1, <2>2 DEF KeyboardHasAPane, MayGoTo, Panes
    <3>2. PanesStay /\ RestStays
      BY <1>1, <2>2 DEF PanesStay, RestStays, LayoutTypeOK
    <3> QED
      BY <2>2, <3>1, <3>2, WaysToGo, FocusJumps
  <2>3. CASE /\ SetFocus("term")
             /\ leftDir' \in Dirs
             /\ pending' = IF LazygitOpen THEN leftDir' ELSE NoDir
             /\ rested' = FALSE
             /\ UNCHANGED <<rightOpen, lazy, barHidden, full, section, folded, quit, interrupt>>
    <3>1. focus' = "term" /\ lastTerm' = "left"
      BY <2>3 DEF SetFocus
    <3>2. LayoutTypeOK'
      BY <1>1, <2>3, <3>1 DEF LayoutTypeOK, Panes
    <3>3. KeyboardHasAPane'
      BY <1>1, <2>3, <3>1 DEF KeyboardHasAPane, LazygitOpen
    <3>4. LazygitFollows' /\ PendingIsSelected'
      BY <1>2, <2>3 DEF LazygitFollows, PendingIsSelected, LazygitOpen
    <3> QED
      BY <3>2, <3>3, <3>4 DEF LayoutInv
  <2> QED
    BY <1>4, <2>1, <2>2, <2>3 DEF AttachCreated
<1>5. CASE ToggleLazygit \/ LazygitExits
  <2>1. UNCHANGED <<lastTerm, rightOpen, pending, rested, leftDir, barHidden, full, section,
                    folded, quit, interrupt>>
    BY <1>5 DEF ToggleLazygit, LazygitExits
  <2>2. CASE DropLazygit
    <3>1. LayoutTypeOK'
      BY <1>1, <2>1, <2>2 DEF DropLazygit, LayoutTypeOK, Panes
    <3>2. KeyboardHasAPane' /\ LazygitFollows' /\ PendingIsSelected'
      BY <1>1, <2>1, <2>2
      DEF DropLazygit, KeyboardHasAPane, LazygitOpen, LazygitFollows, PendingIsSelected
    <3> QED
      BY <3>1, <3>2 DEF LayoutInv
  <2>3. CASE /\ ~LazygitOpen /\ ~rightOpen
             /\ lazy' \in Spawned(LaunchDir)
             /\ focus' = IF lazy' = NoDir THEN focus ELSE "lazygit"
    <3>1. LaunchDir \in LocalDirs \cup {Here} /\ (leftDir \in LocalDirs => LaunchDir = leftDir)
      BY DEF LaunchDir
    <3>2. lazy' \in {LaunchDir, NoDir}
      BY <2>3 DEF Spawned
    <3>3. LayoutTypeOK'
      BY <1>1, <2>1, <2>3, <3>1, <3>2 DEF LayoutTypeOK, Panes
    <3>4. KeyboardHasAPane'
      BY <1>1, <2>1, <2>3, <3>2 DEF KeyboardHasAPane, LazygitOpen
    <3>5. LazygitFollows' /\ PendingIsSelected'
      BY <1>1, <2>1, <3>1, <3>2 DEF LazygitFollows, PendingIsSelected, LazygitOpen
    <3> QED
      BY <3>3, <3>4, <3>5 DEF LayoutInv
  <2> QED
    BY <1>5, <2>2, <2>3 DEF ToggleLazygit, LazygitExits
<1>6. CASE SelectLeft
  <2>1. PICK d \in (Dirs \cup {NoDir}) \ {leftDir}:
          /\ leftDir' = d
          /\ pending' = IF ~LazygitOpen THEN NoDir
                        ELSE IF d = NoDir THEN pending ELSE d
          /\ rested' = IF LazygitOpen /\ d # NoDir THEN FALSE ELSE rested
    BY <1>6 DEF SelectLeft
  <2>2. UNCHANGED <<focus, lastTerm, rightOpen, lazy, barHidden, full, section, folded, quit,
                    interrupt>>
    BY <1>6 DEF SelectLeft
  <2>3. LayoutTypeOK'
    BY <1>1, <2>1, <2>2 DEF LayoutTypeOK
  <2>4. KeyboardHasAPane'
    BY <1>1, <2>2 DEF KeyboardHasAPane, LazygitOpen
  <2>5. LazygitFollows' /\ PendingIsSelected'
    BY <1>2, <2>1, <2>2 DEF LazygitFollows, PendingIsSelected, LazygitOpen
  <2> QED
    BY <2>3, <2>4, <2>5 DEF LayoutInv
<1>7. CASE LoseSelection
  <2>1. LayoutTypeOK'
    BY <1>1, <1>7 DEF LoseSelection, LayoutTypeOK
  <2>2. KeyboardHasAPane' /\ LazygitFollows' /\ PendingIsSelected'
    BY <1>1, <1>2, <1>7
    DEF LoseSelection, KeyboardHasAPane, LazygitOpen, LazygitFollows, PendingIsSelected
  <2> QED
    BY <2>1, <2>2 DEF LayoutInv
<1>8. CASE DrivePending
  <2>1. /\ pending # NoDir /\ pending' = NoDir
        /\ UNCHANGED <<lastTerm, rightOpen, rested, leftDir, barHidden, full, section, folded,
                       quit, interrupt>>
    BY <1>8 DEF DrivePending
  <2>2. CASE DropLazygit
    <3>1. LayoutTypeOK'
      BY <1>1, <2>1, <2>2 DEF DropLazygit, LayoutTypeOK, Panes
    <3>2. KeyboardHasAPane' /\ LazygitFollows' /\ PendingIsSelected'
      BY <1>1, <2>1, <2>2
      DEF DropLazygit, KeyboardHasAPane, LazygitOpen, LazygitFollows, PendingIsSelected
    <3> QED
      BY <3>1, <3>2 DEF LayoutInv
  <2>3. CASE /\ UNCHANGED <<lazy, focus>>
             /\ ~LazygitOpen \/ lazy = pending \/ leftDir = NoDir \/ leftDir = lazy
    <3>1. LayoutTypeOK'
      BY <1>1, <2>1, <2>3 DEF LayoutTypeOK
    <3>2. KeyboardHasAPane' /\ PendingIsSelected'
      BY <1>1, <2>1, <2>3 DEF KeyboardHasAPane, LazygitOpen, PendingIsSelected
    <3>3. LazygitFollows'
      BY <1>1, <1>2, <2>1, <2>3 DEF LazygitOpen, LazygitFollows, PendingIsSelected
    <3> QED
      BY <3>1, <3>2, <3>3 DEF LayoutInv
  <2>4. CASE /\ LazygitOpen /\ leftDir # NoDir /\ leftDir \notin RemoteDirs
             /\ lazy' = leftDir /\ UNCHANGED focus
    <3>1. leftDir \in LocalDirs
      BY <1>1, <2>4 DEF LayoutTypeOK, Dirs
    <3>2. LayoutTypeOK'
      BY <1>1, <2>1, <2>4, <3>1 DEF LayoutTypeOK
    <3>3. KeyboardHasAPane' /\ LazygitFollows' /\ PendingIsSelected'
      BY <1>1, <2>1, <2>4 DEF KeyboardHasAPane, LazygitOpen, LazygitFollows, PendingIsSelected
    <3> QED
      BY <3>2, <3>3 DEF LayoutInv
  <2>5. \/ DropLazygit
        \/ /\ UNCHANGED <<lazy, focus>>
           /\ ~LazygitOpen \/ lazy = pending \/ leftDir = NoDir \/ leftDir = lazy
        \/ /\ LazygitOpen /\ leftDir # NoDir /\ leftDir \notin RemoteDirs
           /\ lazy' = leftDir /\ UNCHANGED focus
    <3>1. CASE UNCHANGED <<lazy, focus>> /\ (~LazygitOpen \/ lazy = pending)
      BY <3>1
    <3> DEFINE Served ==
          CASE leftDir = NoDir \/ leftDir = lazy -> UNCHANGED <<lazy, focus>>
            [] leftDir \in RemoteDirs -> DropLazygit
            [] OTHER -> \E child \in Spawned(leftDir) :
                          IF child = NoDir THEN DropLazygit
                          ELSE lazy' = child /\ UNCHANGED focus
    <3>2. CASE LazygitOpen /\ lazy # pending /\ rested /\ Served
      <4>1. CASE leftDir = NoDir \/ leftDir = lazy
        <5>1. leftDir \notin RemoteDirs \/ leftDir = lazy
          BY <1>2, <4>1
        <5> QED
          BY <3>2, <4>1, <5>1
      <4>2. CASE ~(leftDir = NoDir \/ leftDir = lazy) /\ leftDir \in RemoteDirs
        BY <3>2, <4>2
      <4>3. CASE ~(leftDir = NoDir \/ leftDir = lazy) /\ leftDir \notin RemoteDirs
        <5>1. \E child \in Spawned(leftDir) :
                IF child = NoDir THEN DropLazygit ELSE lazy' = child /\ UNCHANGED focus
          BY <3>2, <4>3
        <5> QED
          BY <3>2, <4>3, <5>1 DEF Spawned
      <4> QED
        BY <4>1, <4>2, <4>3
    <3> QED
      BY <1>8, <3>1, <3>2 DEF DrivePending
  <2> QED
    BY <2>2, <2>3, <2>4, <2>5
<1> QED
  BY <1>3, <1>4, <1>5, <1>6, <1>7, <1>8

LEMMA LayoutSteps ==
  ASSUME LayoutInv, [LayoutNext]_layoutVars
  PROVE  LayoutInv'
<1>1. CASE UNCHANGED layoutVars
  <2>1. LayoutTypeOK'
    BY <1>1 DEF layoutVars, LayoutInv, LayoutTypeOK
  <2>2. KeyboardHasAPane' /\ LazygitFollows' /\ PendingIsSelected'
    BY <1>1
    DEF layoutVars, LayoutInv, KeyboardHasAPane, LazygitOpen, LazygitFollows, PendingIsSelected
  <2> QED
    BY <2>1, <2>2 DEF LayoutInv
<1> QED
  BY <1>1, FocusSteps, PaneSteps DEF LayoutNext

-------------------------------------------------------------------------------
(* TuiPrefs: the saved preferences.                                          *)

PrefInv == PrefTypeOK /\ SettingsStick

\* What the defaults are, and that no torn file is a set of preferences.
LEMMA DefaultsFit ==
  /\ Defaults \in Prefs /\ Torn \notin Prefs
  /\ \A p \in Prefs: p # Torn /\ OnScreen(p) \in Screen
       /\ OnScreen(p).panel = p.panel /\ OnScreen(p).width = p.width
<1>1. 1 \in 0..MaxWidth /\ 1 \in 0..MaxTtl /\ -1 \notin 0..MaxTtl
  BY PrefsAssumption
<1>2. Defaults \in Prefs
  BY <1>1 DEF Defaults, Prefs
<1>3. Torn.ttl = -1
  BY DEF Torn, Defaults
<1>4. \A p \in Prefs: p.ttl \in 0..MaxTtl
  BY DEF Prefs
<1>5. Torn \notin Prefs
  BY <1>1, <1>3, <1>4
<1>6. ASSUME NEW p \in Prefs
      PROVE  OnScreen(p) \in Screen /\ OnScreen(p).panel = p.panel /\ OnScreen(p).width = p.width
  BY DEF Prefs, OnScreen, Screen
<1> QED
  BY <1>2, <1>5, <1>6

LEMMA PrefStarts == PrefInit => PrefInv
<1> SUFFICES ASSUME PrefInit PROVE PrefInv
  OBVIOUS
<1>1. PrefTypeOK
  BY DefaultsFit DEF PrefInit, PrefTypeOK
<1>2. Load = Defaults
  BY DefaultsFit DEF PrefInit, Load
<1> QED
  BY <1>1, <1>2, DefaultsFit DEF PrefInit, PrefInv, SettingsStick

LEMMA Clamped ==
  ASSUME NEW n \in Int, NEW max \in Nat
  PROVE  ClampWidth(n, max) \in 0..max
BY DEF ClampWidth

\* Preferences are saved, and the screen shows them.
LEMMA Saved ==
  ASSUME PrefInv, NEW p \in Prefs, Save(p), screen' \in Screen,
         screen'.panel = p.panel, screen'.width = p.width,
         row' \in Rows \cup {"closed"}, chord' \in BOOLEAN
  PROVE  PrefInv'
<1>1. PrefTypeOK /\ up \in BOOLEAN
  BY DEF PrefInv, PrefTypeOK
<1>2. CASE disk' = p /\ UNCHANGED up
  <2>1. prefs' = p
    BY DEF Save
  <2>2. PrefTypeOK'
    BY <1>1, <1>2, <2>1 DEF PrefTypeOK
  <2>3. Load' = p
    BY <1>2, DefaultsFit DEF Load
  <2> QED
    BY <2>1, <2>2, <2>3 DEF PrefInv, SettingsStick
<1>3. CASE disk' = Torn /\ up' = FALSE
  <2>1. prefs' = p
    BY DEF Save
  <2>2. PrefTypeOK'
    BY <1>1, <1>3, <2>1 DEF PrefTypeOK
  <2> QED
    BY <1>3, <2>2 DEF PrefInv, SettingsStick
<1> QED
  BY <1>2, <1>3 DEF Save

\* What the screen shows of the preferences when they are on it.
Shows(p, s) == s \in Screen /\ s.panel = p.panel /\ s.width = p.width

LEMMA Mirrored ==
  ASSUME PrefTypeOK, NEW p \in Prefs
  PROVE  Shows(p, Mirror(p))
BY DEF PrefTypeOK, Prefs, Screen, Mirror, Shows

\* A field that is on the screen and in the preferences.
LEMMA FieldsToggle ==
  ASSUME PrefInv, up, NEW f \in {"bar", "folded", "scope", "panel"}, ToggleField(f),
         row' \in Rows \cup {"closed"}, chord' \in BOOLEAN
  PROVE  PrefInv'
<1>1. /\ prefs \in Prefs /\ screen \in Screen
      /\ screen.panel = prefs.panel /\ screen.width = prefs.width
  BY DEF PrefInv, PrefTypeOK, SettingsStick
<1> DEFINE p == [prefs EXCEPT ![f] = ~screen[f]]
           s == [screen EXCEPT ![f] = ~screen[f]]
<1>2. Save(p) /\ screen' = s
  BY DEF ToggleField, Assign
<1>3. p \in Prefs /\ Shows(p, s)
  <2>1. CASE f = "bar"
    BY <1>1, <2>1 DEF Prefs, Screen, Shows
  <2>2. CASE f = "folded"
    BY <1>1, <2>2 DEF Prefs, Screen, Shows
  <2>3. CASE f = "scope"
    BY <1>1, <2>3 DEF Prefs, Screen, Shows
  <2>4. CASE f = "panel"
    BY <1>1, <2>4 DEF Prefs, Screen, Shows
  <2> QED
    BY <2>1, <2>2, <2>3, <2>4
<1> HIDE DEF p, s
<1> QED
  BY <1>2, <1>3, Saved DEF Shows

LEMMA WidthsResize ==
  ASSUME PrefInv, up, NEW by \in {-1, 1}, Resize(by),
         row' \in Rows \cup {"closed"}, chord' \in BOOLEAN
  PROVE  PrefInv'
<1>1. /\ prefs \in Prefs /\ screen \in Screen
      /\ screen.panel = prefs.panel /\ screen.width = prefs.width
  BY DEF PrefInv, PrefTypeOK, SettingsStick
<1> DEFINE w == ClampWidth(screen.width + by, MaxWidth)
           p == [prefs EXCEPT !["width"] = w]
           s == [screen EXCEPT !["width"] = w]
<1>2. Save(p) /\ screen' = s
  BY DEF Resize, Assign
<1>3. w \in 0..MaxWidth
  <2>1. screen.width \in 0..MaxWidth
    BY <1>1 DEF Screen
  <2>2. screen.width + by \in Int /\ MaxWidth \in Nat
    BY <2>1, PrefsAssumption
  <2> QED
    BY <2>2, Clamped
<1> HIDE DEF w
<1>4. p \in Prefs /\ Shows(p, s)
  BY <1>1, <1>3 DEF Prefs, Screen, Shows
<1> HIDE DEF p, s
<1> QED
  BY <1>2, <1>4, Saved DEF Shows

LEMMA TtlsBump ==
  ASSUME PrefInv, NEW by \in {-1, 1}
  PROVE  /\ BumpTtl(prefs, by) \in Prefs
         /\ BumpTtl(prefs, by).panel = prefs.panel /\ BumpTtl(prefs, by).width = prefs.width
<1>1. prefs \in Prefs
  BY DEF PrefInv, PrefTypeOK
<1> DEFINE t == ClampWidth(prefs.ttl + by, MaxTtl)
<1>2. t \in 0..MaxTtl
  <2>1. prefs.ttl \in 0..MaxTtl
    BY <1>1 DEF Prefs
  <2>2. prefs.ttl + by \in Int /\ MaxTtl \in Nat
    BY <2>1, PrefsAssumption
  <2> QED
    BY <2>2, Clamped
<1>3. BumpTtl(prefs, by) = [prefs EXCEPT !.ttl = t]
  BY DEF BumpTtl
<1> HIDE DEF t
<1> QED
  BY <1>1, <1>2, <1>3 DEF Prefs

\* A preference the screen does not mirror.
LEMMA BesideTheScreen ==
  ASSUME PrefInv, up, NEW p \in Prefs, p.panel = prefs.panel, p.width = prefs.width,
         Save(p), UNCHANGED screen, row' \in Rows \cup {"closed"}, chord' \in BOOLEAN
  PROVE  PrefInv'
<1>1. /\ screen' \in Screen /\ screen'.panel = p.panel /\ screen'.width = p.width
  BY DEF PrefInv, PrefTypeOK, SettingsStick
<1> QED
  BY <1>1, Saved

\* The preferences after the settings overlay has changed or reset a row.
LEMMA RowsChange ==
  ASSUME PrefInv, row # "closed"
  PROVE  Toggled \in Prefs /\ RowReset \in Prefs
<1>1. prefs \in Prefs /\ row \in Rows
  BY DEF PrefInv, PrefTypeOK
<1>2. CASE row = "all"
  BY <1>2, DefaultsFit DEF Toggled, RowReset
<1>3. CASE row = "ttl"
  <2>1. Toggled = BumpTtl(prefs, 1)
    BY <1>3 DEF Toggled
  <2>2. RowReset = [prefs EXCEPT !.ttl = Defaults.ttl]
    BY <1>3 DEF RowReset
  <2>3. Defaults.ttl \in 0..MaxTtl
    BY DefaultsFit DEF Prefs
  <2>4. RowReset \in Prefs
    BY <1>1, <2>2, <2>3 DEF Prefs
  <2> QED
    BY <2>1, <2>4, TtlsBump
<1>4. CASE row = "mark"
  <2>1. Toggled = [prefs EXCEPT !.mark = ~@] /\ RowReset = [prefs EXCEPT !.mark = Defaults.mark]
    BY <1>4 DEF Toggled, RowReset
  <2>2. Defaults.mark \in BOOLEAN
    BY DEF Defaults
  <2> QED
    BY <1>1, <2>1, <2>2 DEF Prefs
<1>5. CASE row = "bar"
  <2>1. Toggled = [prefs EXCEPT !.bar = ~@] /\ RowReset = [prefs EXCEPT !.bar = Defaults.bar]
    BY <1>5 DEF Toggled, RowReset
  <2>2. Defaults.bar \in BOOLEAN
    BY DEF Defaults
  <2> QED
    BY <1>1, <2>1, <2>2 DEF Prefs
<1>6. CASE row = "panel"
  <2>1. Toggled = [prefs EXCEPT !.panel = ~@] /\ RowReset = [prefs EXCEPT !.panel = Defaults.panel]
    BY <1>6 DEF Toggled, RowReset
  <2>2. Defaults.panel \in BOOLEAN
    BY DEF Defaults
  <2> QED
    BY <1>1, <2>1, <2>2 DEF Prefs
<1> QED
  BY <1>1, <1>2, <1>3, <1>4, <1>5, <1>6 DEF Rows

\* A step that leaves what is shown and what is saved alone.
LEMMA PrefsStay ==
  ASSUME PrefInv, UNCHANGED <<prefs, screen, disk>>, up' => up, up' \in BOOLEAN,
         row' \in Rows \cup {"closed"}, chord' \in BOOLEAN
  PROVE  PrefInv'
<1>1. PrefTypeOK'
  BY DEF PrefInv, PrefTypeOK
<1>2. SettingsStick'
  BY DEF PrefInv, SettingsStick, Load
<1> QED
  BY <1>1, <1>2 DEF PrefInv

LEMMA PrefSteps ==
  ASSUME PrefInv, [PrefNext]_prefVars
  PROVE  PrefInv'
<1>1. /\ PrefTypeOK /\ prefs \in Prefs /\ screen \in Screen /\ disk \in Prefs \cup {Torn}
      /\ row \in Rows \cup {"closed"} /\ chord \in BOOLEAN /\ up \in BOOLEAN
  BY DEF PrefInv, PrefTypeOK
<1>2. CASE StartUi
  <2>1. Load \in Prefs
    BY <1>1, DefaultsFit DEF Load
  <2>2. /\ up' = TRUE /\ prefs' = Load /\ screen' = OnScreen(Load) /\ row' = "closed"
        /\ chord' = FALSE /\ disk' = disk
    BY <1>2 DEF StartUi
  <2>3. OnScreen(Load) \in Screen /\ OnScreen(Load).panel = Load.panel
        /\ OnScreen(Load).width = Load.width
    BY <2>1, DefaultsFit
  <2>4. Load' = Load
    BY <2>2 DEF Load
  <2>5. PrefTypeOK'
    BY <1>1, <2>1, <2>2, <2>3 DEF PrefTypeOK
  <2> QED
    BY <2>2, <2>3, <2>4, <2>5 DEF PrefInv, SettingsStick
<1>3. CASE QuitUi \/ ArmChord \/ OpenSettings \/ MoveRow \/ UNCHANGED prefVars
  <2>1. /\ UNCHANGED <<prefs, screen, disk>>
        /\ up' = up \/ up' = FALSE
        /\ chord' = chord \/ chord' = TRUE
    BY <1>3 DEF QuitUi, ArmChord, OpenSettings, MoveRow, prefVars
  <2>2. row' \in Rows \cup {"closed"}
    BY <1>1, <1>3 DEF QuitUi, ArmChord, OpenSettings, MoveRow, prefVars, Rows
  <2>3. (up' => up) /\ up' \in BOOLEAN /\ chord' \in BOOLEAN
    <3>1. CASE up' = up
      BY <1>1, <2>1, <3>1
    <3>2. CASE up' = FALSE
      BY <1>1, <2>1, <3>2
    <3> QED
      BY <2>1, <3>1, <3>2
  <2> QED
    BY <2>1, <2>2, <2>3, PrefsStay
<1>4. CASE RunChord
  <2>1. /\ up /\ chord' = FALSE /\ row' = row
        /\ \/ \E f \in {"bar", "folded"} : ToggleField(f)
           \/ \E by \in {-1, 1} : Resize(by)
           \/ UNCHANGED <<prefs, screen, disk, up>>
    BY <1>4 DEF RunChord
  <2>2. row' \in Rows \cup {"closed"} /\ chord' \in BOOLEAN
    BY <1>1, <2>1
  <2>3. ASSUME NEW f \in {"bar", "folded"}, ToggleField(f)
        PROVE  PrefInv'
    BY <2>1, <2>2, <2>3, FieldsToggle
  <2>4. ASSUME NEW by \in {-1, 1}, Resize(by)
        PROVE  PrefInv'
    BY <2>1, <2>2, <2>4, WidthsResize
  <2>5. CASE UNCHANGED <<prefs, screen, disk, up>>
    BY <1>1, <2>2, <2>5, PrefsStay
  <2> QED
    BY <2>1, <2>3, <2>4, <2>5
<1>5. CASE PressKey
  <2>1. /\ up /\ chord' = chord /\ row' = row
        /\ \/ \E f \in {"bar", "panel"} : ToggleField(f)
           \/ \E by \in {-1, 1} : Resize(by)
    BY <1>5 DEF PressKey
  <2>2. row' \in Rows \cup {"closed"} /\ chord' \in BOOLEAN
    BY <1>1, <2>1
  <2>3. ASSUME NEW f \in {"bar", "panel"}, ToggleField(f)
        PROVE  PrefInv'
    BY <2>1, <2>2, <2>3, FieldsToggle
  <2>4. ASSUME NEW by \in {-1, 1}, Resize(by)
        PROVE  PrefInv'
    BY <2>1, <2>2, <2>4, WidthsResize
  <2> QED
    BY <2>1, <2>3, <2>4
<1>6. CASE RevealTree
  <2>1. /\ screen' = [screen EXCEPT !.bar = FALSE]
        /\ UNCHANGED <<prefs, disk, row, chord, up>>
    BY <1>6 DEF RevealTree
  <2>2. screen' \in Screen /\ screen'.panel = screen.panel /\ screen'.width = screen.width
    BY <1>1, <2>1 DEF Screen
  <2>3. PrefTypeOK'
    BY <1>1, <2>1, <2>2 DEF PrefTypeOK
  <2>4. SettingsStick'
    BY <2>1, <2>2 DEF PrefInv, SettingsStick, Load
  <2> QED
    BY <2>3, <2>4 DEF PrefInv
<1>7. CASE RunPalette
  <2>1. /\ up /\ chord' = chord /\ row' = row
        /\ \/ \E f \in {"bar", "folded", "scope", "panel"} : ToggleField(f)
           \/ Save([prefs EXCEPT !.mark = ~@]) /\ UNCHANGED screen
           \/ (\E by \in {-1, 1} : Save(BumpTtl(prefs, by))) /\ UNCHANGED screen
           \/ Save(Defaults) /\ screen' = Mirror(Defaults)
    BY <1>7 DEF RunPalette
  <2>2. row' \in Rows \cup {"closed"} /\ chord' \in BOOLEAN
    BY <1>1, <2>1
  <2>3. ASSUME NEW f \in {"bar", "folded", "scope", "panel"}, ToggleField(f)
        PROVE  PrefInv'
    BY <2>1, <2>2, <2>3, FieldsToggle
  <2>4. CASE Save([prefs EXCEPT !.mark = ~@]) /\ UNCHANGED screen
    <3> DEFINE p == [prefs EXCEPT !.mark = ~@]
    <3>1. p \in Prefs /\ p.panel = prefs.panel /\ p.width = prefs.width
      BY <1>1 DEF Prefs
    <3>2. Save(p)
      BY <2>4
    <3> HIDE DEF p
    <3> QED
      BY <2>1, <2>2, <2>4, <3>1, <3>2, BesideTheScreen
  <2>5. ASSUME NEW by \in {-1, 1}, Save(BumpTtl(prefs, by)), UNCHANGED screen
        PROVE  PrefInv'
    BY <2>1, <2>2, <2>5, TtlsBump, BesideTheScreen
  <2>6. CASE Save(Defaults) /\ screen' = Mirror(Defaults)
    BY <1>1, <2>2, <2>6, DefaultsFit, Mirrored, Saved DEF Shows
  <2> QED
    BY <2>1, <2>3, <2>4, <2>5, <2>6
<1>8. CASE ActivateRow \/ ResetRow
  <2>1. PICK p \in {Toggled, RowReset}: Save(p) /\ screen' = Mirror(p)
    BY <1>8 DEF ActivateRow, ResetRow
  <2>2. row # "closed" /\ row' = row /\ chord' = chord
    BY <1>8 DEF ActivateRow, ResetRow
  <2>3. p \in Prefs
    BY <2>1, <2>2, RowsChange
  <2>4. Shows(p, screen')
    BY <1>1, <2>1, <2>3, Mirrored
  <2> QED
    BY <1>1, <2>1, <2>2, <2>3, <2>4, Saved DEF Shows
<1>9. CASE AdjustRow
  <2>1. PICK by \in {-1, 1}: Save(BumpTtl(prefs, by))
    BY <1>9 DEF AdjustRow
  <2>2. up /\ UNCHANGED <<screen, row, chord>>
    BY <1>9 DEF AdjustRow
  <2> QED
    BY <1>1, <2>1, <2>2, TtlsBump, BesideTheScreen
<1> QED
  BY <1>2, <1>3, <1>4, <1>5, <1>6, <1>7, <1>8, <1>9 DEF PrefNext

-------------------------------------------------------------------------------
(* TuiDialogs: confirmations and the error log.                              *)

\* A confirmed action has yet to ask for what it has not asked for.
DlgInv ==
  /\ DlgTypeOK
  /\ sent \cup todo = agreed
  /\ badge > 0 <=> errors > 0

LEMMA DlgStarts == DlgInit => DlgInv
<1> SUFFICES ASSUME DlgInit PROVE DlgInv
  OBVIOUS
<1>1. MaxErrorLog \in Nat /\ MaxDlgOps \in Nat
  BY DialogAssumption
<1>2. Closed \in [kind: Verbs \cup Plain \cup {"none"}, bulk: BOOLEAN,
                  ids: SUBSET DlgSessions]
  BY DEF Closed
<1>3. NoVerb \in [kind: Verbs \cup {"none"}, bulk: BOOLEAN]
  BY DEF NoVerb
<1>4. DlgTypeOK
  BY <1>1, <1>2, <1>3 DEF DlgInit, DlgTypeOK
<1> QED
  BY <1>4 DEF DlgInit, DlgInv

DlgKinds == [kind: Verbs \cup Plain \cup {"none"}, bulk: BOOLEAN, ids: SUBSET DlgSessions]

LEMMA DialogKinds ==
  /\ Closed \in DlgKinds
  /\ \A k \in Plain: Open(k) \in DlgKinds
  /\ \A v \in Verbs, s \in DlgSessions: About(v, s) \in DlgKinds
  /\ \A v \in Verbs, b \in BOOLEAN, S \in SUBSET DlgSessions:
       [kind |-> v, bulk |-> b, ids |-> S] \in DlgKinds
  /\ NoVerb \in [kind: Verbs \cup {"none"}, bulk: BOOLEAN]
BY DEF Closed, Open, About, NoVerb, DlgKinds

\* The log and its badge.
LogOk == /\ errors \in 0..MaxErrorLog /\ badge \in 0..MaxErrorLog + 1
         /\ badge > 0 <=> errors > 0

LEMMA PushesError ==
  ASSUME LogOk, PushError
  PROVE  LogOk'
BY DialogAssumption DEF LogOk, PushError

\* What the list shows and marks.
ListOk == /\ alive \subseteq DlgSessions /\ sessions \subseteq DlgSessions
          /\ marked \subseteq sessions
          /\ under \in sessions \cup {NoRow}

\* What was confirmed, and what came of it.
ActionOk == /\ todo \subseteq DlgSessions /\ sent \subseteq DlgSessions
            /\ agreed \subseteq DlgSessions
            /\ verb \in [kind: Verbs \cup {"none"}, bulk: BOOLEAN]
            /\ dlgOps \in 0..MaxDlgOps
            /\ sent \cup todo = agreed

ModeOk == inTree \in BOOLEAN /\ query \in {"none", "typing", "kept"}

LEMMA DlgParts ==
  DlgInv <=> ListOk /\ ActionOk /\ LogOk /\ ModeOk /\ dialog \in DlgKinds
BY DEF DlgInv, DlgTypeOK, ListOk, ActionOk, LogOk, ModeOk, DlgKinds

LEMMA DlgParts2 ==
  DlgInv' <=> ListOk' /\ ActionOk' /\ LogOk' /\ ModeOk' /\ dialog' \in DlgKinds
BY DEF DlgInv, DlgTypeOK, ListOk, ActionOk, LogOk, ModeOk, DlgKinds

LEMMA DlgSteps ==
  ASSUME DlgInv, [DlgNext]_dlgVars
  PROVE  DlgInv'
<1> USE DEF Others
<1>1. ListOk /\ ActionOk /\ LogOk /\ ModeOk /\ dialog \in DlgKinds
  BY DlgParts
<1>2. CASE DlgRefresh
  <2>1. ListOk'
    BY <1>1, <1>2 DEF DlgRefresh, RefreshAll, ListOk
  <2>2. ActionOk' /\ LogOk' /\ ModeOk' /\ dialog' \in DlgKinds
    BY <1>1, <1>2 DEF DlgRefresh, ActionOk, LogOk, ModeOk
  <2> QED
    BY <2>1, <2>2, DlgParts2
<1>3. CASE SessionAppears \/ SessionVanishes \/ DlgMoveCursor
  <2>1. ListOk'
    BY <1>1, <1>3 DEF SessionAppears, SessionVanishes, DlgMoveCursor, ListOk
  <2>2. ActionOk' /\ LogOk' /\ ModeOk' /\ dialog' \in DlgKinds
    BY <1>1, <1>3
    DEF SessionAppears, SessionVanishes, DlgMoveCursor, ActionOk, LogOk, ModeOk
  <2> QED
    BY <2>1, <2>2, DlgParts2
<1>4. CASE Focuses \/ FilterKey
  <2>1. ModeOk'
    BY <1>1, <1>4 DEF Focuses, FilterKey, ModeOk
  <2>2. ListOk' /\ ActionOk' /\ LogOk' /\ dialog' \in DlgKinds
    BY <1>1, <1>4 DEF Focuses, FilterKey, ActionOk, LogOk, ListOk
  <2> QED
    BY <2>1, <2>2, DlgParts2
<1>5. CASE ToggleMark
  <2>1. ListOk'
    BY <1>1, <1>5 DEF ToggleMark, ListOk
  <2>2. ActionOk' /\ LogOk' /\ ModeOk' /\ dialog' \in DlgKinds
    BY <1>1, <1>5 DEF ToggleMark, ActionOk, LogOk, ModeOk
  <2> QED
    BY <2>1, <2>2, DlgParts2
<1>6. CASE EscTree
  <2>1. ListOk' /\ ModeOk'
    BY <1>1, <1>6 DEF EscTree, ListOk, ModeOk
  <2>2. ActionOk' /\ LogOk' /\ dialog' \in DlgKinds
    BY <1>1, <1>6 DEF EscTree, ActionOk, LogOk
  <2> QED
    BY <2>1, <2>2, DlgParts2
<1>7. CASE AskAction
  <2>1. Target \in SUBSET DlgSessions
    BY <1>1 DEF Target, ListOk
  <2>2. (marked # {}) \in BOOLEAN
    OBVIOUS
  <2>3. dialog' \in DlgKinds
    BY <1>7, <2>1, <2>2, DialogKinds DEF AskAction, Verbs
  <2>4. ListOk' /\ ActionOk' /\ LogOk' /\ ModeOk'
    BY <1>1, <1>7 DEF AskAction, ListOk, ActionOk, LogOk, ModeOk
  <2> QED
    BY <2>3, <2>4, DlgParts2
<1>8. CASE AskOne \/ OpenPlain \/ SubmitGoal
  <2>1. dialog' \in DlgKinds
    BY <1>1, <1>8, DialogKinds DEF AskOne, OpenPlain, SubmitGoal, Verbs, ListOk
  <2>2. ListOk' /\ ActionOk' /\ LogOk' /\ ModeOk'
    BY <1>1, <1>8 DEF AskOne, OpenPlain, SubmitGoal, ListOk, ActionOk, LogOk, ModeOk
  <2> QED
    BY <2>1, <2>2, DlgParts2
<1>9. CASE CloseDialog
  <2>1. LogOk'
    BY <1>1, <1>9, DialogAssumption DEF CloseDialog, LogOk
  <2>2. dialog' \in DlgKinds
    BY <1>9, DialogKinds DEF CloseDialog
  <2>3. ListOk' /\ ActionOk' /\ ModeOk'
    BY <1>1, <1>9 DEF CloseDialog, ListOk, ActionOk, ModeOk
  <2> QED
    BY <2>1, <2>2, <2>3, DlgParts2
<1>10. CASE SpawnTerminal
  <2>1. LogOk'
    <3>1. CASE PushError
      BY <1>1, <3>1, PushesError
    <3>2. CASE UNCHANGED <<errors, badge>>
      BY <1>1, <3>2 DEF LogOk
    <3> QED
      BY <1>10, <3>1, <3>2 DEF SpawnTerminal
  <2>2. ListOk'
    BY <1>1, <1>10 DEF SpawnTerminal, ListOk
  <2>3. dialog' \in DlgKinds
    BY <1>10, DialogKinds DEF SpawnTerminal
  <2>4. ActionOk' /\ ModeOk'
    BY <1>1, <1>10 DEF SpawnTerminal, ActionOk, ModeOk
  <2> QED
    BY <2>1, <2>2, <2>3, <2>4, DlgParts2
<1>11. CASE Confirm
  <2>1. dialog.ids \subseteq DlgSessions /\ dialog.bulk \in BOOLEAN
    BY <1>1 DEF DlgKinds
  <2>2. dlgOps' \in 0..MaxDlgOps
    BY <1>1, <1>11, DialogAssumption DEF Confirm, ActionOk
  <2>3. verb' \in [kind: Verbs \cup {"none"}, bulk: BOOLEAN]
    BY <1>11, <2>1 DEF Confirm
  <2>4. ActionOk'
    BY <1>11, <2>1, <2>2, <2>3 DEF Confirm, Captured, ActionOk
  <2>5. dialog' \in DlgKinds
    BY <1>11, DialogKinds DEF Confirm
  <2>6. ListOk' /\ LogOk' /\ ModeOk'
    BY <1>1, <1>11 DEF Confirm, ListOk, LogOk, ModeOk
  <2> QED
    BY <2>4, <2>5, <2>6, DlgParts2
<1>12. CASE Request
  <2>1. PICK s \in todo:
          /\ todo' = todo \ {s}
          /\ sent' = sent \cup {s}
          /\ \/ /\ s \in alive
                /\ alive' = IF verb.kind = "kill" THEN alive \ {s} ELSE alive
                /\ UNCHANGED <<errors, badge, dialog>>
             \/ /\ verb.kind = "rename"
                /\ dialog' = About("rename", s)
                /\ UNCHANGED <<alive, errors, badge>>
             \/ /\ verb.kind # "rename"
                /\ PushError
                /\ UNCHANGED <<alive, dialog>>
          /\ under' = IF verb.kind = "kill" /\ under = s THEN NoRow ELSE under
    BY <1>12 DEF Request
  <2>2. s \in DlgSessions
    BY <1>1, <2>1 DEF ActionOk
  <2>3. ActionOk'
    BY <1>1, <1>12, <2>1 DEF Request, ActionOk
  <2>4. ListOk'
    <3>1. alive' \subseteq alive
      BY <2>1
    <3>2. under' \in {under, NoRow}
      BY <2>1
    <3> QED
      BY <1>1, <1>12, <3>1, <3>2 DEF Request, ListOk
  <2>5. LogOk'
    <3>1. CASE PushError
      BY <1>1, <3>1, PushesError
    <3>2. CASE UNCHANGED <<errors, badge>>
      BY <1>1, <3>2 DEF LogOk
    <3> QED
      BY <2>1, <3>1, <3>2
  <2>6. dialog' \in DlgKinds
    BY <1>1, <2>1, <2>2, DialogKinds DEF Verbs
  <2>7. ModeOk'
    BY <1>1, <1>12 DEF Request, ModeOk
  <2> QED
    BY <2>3, <2>4, <2>5, <2>6, <2>7, DlgParts2
<1>13. CASE Finish
  <2>1. ListOk'
    BY <1>1, <1>13 DEF Finish, ListOk
  <2>2. verb' \in [kind: Verbs \cup {"none"}, bulk: BOOLEAN]
    BY <1>13, DialogKinds DEF Finish
  <2>3. ActionOk'
    BY <1>1, <1>13, <2>2 DEF Finish, ActionOk
  <2>4. LogOk' /\ ModeOk' /\ dialog' \in DlgKinds
    BY <1>1, <1>13 DEF Finish, LogOk, ModeOk
  <2> QED
    BY <2>1, <2>3, <2>4, DlgParts2
<1>14. CASE UNCHANGED dlgVars
  BY <1>14 DEF dlgVars, DlgInv, DlgTypeOK
<1> QED
  BY <1>2, <1>3, <1>4, <1>5, <1>6, <1>7, <1>8, <1>9, <1>10, <1>11, <1>12, <1>13,
     <1>14 DEF DlgNext

LEMMA DlgSafe == DlgInv => DlgTypeOK /\ DoneAsConfirmed
BY DEF DlgInv, DoneAsConfirmed

-------------------------------------------------------------------------------
(* TuiTree: rows, cursor and refreshes.                                      *)

\* The elements of a finite set in a total order are numbered from one, each
\* with a number of its own, and every number is some element's.
Ordered(S, R) ==
  /\ \A a \in S: <<a, a>> \in R
  /\ \A a, b \in S: <<a, b>> \in R \/ <<b, a>> \in R
  /\ \A a, b \in S: <<a, b>> \in R /\ <<b, a>> \in R => a = b
  /\ \A a, b, c \in S: <<a, b>> \in R /\ <<b, c>> \in R => <<a, c>> \in R

LEMMA RanksFill ==
  ASSUME NEW S, IsFiniteSet(S), NEW R, Ordered(S, R),
         NEW idx, idx = [r \in S |-> Cardinality({q \in S: <<q, r>> \in R})]
  PROVE  /\ Cardinality(S) \in Nat /\ idx \in [S -> 1..Cardinality(S)]
         /\ \A a, b \in S: idx[a] = idx[b] => a = b
         /\ \A a, b \in S: idx[a] <= idx[b] => <<a, b>> \in R
         /\ \A n \in 1..Cardinality(S): \E a \in S: idx[a] = n
<1> DEFINE Upto(r) == {q \in S: <<q, r>> \in R}
           N == Cardinality(S)
<1>1. N \in Nat
  BY FS_CardinalityType
<1>2. ASSUME NEW r \in S
      PROVE  IsFiniteSet(Upto(r)) /\ Cardinality(Upto(r)) = idx[r] /\ idx[r] \in 1..N
  <2>1. Upto(r) \in SUBSET S /\ r \in Upto(r)
    BY DEF Ordered
  <2>2. IsFiniteSet(Upto(r)) /\ Cardinality(Upto(r)) <= N
    BY <2>1, FS_Subset
  <2>3. Cardinality(Upto(r)) \in Nat /\ Cardinality(Upto(r)) # 0
    BY <2>1, <2>2, FS_CardinalityType, FS_EmptySet
  <2>4. Cardinality(Upto(r)) = idx[r]
    OBVIOUS
  <2> HIDE DEF Upto
  <2> QED
    BY <1>1, <2>2, <2>3, <2>4
<1>3. idx \in [S -> 1..N]
  BY <1>2
<1>4. ASSUME NEW a \in S, NEW b \in S, <<a, b>> \in R, idx[a] = idx[b]
      PROVE  a = b
  <2>1. Upto(a) \in SUBSET Upto(b)
    BY <1>4, Zenon DEF Ordered
  <2>2. Cardinality(Upto(a)) = Cardinality(Upto(b)) /\ IsFiniteSet(Upto(b))
    BY <1>2, <1>4
  <2>3. b \in Upto(b)
    BY DEF Ordered
  <2>4. Upto(a) = Upto(b)
    <3> HIDE DEF Upto
    <3> QED
      BY <2>1, <2>2, FS_Subset
  <2>5. <<b, a>> \in R
    BY <2>3, <2>4
  <2> QED
    BY <1>4, <2>5 DEF Ordered
<1>5. ASSUME NEW a \in S, NEW b \in S, idx[a] = idx[b]
      PROVE  a = b
  <2>1. <<a, b>> \in R \/ <<b, a>> \in R
    BY DEF Ordered
  <2> QED
    BY <1>4, <1>5, <2>1
<1>6. idx \in Injection(S, 1..N)
  BY <1>3, <1>5, Fun_IsInj
<1>7. IsFiniteSet(1..N) /\ Cardinality(1..N) = N
  BY <1>1, FS_Interval
<1> HIDE DEF N
<1>8. idx \in Surjection(S, 1..N)
  BY <1>6, <1>7, FS_Injection DEF N
<1>9. \A n \in 1..N: \E a \in S: idx[a] = n
  BY <1>8 DEF Surjection
<1>10. ASSUME NEW a \in S, NEW b \in S, idx[a] <= idx[b]
       PROVE  <<a, b>> \in R
  <2>1. CASE <<b, a>> \in R
    <3>1. Upto(b) \in SUBSET Upto(a)
      BY <2>1, Zenon DEF Ordered
    <3>2. Cardinality(Upto(b)) <= Cardinality(Upto(a))
      <4>1. IsFiniteSet(Upto(a))
        BY <1>2
      <4> HIDE DEF Upto
      <4> QED
        BY <3>1, <4>1, FS_Subset
    <3>3. /\ Cardinality(Upto(a)) = idx[a] /\ idx[a] \in 1..N
          /\ Cardinality(Upto(b)) = idx[b] /\ idx[b] \in 1..N
      BY <1>2
    <3> HIDE DEF Upto
    <3>4. idx[a] = idx[b]
      BY <1>1, <1>10, <3>2, <3>3
    <3>5. a = b
      BY <1>5, <3>4
    <3> QED
      BY <2>1, <3>5
  <2>2. CASE <<b, a>> \notin R
    BY <2>2 DEF Ordered
  <2> QED
    BY <2>1, <2>2
<1> QED
  BY <1>1, <1>3, <1>5, <1>9, <1>10 DEF N

-----------------------------------------------------------------------------
\* Rows and their order.

Positive == Nat \ {0}
Hosts1 == {<<s[1]>>: s \in TreeSessions}
Projects2 == {<<s[1], s[2]>>: s \in TreeSessions}
AllRows == Hosts1 \cup Projects2 \cup TreeSessions
Keys4 == Nat \X Nat \X Nat \X Nat

LEMMA PrefixesAre ==
  ASSUME NEW S, NEW s \in Seq(S)
  PROVE  /\ Len(s) >= 1 => SubSeq(s, 1, 1) = <<s[1]>>
         /\ Len(s) >= 2 => SubSeq(s, 1, 2) = <<s[1], s[2]>>
         /\ Len(s) = 3 => SubSeq(s, 1, 3) = s
<1>1. ASSUME Len(s) >= 1
      PROVE  SubSeq(s, 1, 1) = <<s[1]>>
  <2>1. s[1] \in S /\ \A i \in 1..1: s[i] \in S
    BY <1>1
  <2>2. /\ SubSeq(s, 1, 1) \in Seq(S) /\ Len(SubSeq(s, 1, 1)) = 1
        /\ SubSeq(s, 1, 1)[1] = s[1]
    BY <2>1, SubSeqProperties
  <2>3. <<s[1]>> \in Seq(S) /\ Len(<<s[1]>>) = 1 /\ <<s[1]>>[1] = s[1]
    BY <2>1
  <2>4. \A i \in 1..1: i = 1
    OBVIOUS
  <2> QED
    BY <2>2, <2>3, <2>4, SeqEqual
<1>2. ASSUME Len(s) >= 2
      PROVE  SubSeq(s, 1, 2) = <<s[1], s[2]>>
  <2>1. s[1] \in S /\ s[2] \in S /\ \A i \in 1..2: s[i] \in S
    BY <1>2
  <2>2. /\ SubSeq(s, 1, 2) \in Seq(S) /\ Len(SubSeq(s, 1, 2)) = 2
        /\ SubSeq(s, 1, 2)[1] = s[1] /\ SubSeq(s, 1, 2)[2] = s[2]
    BY <2>1, SubSeqProperties
  <2> DEFINE t == <<s[1], s[2]>>
  <2>3. t \in Seq(S) /\ Len(t) = 2 /\ t[1] = s[1] /\ t[2] = s[2]
    BY <2>1
  <2>4. \A i \in 1..2: i = 1 \/ i = 2
    OBVIOUS
  <2> HIDE DEF t
  <2>5. \A i \in 1..2: SubSeq(s, 1, 2)[i] = t[i]
    BY <2>2, <2>3, <2>4
  <2>6. SubSeq(s, 1, 2) = t
    BY <2>2, <2>3, <2>5, SeqEqual
  <2> QED
    BY <2>6 DEF t
<1>3. Len(s) = 3 => SubSeq(s, 1, 3) = s
  BY SubSeqFull
<1> QED
  BY <1>1, <1>2, <1>3

LEMMA RowShapes ==
  /\ \A s \in TreeSessions:
       /\ s[1] \in Positive /\ s[2] \in Positive /\ s[3] \in Positive
       /\ s = <<s[1], s[2], s[3]>> /\ Len(s) = 3
       /\ SubSeq(s, 1, 1) = <<s[1]>> /\ SubSeq(s, 1, 2) = <<s[1], s[2]>>
       /\ SubSeq(s, 1, 3) = s
  /\ \A a: Len(<<a>>) = 1 /\ SubSeq(<<a>>, 1, 1) = <<a>>
  /\ \A a, b: Len(<<a, b>>) = 2 /\ SubSeq(<<a, b>>, 1, 1) = <<a>>
              /\ SubSeq(<<a, b>>, 1, 2) = <<a, b>>
<1>1. ASSUME NEW s \in TreeSessions
      PROVE  /\ s[1] \in Positive /\ s[2] \in Positive /\ s[3] \in Positive
             /\ s = <<s[1], s[2], s[3]>> /\ Len(s) = 3
             /\ SubSeq(s, 1, 1) = <<s[1]>> /\ SubSeq(s, 1, 2) = <<s[1], s[2]>>
             /\ SubSeq(s, 1, 3) = s
  <2>1. s \in Positive \X Positive \X Positive
    BY TreeAssumption DEF Positive
  <2>2. s[1] \in Positive /\ s[2] \in Positive /\ s[3] \in Positive
        /\ s = <<s[1], s[2], s[3]>>
    BY <2>1
  <2>3. PICK a \in Positive, b \in Positive, c \in Positive: s = <<a, b, c>>
    BY <2>1
  <2>4. <<a, b, c>> \in Seq(Positive) /\ Len(<<a, b, c>>) = 3
    OBVIOUS
  <2>5. s[1] = a /\ s[2] = b /\ s[3] = c
    BY <2>3
  <2>6. s \in Seq(Positive) /\ Len(s) = 3
    BY <2>3, <2>4
  <2>7. SubSeq(s, 1, 1) = <<s[1]>> /\ SubSeq(s, 1, 2) = <<s[1], s[2]>> /\ SubSeq(s, 1, 3) = s
    <3>1. Len(s) >= 1 /\ Len(s) >= 2
      BY <2>6
    <3> QED
      BY <2>6, <3>1, PrefixesAre
  <2> QED
    BY <2>2, <2>6, <2>7
<1>2. ASSUME NEW a
      PROVE  Len(<<a>>) = 1 /\ SubSeq(<<a>>, 1, 1) = <<a>>
  <2> DEFINE t == <<a>>
  <2>1. t \in Seq({a}) /\ Len(t) = 1 /\ t[1] = a
    OBVIOUS
  <2> HIDE DEF t
  <2>2. SubSeq(t, 1, 1) = <<t[1]>>
    BY <2>1, PrefixesAre
  <2> QED
    BY <2>1, <2>2 DEF t
<1>3. ASSUME NEW a, NEW b
      PROVE  /\ Len(<<a, b>>) = 2 /\ SubSeq(<<a, b>>, 1, 1) = <<a>>
             /\ SubSeq(<<a, b>>, 1, 2) = <<a, b>>
  <2> DEFINE t == <<a, b>>
  <2>1. t \in Seq({a, b}) /\ Len(t) = 2 /\ t[1] = a /\ t[2] = b
    OBVIOUS
  <2> HIDE DEF t
  <2>2. SubSeq(t, 1, 1) = <<t[1]>> /\ SubSeq(t, 1, 2) = <<t[1], t[2]>>
    <3>1. Len(t) >= 1 /\ Len(t) >= 2
      BY <2>1
    <3> QED
      BY <2>1, <3>1, PrefixesAre
  <2> QED
    BY <2>1, <2>2 DEF t
<1> QED
  BY <1>1, <1>2, <1>3

LEMMA RowsAreFinite == IsFiniteSet(AllRows)
<1>1. IsFiniteSet(Hosts1)
  <2> DEFINE f == [s \in TreeSessions |-> <<s[1]>>]
  <2>1. f \in [TreeSessions -> Hosts1] /\ \A h \in Hosts1: \E s \in TreeSessions: f[s] = h
    BY DEF Hosts1
  <2>2. f \in Surjection(TreeSessions, Hosts1)
    BY <2>1 DEF Surjection
  <2> HIDE DEF f
  <2> QED
    BY <2>2, TreeAssumption, FS_Surjection
<1>2. IsFiniteSet(Projects2)
  <2> DEFINE f == [s \in TreeSessions |-> <<s[1], s[2]>>]
  <2>1. f \in [TreeSessions -> Projects2]
        /\ \A h \in Projects2: \E s \in TreeSessions: f[s] = h
    BY DEF Projects2
  <2>2. f \in Surjection(TreeSessions, Projects2)
    BY <2>1 DEF Surjection
  <2> HIDE DEF f
  <2> QED
    BY <2>2, TreeAssumption, FS_Surjection
<1>3. IsFiniteSet(Hosts1 \cup Projects2)
  BY <1>1, <1>2, FS_Union
<1> QED
  BY <1>3, TreeAssumption, FS_Union DEF AllRows

\* The key of a row names it.
LEMMA KeysNameRows ==
  ASSUME NEW list \in NamesOf
  PROVE  /\ \A r \in AllRows: Key(list, r) \in Keys4
         /\ \A q, r \in AllRows: Key(list, q) = Key(list, r) => q = r
<1>1. ASSUME NEW r \in Hosts1
      PROVE  r[1] \in Positive /\ Key(list, r) = <<r[1], 0, 0, 0>> /\ r = <<r[1]>>
  <2>1. PICK s \in TreeSessions: r = <<s[1]>>
    BY DEF Hosts1
  <2>2. Len(r) = 1 /\ r[1] = s[1] /\ s[1] \in Positive
    BY <2>1, RowShapes
  <2> QED
    BY <2>1, <2>2 DEF Key
<1>2. ASSUME NEW r \in Projects2
      PROVE  /\ r[1] \in Positive /\ r[2] \in Positive
             /\ Key(list, r) = <<r[1], r[2], 0, 0>> /\ r = <<r[1], r[2]>>
  <2>1. PICK s \in TreeSessions: r = <<s[1], s[2]>>
    BY DEF Projects2
  <2>2. Len(r) = 2 /\ r[1] = s[1] /\ r[2] = s[2] /\ s[1] \in Positive /\ s[2] \in Positive
    BY <2>1, RowShapes
  <2> QED
    BY <2>1, <2>2 DEF Key
<1>3. ASSUME NEW r \in TreeSessions
      PROVE  /\ r[1] \in Positive /\ r[2] \in Positive /\ r[3] \in Positive
             /\ list[r] \in Nat
             /\ Key(list, r) = <<r[1], r[2], list[r], r[3]>> /\ r = <<r[1], r[2], r[3]>>
  <2>1. Len(r) = 3
    BY RowShapes
  <2>2. list[r] \in Names \cup {0}
    BY DEF NamesOf
  <2>3. list[r] \in Nat
    <3>1. Names \in SUBSET Nat
      BY TreeAssumption
    <3>2. list[r] \in Names \/ list[r] = 0
      BY <2>2
    <3>3. list[r] \in Names => list[r] \in Nat
      BY <3>1, Zenon
    <3> QED
      BY <3>2, <3>3
  <2> QED
    BY <2>1, <2>3, RowShapes DEF Key
<1>4. \A r \in AllRows: Key(list, r) \in Keys4
  BY <1>1, <1>2, <1>3 DEF AllRows, Keys4, Positive
<1>5. ASSUME NEW q \in AllRows, NEW r \in AllRows, Key(list, q) = Key(list, r)
      PROVE  q = r
  <2>1. CASE q \in Hosts1
    <3>1. r \in Hosts1
      BY <1>1, <1>2, <1>3, <1>5, <2>1 DEF AllRows, Positive
    <3> QED
      BY <1>1, <1>5, <2>1, <3>1
  <2>2. CASE q \in Projects2
    <3>1. r \in Projects2
      BY <1>1, <1>2, <1>3, <1>5, <2>2 DEF AllRows, Positive
    <3> QED
      BY <1>2, <1>5, <2>2, <3>1
  <2>3. CASE q \in TreeSessions
    <3>1. r \in TreeSessions
      BY <1>1, <1>2, <1>3, <1>5, <2>3 DEF AllRows, Positive
    <3>2. q[1] = r[1] /\ q[2] = r[2] /\ q[3] = r[3]
      BY <1>3, <1>5, <2>3, <3>1
    <3> QED
      BY <1>3, <2>3, <3>1, <3>2
  <2> QED
    BY <2>1, <2>2, <2>3 DEF AllRows
<1> QED
  BY <1>4, <1>5

\* The order of the rows is total.
Lex(k, l) == \A i \in 1..4: (\A j \in 1..(i - 1): k[j] = l[j]) => k[i] <= l[i]

LEMMA LexIs ==
  ASSUME NEW k \in Keys4, NEW l \in Keys4
  PROVE  Lex(k, l) <=> \/ k[1] < l[1]
                       \/ /\ k[1] = l[1]
                          /\ \/ k[2] < l[2]
                             \/ /\ k[2] = l[2]
                                /\ \/ k[3] < l[3]
                                   \/ k[3] = l[3] /\ k[4] <= l[4]
<1>1. /\ k[1] \in Nat /\ k[2] \in Nat /\ k[3] \in Nat /\ k[4] \in Nat
      /\ l[1] \in Nat /\ l[2] \in Nat /\ l[3] \in Nat /\ l[4] \in Nat
  BY DEF Keys4
<1> DEFINE At(i) == (\A j \in 1..(i - 1): k[j] = l[j]) => k[i] <= l[i]
<1>2. Lex(k, l) <=> At(1) /\ At(2) /\ At(3) /\ At(4)
  <2>1. \A i \in 1..4: i = 1 \/ i = 2 \/ i = 3 \/ i = 4
    OBVIOUS
  <2>2. 1 \in 1..4 /\ 2 \in 1..4 /\ 3 \in 1..4 /\ 4 \in 1..4
    OBVIOUS
  <2>3. Lex(k, l) <=> \A i \in 1..4: At(i)
    BY Zenon DEF Lex
  <2> HIDE DEF At
  <2> QED
    BY <2>1, <2>2, <2>3
<1>3. At(1) <=> k[1] <= l[1]
  OBVIOUS
<1>4. At(2) <=> (k[1] = l[1] => k[2] <= l[2])
  <2>1. \A j \in 1..(2 - 1): j = 1
    OBVIOUS
  <2> QED
    BY <2>1
<1>5. At(3) <=> (k[1] = l[1] /\ k[2] = l[2] => k[3] <= l[3])
  <2>1. \A j \in 1..(3 - 1): j = 1 \/ j = 2
    OBVIOUS
  <2> QED
    BY <2>1
<1>6. At(4) <=> (k[1] = l[1] /\ k[2] = l[2] /\ k[3] = l[3] => k[4] <= l[4])
  <2>1. \A j \in 1..(4 - 1): j = 1 \/ j = 2 \/ j = 3
    OBVIOUS
  <2> QED
    BY <2>1
<1> HIDE DEF At
<1> QED
  BY <1>1, <1>2, <1>3, <1>4, <1>5, <1>6

LEMMA LexIsTotal ==
  /\ \A k \in Keys4: Lex(k, k)
  /\ \A k, l \in Keys4: Lex(k, l) \/ Lex(l, k)
  /\ \A k, l \in Keys4: Lex(k, l) /\ Lex(l, k) => k = l
  /\ \A k, l, m \in Keys4: Lex(k, l) /\ Lex(l, m) => Lex(k, m)
<1>1. \A k \in Keys4: k[1] \in Nat /\ k[2] \in Nat /\ k[3] \in Nat /\ k[4] \in Nat
                      /\ k = <<k[1], k[2], k[3], k[4]>>
  BY DEF Keys4
<1>2. \A k, l \in Keys4: k[1] = l[1] /\ k[2] = l[2] /\ k[3] = l[3] /\ k[4] = l[4] => k = l
  BY <1>1
<1>3. \A k \in Keys4: Lex(k, k)
  BY <1>1, LexIs
<1>4. \A k, l \in Keys4: Lex(k, l) \/ Lex(l, k)
  BY <1>1, LexIs
<1>5. ASSUME NEW k \in Keys4, NEW l \in Keys4, Lex(k, l), Lex(l, k)
      PROVE  k = l
  <2>1. k[1] = l[1] /\ k[2] = l[2] /\ k[3] = l[3] /\ k[4] = l[4]
    BY <1>1, <1>5, LexIs
  <2> QED
    BY <1>2, <2>1
<1>6. ASSUME NEW k \in Keys4, NEW l \in Keys4, NEW m \in Keys4, Lex(k, l), Lex(l, m)
      PROVE  Lex(k, m)
  BY <1>1, <1>6, LexIs
<1> QED
  BY <1>3, <1>4, <1>5, <1>6

\* Every row on screen has an index of its own, and every index a row.
LEMMA RowsIndexed ==
  ASSUME NEW list \in NamesOf, NEW rows \in SUBSET AllRows
  PROVE  /\ Cardinality(rows) \in Nat /\ (rows # {} => Cardinality(rows) # 0)
         /\ IsFiniteSet(rows)
         /\ \A r \in rows: /\ IndexOf(list, rows, r) \in 1..Cardinality(rows)
                           /\ RowAt(list, rows, IndexOf(list, rows, r)) = r
         /\ \A i \in 1..Cardinality(rows): /\ RowAt(list, rows, i) \in rows
                                            /\ IndexOf(list, rows, RowAt(list, rows, i)) = i
         /\ \A q, r \in rows: IndexOf(list, rows, q) <= IndexOf(list, rows, r)
                              => UpTo(list, q, r)
<1> DEFINE R == {p \in AllRows \X AllRows: UpTo(list, p[1], p[2])}
           idx == [r \in rows |-> Cardinality({q \in rows: <<q, r>> \in R})]
<1>1. IsFiniteSet(rows) /\ Cardinality(rows) \in Nat /\ (rows # {} => Cardinality(rows) # 0)
  BY RowsAreFinite, FS_Subset, FS_CardinalityType, FS_EmptySet
<1>2. \A q, r \in AllRows: <<q, r>> \in R <=> UpTo(list, q, r)
  OBVIOUS
<1>3. \A q, r \in AllRows: UpTo(list, q, r) <=> Lex(Key(list, q), Key(list, r))
  BY DEF UpTo, Lex
<1> HIDE DEF R
<1>4. \A q, r \in AllRows: <<q, r>> \in R <=> Lex(Key(list, q), Key(list, r))
  BY <1>2, <1>3
<1>5. \A r \in AllRows: Key(list, r) \in Keys4
  BY KeysNameRows
<1>6. Ordered(rows, R)
  <2>1. \A a \in rows: <<a, a>> \in R
    BY <1>4, <1>5, LexIsTotal
  <2>2. \A a, b \in rows: <<a, b>> \in R \/ <<b, a>> \in R
    BY <1>4, <1>5, LexIsTotal
  <2>3. ASSUME NEW a \in rows, NEW b \in rows, <<a, b>> \in R, <<b, a>> \in R
        PROVE  a = b
    <3>1. Key(list, a) = Key(list, b)
      BY <1>4, <1>5, <2>3, LexIsTotal
    <3> QED
      BY <3>1, KeysNameRows
  <2>4. \A a, b, c \in rows: <<a, b>> \in R /\ <<b, c>> \in R => <<a, c>> \in R
    BY <1>4, <1>5, LexIsTotal
  <2> QED
    BY <2>1, <2>2, <2>3, <2>4 DEF Ordered
<1>7. \A r \in rows: IndexOf(list, rows, r) = idx[r]
  <2> SUFFICES ASSUME NEW r \in rows PROVE IndexOf(list, rows, r) = idx[r]
    OBVIOUS
  <2>1. {q \in rows: UpTo(list, q, r)} = {q \in rows: <<q, r>> \in R}
    BY <1>2
  <2> QED
    BY <2>1 DEF IndexOf
<1>8. /\ idx \in [rows -> 1..Cardinality(rows)]
      /\ \A a, b \in rows: idx[a] = idx[b] => a = b
      /\ \A a, b \in rows: idx[a] <= idx[b] => <<a, b>> \in R
      /\ \A n \in 1..Cardinality(rows): \E a \in rows: idx[a] = n
  <2> DEFINE f == [r \in rows |-> Cardinality({q \in rows: <<q, r>> \in R})]
  <2>1. PICK g: g = f
    OBVIOUS
  <2>2. /\ g \in [rows -> 1..Cardinality(rows)]
        /\ \A a, b \in rows: g[a] = g[b] => a = b
        /\ \A a, b \in rows: g[a] <= g[b] => <<a, b>> \in R
        /\ \A n \in 1..Cardinality(rows): \E a \in rows: g[a] = n
    BY <1>1, <1>6, <2>1, RanksFill
  <2>3. idx = g
    BY <2>1
  <2> HIDE DEF idx, f
  <2> QED
    BY <2>2, <2>3
<1> HIDE DEF idx
<1>9. ASSUME NEW i \in 1..Cardinality(rows)
      PROVE  RowAt(list, rows, i) \in rows /\ idx[RowAt(list, rows, i)] = i
  <2>1. PICK a \in rows: IndexOf(list, rows, a) = i
    BY <1>7, <1>8
  <2>2. /\ (CHOOSE r \in rows: IndexOf(list, rows, r) = i) \in rows
        /\ IndexOf(list, rows, CHOOSE r \in rows: IndexOf(list, rows, r) = i) = i
    BY <2>1
  <2> QED
    BY <1>7, <2>2 DEF RowAt
<1>10. ASSUME NEW r \in rows
       PROVE  /\ IndexOf(list, rows, r) \in 1..Cardinality(rows)
              /\ RowAt(list, rows, IndexOf(list, rows, r)) = r
  <2>1. IndexOf(list, rows, r) = idx[r] /\ idx[r] \in 1..Cardinality(rows)
    BY <1>7, <1>8
  <2> QED
    BY <1>8, <1>9, <2>1
<1>11. \A i \in 1..Cardinality(rows): IndexOf(list, rows, RowAt(list, rows, i)) = i
  BY <1>7, <1>9
<1>12. ASSUME NEW q \in rows, NEW r \in rows, IndexOf(list, rows, q) <= IndexOf(list, rows, r)
       PROVE  UpTo(list, q, r)
  BY <1>2, <1>7, <1>8, <1>12
<1> QED
  BY <1>1, <1>9, <1>10, <1>11, <1>12

-----------------------------------------------------------------------------
\* What is on screen.

\* A session the list has and the filter lets through.
Passes(list, wanted, s) ==
  s \in TreeSessions /\ list[s] # 0 /\ (wanted = 0 \/ list[s] = wanted)
OpenIn(shut, wanted, head) == wanted # 0 \/ head \notin shut

\* Session s puts row r on screen.
PutsUp(list, shut, wanted, s, r) ==
  /\ Passes(list, wanted, s)
  /\ \/ r = <<s[1]>>
     \/ OpenIn(shut, wanted, <<s[1]>>) /\ r = <<s[1], s[2]>>
     \/ /\ OpenIn(shut, wanted, <<s[1]>>) /\ OpenIn(shut, wanted, <<s[1], s[2]>>)
        /\ r = s

LEMMA RowSetIs ==
  ASSUME NEW list, NEW shut, NEW wanted, NEW r
  PROVE  r \in RowSet(list, shut, wanted)
           <=> \E s \in TreeSessions: PutsUp(list, shut, wanted, s, r)
<1>1. \A s \in TreeSessions: SubSeq(s, 1, 1) = <<s[1]>> /\ SubSeq(s, 1, 2) = <<s[1], s[2]>>
  BY RowShapes
<1> DEFINE match == {s \in TreeSessions: Passes(list, wanted, s)}
           open1 == {s \in match: OpenIn(shut, wanted, SubSeq(s, 1, 1))}
<1>2. RowSet(list, shut, wanted)
        = {SubSeq(s, 1, 1): s \in match} \cup {SubSeq(s, 1, 2): s \in open1}
            \cup {s \in open1: OpenIn(shut, wanted, SubSeq(s, 1, 2))}
  <2> DEFINE given == {s \in TreeSessions: list[s] # 0}
             m == IF wanted = 0 THEN given ELSE {s \in given: list[s] = wanted}
  <2>1. m = match
    BY DEF Passes
  <2>2. RowSet(list, shut, wanted)
          = {SubSeq(s, 1, 1): s \in m}
            \cup {SubSeq(s, 1, 2): s \in {s \in m: wanted # 0 \/ SubSeq(s, 1, 1) \notin shut}}
            \cup {s \in {s \in m: wanted # 0 \/ SubSeq(s, 1, 1) \notin shut}:
                    wanted # 0 \/ SubSeq(s, 1, 2) \notin shut}
    BY Zenon DEF RowSet
  <2> HIDE DEF m, match
  <2> QED
    BY <2>1, <2>2, Zenon DEF OpenIn
<1>3. \A s: s \in match <=> s \in TreeSessions /\ Passes(list, wanted, s)
  OBVIOUS
<1>4. \A s: s \in open1 <=> s \in match /\ OpenIn(shut, wanted, SubSeq(s, 1, 1))
  OBVIOUS
<1> HIDE DEF match, open1
<1>5. r \in RowSet(list, shut, wanted)
        <=> \/ \E s \in match: r = SubSeq(s, 1, 1)
            \/ \E s \in open1: r = SubSeq(s, 1, 2)
            \/ r \in open1 /\ OpenIn(shut, wanted, SubSeq(r, 1, 2))
  BY <1>2
<1> QED
  BY <1>1, <1>3, <1>4, <1>5, Zenon DEF PutsUp

LEMMA RowSetFits ==
  ASSUME NEW list, NEW shut, NEW wanted
  PROVE  /\ RowSet(list, shut, wanted) \in SUBSET AllRows
         /\ \A less \in SUBSET shut:
              RowSet(list, shut, wanted) \subseteq RowSet(list, less, wanted)
         /\ \A other: RowSet(list, shut, wanted) = {} => RowSet(list, other, wanted) = {}
<1>1. ASSUME NEW r \in RowSet(list, shut, wanted)
      PROVE  r \in AllRows
  <2>1. PICK s \in TreeSessions: PutsUp(list, shut, wanted, s, r)
    BY <1>1, RowSetIs
  <2>2. r = <<s[1]>> \/ r = <<s[1], s[2]>> \/ r = s
    BY <2>1 DEF PutsUp
  <2> QED
    BY <2>2 DEF AllRows, Hosts1, Projects2
<1>2. ASSUME NEW less \in SUBSET shut, NEW r \in RowSet(list, shut, wanted)
      PROVE  r \in RowSet(list, less, wanted)
  <2>1. \A h: OpenIn(shut, wanted, h) => OpenIn(less, wanted, h)
    BY DEF OpenIn
  <2>2. PICK s \in TreeSessions: PutsUp(list, shut, wanted, s, r)
    BY <1>2, RowSetIs
  <2>3. PutsUp(list, less, wanted, s, r)
    BY <2>1, <2>2 DEF PutsUp
  <2> QED
    BY <2>3, RowSetIs
<1>3. ASSUME NEW other, NEW r \in RowSet(list, other, wanted)
      PROVE  RowSet(list, shut, wanted) # {}
  <2>1. PICK s \in TreeSessions: PutsUp(list, other, wanted, s, r)
    BY <1>3, RowSetIs
  <2>2. PutsUp(list, shut, wanted, s, <<s[1]>>)
    BY <2>1 DEF PutsUp
  <2>3. <<s[1]>> \in RowSet(list, shut, wanted)
    BY <2>2, RowSetIs
  <2> QED
    BY <2>3
<1> QED
  BY <1>1, <1>2, <1>3

\* What heads a row on screen is on screen, however its own fold is.
Headed(list, r) ==
  \E s \in TreeSessions: /\ list[s] # 0 /\ SubSeq(s, 1, Len(r)) = r
                         /\ SubSeq(r, 1, 1) = SubSeq(s, 1, 1)
                         /\ Len(r) # 1 => SubSeq(r, 1, 2) = SubSeq(s, 1, 2)

LEMMA HeadsStay ==
  ASSUME NEW list, NEW shut, NEW wanted, NEW r \in RowSet(list, shut, wanted)
  PROVE  /\ \A other: SubSeq(r, 1, 1) \in RowSet(list, other, wanted)
         /\ Len(r) # 1 => SubSeq(r, 1, 2) \in RowSet(list, shut \cup {SubSeq(r, 1, 2)}, wanted)
         /\ Headed(list, r)
<1>0. PICK s \in TreeSessions: PutsUp(list, shut, wanted, s, r)
  BY RowSetIs
<1>1. /\ Passes(list, wanted, s)
      /\ \/ r = <<s[1]>>
         \/ OpenIn(shut, wanted, <<s[1]>>) /\ r = <<s[1], s[2]>>
         \/ /\ OpenIn(shut, wanted, <<s[1]>>) /\ OpenIn(shut, wanted, <<s[1], s[2]>>)
            /\ r = s
  BY <1>0 DEF PutsUp
<1>2. /\ Len(s) = 3 /\ SubSeq(s, 1, 1) = <<s[1]>> /\ SubSeq(s, 1, 2) = <<s[1], s[2]>>
      /\ SubSeq(s, 1, 3) = s /\ list[s] # 0
  BY <1>1, RowShapes DEF Passes
<1>3. \A other: <<s[1]>> \in RowSet(list, other, wanted)
  <2> SUFFICES ASSUME NEW other PROVE <<s[1]>> \in RowSet(list, other, wanted)
    OBVIOUS
  <2>1. PutsUp(list, other, wanted, s, <<s[1]>>)
    BY <1>1 DEF PutsUp
  <2> QED
    BY <2>1, RowSetIs
<1>4. CASE r = <<s[1]>>
  <2>1. Len(r) = 1 /\ SubSeq(r, 1, 1) = <<s[1]>>
    BY <1>4, RowShapes
  <2> QED
    BY <1>2, <1>3, <1>4, <2>1 DEF Headed
<1>5. CASE OpenIn(shut, wanted, <<s[1]>>) /\ (r = <<s[1], s[2]>> \/ r = s)
  <2>1. SubSeq(r, 1, 1) = <<s[1]>> /\ SubSeq(r, 1, 2) = <<s[1], s[2]>>
        /\ SubSeq(s, 1, Len(r)) = r
    BY <1>2, <1>5, RowShapes
  <2>2. <<s[1]>> # <<s[1], s[2]>>
    <3>1. Len(<<s[1]>>) = 1 /\ Len(<<s[1], s[2]>>) = 2
      BY RowShapes
    <3> QED
      BY <3>1
  <2>3. OpenIn(shut \cup {<<s[1], s[2]>>}, wanted, <<s[1]>>)
    BY <1>5, <2>2 DEF OpenIn
  <2>4. <<s[1], s[2]>> \in RowSet(list, shut \cup {<<s[1], s[2]>>}, wanted)
    <3>1. PutsUp(list, shut \cup {<<s[1], s[2]>>}, wanted, s, <<s[1], s[2]>>)
      BY <1>1, <2>3 DEF PutsUp
    <3> QED
      BY <3>1, RowSetIs
  <2> QED
    BY <1>2, <1>3, <2>1, <2>4 DEF Headed
<1> QED
  BY <1>1, <1>4, <1>5

-----------------------------------------------------------------------------
\* The cursor.

\* A cursor that is on a row whenever there are rows.
OnRow(rows, i) == i \in Nat \ {0} /\ (rows # {} => i \in 1..Cardinality(rows))

LEMMA CursorLands ==
  ASSUME NEW list \in NamesOf, NEW rows \in SUBSET AllRows
  PROVE  /\ OnRow(rows, 1)
         /\ \A i \in Int: OnRow(rows, ClampRow(rows, i))
         /\ \A r, i: OnRow(rows, i) => OnRow(rows, Seek(list, rows, r, i))
         /\ \A r \in rows: \A i: OnRow(rows, Seek(list, rows, r, i))
         /\ \A more \in SUBSET AllRows: \A i:
              rows \subseteq more /\ (rows = {} => more = {}) /\ OnRow(rows, i)
              => OnRow(more, i)
<1>1. Cardinality(rows) \in Nat /\ (rows # {} => Cardinality(rows) # 0)
  BY RowsIndexed
<1>2. OnRow(rows, 1)
  BY <1>1 DEF OnRow
<1>3. ASSUME NEW i \in Int
      PROVE  OnRow(rows, ClampRow(rows, i))
  <2>1. CASE i < 1 \/ rows = {}
    <3>1. ClampRow(rows, i) = 1
      BY <2>1, Zenon DEF ClampRow
    <3> QED
      BY <1>2, <3>1
  <2>2. CASE i >= 1 /\ rows # {} /\ i > Cardinality(rows)
    <3>1. ClampRow(rows, i) = Cardinality(rows)
      BY <1>1, <2>2 DEF ClampRow
    <3> QED
      BY <1>1, <2>2, <3>1 DEF OnRow
  <2>3. CASE i >= 1 /\ rows # {} /\ i <= Cardinality(rows)
    <3>1. ClampRow(rows, i) = i
      BY <1>1, <2>3 DEF ClampRow
    <3> QED
      BY <1>1, <2>3, <3>1 DEF OnRow
  <2> QED
    BY <1>1, <2>1, <2>2, <2>3
<1>4. ASSUME NEW r \in rows, NEW i
      PROVE  OnRow(rows, Seek(list, rows, r, i))
  <2>1. IndexOf(list, rows, r) \in 1..Cardinality(rows)
    BY RowsIndexed
  <2> QED
    BY <1>1, <2>1 DEF OnRow, Seek
<1>5. ASSUME NEW r, NEW i, OnRow(rows, i)
      PROVE  OnRow(rows, Seek(list, rows, r, i))
  BY <1>4, <1>5 DEF Seek
<1>6. ASSUME NEW more \in SUBSET AllRows, NEW i, rows \subseteq more,
             rows = {} => more = {}, OnRow(rows, i)
      PROVE  OnRow(more, i)
  <2>1. IsFiniteSet(more) /\ Cardinality(more) \in Nat
    BY RowsIndexed
  <2>2. Cardinality(rows) <= Cardinality(more)
    BY <1>6, <2>1, FS_Subset
  <2> QED
    BY <1>1, <1>6, <2>1, <2>2 DEF OnRow
<1> QED
  BY <1>2, <1>3, <1>4, <1>5, <1>6

\* What the cursor is on stands for a session the list has.
LEMMA CursorChooses ==
  ASSUME NEW list \in NamesOf, NEW shut, NEW wanted, NEW rows,
         rows = RowSet(list, shut, wanted), NEW i, OnRow(rows, i)
  PROVE  SessionAt(list, rows, i) \in TreeSessions \cup {NoLeaf}
<1>1. CASE rows = {}
  BY <1>1 DEF SessionAt
<1>2. CASE rows # {}
  <2> DEFINE line == RowAt(list, rows, i)
             beneath == {s \in TreeSessions: list[s] # 0 /\ SubSeq(s, 1, Len(line)) = line}
             first == RowAt(list, beneath, 1)
  <2>1. rows \in SUBSET AllRows /\ i \in 1..Cardinality(rows)
    BY <1>2, RowSetFits DEF OnRow
  <2>2. line \in rows
    BY <2>1, RowsIndexed
  <2>3. beneath # {}
    <3> HIDE DEF line
    <3>0. line \in RowSet(list, shut, wanted)
      BY <2>2
    <3>1. Headed(list, line)
      BY <3>0, HeadsStay
    <3>2. PICK s \in TreeSessions: list[s] # 0 /\ SubSeq(s, 1, Len(line)) = line
      BY <3>1 DEF Headed
    <3> QED
      BY <3>2
  <2>4. beneath \in SUBSET AllRows
    BY DEF AllRows
  <2> HIDE DEF beneath
  <2>5. Cardinality(beneath) \in Nat /\ 1 \in 1..Cardinality(beneath)
    BY <2>3, <2>4, RowsIndexed
  <2>6. first \in beneath /\ IndexOf(list, beneath, first) = 1
    BY <2>4, <2>5, RowsIndexed
  <2> HIDE DEF first
  <2>7. \A t \in beneath: UpTo(list, first, t)
    <3> SUFFICES ASSUME NEW t \in beneath PROVE UpTo(list, first, t)
      OBVIOUS
    <3>1. IndexOf(list, beneath, t) \in 1..Cardinality(beneath)
      BY <2>4, RowsIndexed
    <3>2. IndexOf(list, beneath, first) <= IndexOf(list, beneath, t)
      BY <2>5, <2>6, <3>1
    <3> QED
      BY <2>4, <2>6, <3>2, RowsIndexed
  <2>8. (CHOOSE s \in beneath: \A t \in beneath: UpTo(list, s, t)) \in beneath
    BY <2>6, <2>7
  <2>9. SessionAt(list, rows, i) = CHOOSE s \in beneath: \A t \in beneath: UpTo(list, s, t)
    BY <1>2, Zenon DEF SessionAt, beneath
  <2>10. \A s \in beneath: s \in TreeSessions
    BY DEF beneath
  <2> QED
    BY <2>8, <2>9, <2>10
<1> QED
  BY <1>1, <1>2

-----------------------------------------------------------------------------
\* The steps of the tree.

TreeInv == TreeTypeOK /\ CursorOnScreen

LEMMA TreeIs == TreeInv <=> TreeTypeOK /\ OnRow(TreeRows, atRow)
  BY DEF TreeInv, TreeTypeOK, CursorOnScreen, OnRow

LEMMA TreeStarts == TreeInit => TreeInv
<1> SUFFICES ASSUME TreeInit PROVE TreeInv
  OBVIOUS
<1>1. leaves \in NamesOf /\ there \in NamesOf /\ atRow = 1 /\ closed = {} /\ needle = 0
      /\ treeChanges = 0
  BY DEF TreeInit
<1>2. chosen \in TreeSessions \cup {NoLeaf}
  <2> DEFINE given == {s \in TreeSessions: there[s] # 0}
  <2>1. IF given = {} THEN chosen = NoLeaf ELSE chosen \in given
    BY DEF TreeInit
  <2> QED
    BY <2>1
<1>3. TreeRows \in SUBSET AllRows
  BY RowSetFits DEF TreeRows
<1>4. OnRow(TreeRows, atRow)
  BY <1>1, <1>3, CursorLands
<1>5. 0 \in 0..MaxTreeChanges
  BY TreeAssumption
<1>6. TreeTypeOK
  <2>1. needle \in Names \cup {0} /\ treeChanges \in 0..MaxTreeChanges
        /\ closed \subseteq Heads(1, leaves) \cup Heads(2, leaves)
    BY <1>1, <1>5
  <2> QED
    BY <1>1, <1>2, <1>4, <2>1, Zenon DEF TreeTypeOK, OnRow
<1> QED
  BY <1>4, <1>6, TreeIs

\* What every state of the tree has.
LEMMA TreeHas ==
  ASSUME TreeInv
  PROVE  /\ there \in NamesOf /\ leaves \in NamesOf
         /\ closed \subseteq Heads(1, leaves) \cup Heads(2, leaves)
         /\ needle \in Names \cup {0}
         /\ chosen \in TreeSessions \cup {NoLeaf}
         /\ treeChanges \in 0..MaxTreeChanges
         /\ atRow \in Nat \ {0} /\ OnRow(TreeRows, atRow)
         /\ TreeRows = RowSet(leaves, closed, needle) /\ TreeRows \in SUBSET AllRows
  BY TreeIs, RowSetFits DEF TreeTypeOK, TreeRows

\* A state like that is a good one.
LEMMA TreeHolds ==
  ASSUME there' \in NamesOf, leaves' \in NamesOf,
         closed' \subseteq Heads(1, leaves') \cup Heads(2, leaves'),
         needle' \in Names \cup {0}, chosen' \in TreeSessions \cup {NoLeaf},
         treeChanges' \in 0..MaxTreeChanges,
         OnRow(RowSet(leaves', closed', needle'), atRow')
  PROVE  TreeInv'
<1>1. TreeRows' = RowSet(leaves', closed', needle')
  BY DEF TreeRows
<1>2. atRow' \in Nat \ {0}
  BY DEF OnRow
<1>3. TreeTypeOK'
  BY <1>2 DEF TreeTypeOK
<1>4. CursorOnScreen'
  BY <1>1 DEF CursorOnScreen, OnRow
<1> QED
  BY <1>3, <1>4 DEF TreeInv

LEMMA MoveSteps ==
  ASSUME TreeInv, NEW i, OnRow(TreeRows, i), MoveTo(i)
  PROVE  TreeInv'
<1>1. /\ there' = there /\ leaves' = leaves /\ closed' = closed /\ needle' = needle
      /\ treeChanges' = treeChanges /\ atRow' = i /\ chosen' = SessionAt(leaves, TreeRows, i)
  BY DEF MoveTo, Choose
<1>2. chosen' \in TreeSessions \cup {NoLeaf}
  BY <1>1, TreeHas, CursorChooses
<1>3. OnRow(RowSet(leaves', closed', needle'), atRow')
  BY <1>1, TreeHas
<1> QED
  BY <1>1, <1>2, <1>3, TreeHas, TreeHolds

LEMMA FilterSteps ==
  ASSUME TreeInv, SetFilter
  PROVE  TreeInv'
<1>1. PICK w \in Names \cup {0}:
        LET rows == RowSet(leaves, closed, w)
            i == ClampRow(rows, atRow)
        IN /\ needle' = w /\ atRow' = i
           /\ \/ Choose(rows, i)
              \/ w = 0 /\ UNCHANGED chosen
  BY Zenon DEF SetFilter
<1>2. /\ there' = there /\ leaves' = leaves /\ closed' = closed
      /\ treeChanges' = treeChanges
  BY DEF SetFilter
<1>3. PICK rows: rows = RowSet(leaves, closed, w)
  OBVIOUS
<1>4. PICK i: i = ClampRow(rows, atRow)
  OBVIOUS
<1>5. /\ needle' = w /\ atRow' = i
      /\ chosen' = SessionAt(leaves, rows, i) \/ chosen' = chosen
  BY <1>1, <1>3, <1>4 DEF Choose
<1>6. rows \in SUBSET AllRows
  BY <1>3, RowSetFits
<1>7. OnRow(rows, i)
  <2>1. atRow \in Int /\ leaves \in NamesOf
    BY TreeHas
  <2> QED
    BY <1>4, <1>6, <2>1, CursorLands
<1>8. chosen' \in TreeSessions \cup {NoLeaf}
  <2>1. SessionAt(leaves, rows, i) \in TreeSessions \cup {NoLeaf}
    BY <1>3, <1>7, TreeHas, CursorChooses
  <2> QED
    BY <1>5, <2>1, TreeHas
<1>9. OnRow(RowSet(leaves', closed', needle'), atRow')
  BY <1>2, <1>3, <1>5, <1>7
<1> QED
  BY <1>2, <1>5, <1>8, <1>9, TreeHas, TreeHolds

LEMMA FoldSteps ==
  ASSUME TreeInv, Fold
  PROVE  TreeInv'
<1>1. TreeRows # {} /\ there' = there /\ leaves' = leaves /\ needle' = needle
      /\ chosen' = chosen /\ treeChanges' = treeChanges
  BY DEF Fold
<1>2. PICK r: r = RowAt(leaves, TreeRows, atRow)
  OBVIOUS
<1>3. PICK target:
        target = IF Len(r) = 1 \/ (Len(r) = 2 /\ r \in closed)
                 THEN SubSeq(r, 1, 1) ELSE SubSeq(r, 1, 2)
  OBVIOUS
<1>4. closed' = closed \cup {target}
      /\ atRow' = Seek(leaves, RowSet(leaves, closed', needle), target, atRow)
  BY <1>2, <1>3, Zenon DEF Fold
<1>5. r \in TreeRows
  <2>1. atRow \in 1..Cardinality(TreeRows)
    BY <1>1, TreeHas DEF OnRow
  <2> QED
    BY <1>2, <2>1, TreeHas, RowsIndexed
<1>50. r \in RowSet(leaves, closed, needle)
  BY <1>5, TreeHas
<1>51. Headed(leaves, r)
  BY <1>50, HeadsStay
<1>6. PICK s \in TreeSessions: /\ leaves[s] # 0
                               /\ SubSeq(r, 1, 1) = SubSeq(s, 1, 1)
                               /\ Len(r) # 1 => SubSeq(r, 1, 2) = SubSeq(s, 1, 2)
  BY <1>51 DEF Headed
<1>7. target \in Heads(1, leaves) \cup Heads(2, leaves)
  <2>1. SubSeq(s, 1, 1) \in Heads(1, leaves) /\ SubSeq(s, 1, 2) \in Heads(2, leaves)
    BY <1>6 DEF Heads
  <2> QED
    BY <1>3, <1>6, <2>1
<1>8. target \in RowSet(leaves, closed', needle)
  <2>1. CASE target = SubSeq(r, 1, 1)
    BY <1>50, <2>1, HeadsStay
  <2>2. CASE target # SubSeq(r, 1, 1)
    <3>1. Len(r) # 1 /\ target = SubSeq(r, 1, 2)
      BY <1>3, <2>2
    <3>2. SubSeq(r, 1, 2) \in RowSet(leaves, closed \cup {SubSeq(r, 1, 2)}, needle)
      BY <1>50, <3>1, HeadsStay
    <3> QED
      BY <1>4, <3>1, <3>2
  <2> QED
    BY <2>1, <2>2
<1>9. OnRow(RowSet(leaves', closed', needle'), atRow')
  <2> DEFINE rows == RowSet(leaves, closed', needle)
  <2>1. rows \in SUBSET AllRows
    BY RowSetFits
  <2> HIDE DEF rows
  <2>2. leaves \in NamesOf /\ target \in rows
    BY <1>8, TreeHas DEF rows
  <2>3. OnRow(rows, Seek(leaves, rows, target, atRow))
    BY <2>1, <2>2, CursorLands
  <2> QED
    BY <1>1, <1>4, <2>3 DEF rows
<1>10. closed' \subseteq Heads(1, leaves') \cup Heads(2, leaves')
  BY <1>1, <1>4, <1>7, TreeHas
<1> QED
  BY <1>1, <1>9, <1>10, TreeHas, TreeHolds

\* Opening a header leaves the rows above and below on screen.
LEMMA OpeningKeeps ==
  ASSUME TreeInv, NEW less \in SUBSET closed
  PROVE  OnRow(RowSet(leaves, less, needle), atRow)
<1>1. /\ TreeRows \subseteq RowSet(leaves, less, needle)
      /\ TreeRows = {} => RowSet(leaves, less, needle) = {}
      /\ RowSet(leaves, less, needle) \in SUBSET AllRows
  BY RowSetFits DEF TreeRows
<1> QED
  BY <1>1, TreeHas, CursorLands

LEMMA UnfoldSteps ==
  ASSUME TreeInv, Unfold \/ FocusGroup
  PROVE  TreeInv'
<1>1. CASE Unfold
  <2>1. /\ there' = there /\ leaves' = leaves /\ needle' = needle /\ atRow' = atRow
        /\ chosen' = chosen /\ treeChanges' = treeChanges
    BY <1>1 DEF Unfold
  <2>2. closed' \in SUBSET closed
    BY <1>1 DEF Unfold
  <2>3. OnRow(RowSet(leaves', closed', needle'), atRow')
    BY <2>1, <2>2, OpeningKeeps
  <2>4. closed' \subseteq Heads(1, leaves') \cup Heads(2, leaves')
    BY <2>1, <2>2, TreeHas
  <2> QED
    BY <2>1, <2>3, <2>4, TreeHas, TreeHolds
<1>2. CASE FocusGroup
  <2>1. PICK g: /\ closed' = closed \ {g}
                /\ atRow' = Seek(leaves, RowSet(leaves, closed', needle), g, atRow)
    BY <1>2 DEF FocusGroup
  <2>2. /\ there' = there /\ leaves' = leaves /\ needle' = needle
        /\ chosen' = chosen /\ treeChanges' = treeChanges
    BY <1>2 DEF FocusGroup
  <2> DEFINE rows == RowSet(leaves, closed', needle)
  <2>3. OnRow(rows, atRow)
    BY <2>1, OpeningKeeps
  <2>4. rows \in SUBSET AllRows /\ leaves \in NamesOf
    BY RowSetFits, TreeHas
  <2> HIDE DEF rows
  <2>5. OnRow(rows, Seek(leaves, rows, g, atRow))
    BY <2>3, <2>4, CursorLands
  <2>6. OnRow(RowSet(leaves', closed', needle'), atRow')
    BY <2>1, <2>2, <2>5 DEF rows
  <2>7. closed' \subseteq Heads(1, leaves') \cup Heads(2, leaves')
    BY <2>1, <2>2, TreeHas
  <2> QED
    BY <2>2, <2>6, <2>7, TreeHas, TreeHolds
<1> QED
  BY <1>1, <1>2

\* What is kept of the selection and of the folds when a list arrives.
Kept(list) == IF chosen # NoLeaf /\ list[chosen] = 0 THEN NoLeaf ELSE chosen
Shut(list) == closed \cap (Heads(1, list) \cup Heads(2, list))

LEMMA ArrivalSteps ==
  ASSUME TreeInv, NEW list \in NamesOf, leaves' = list, closed' = Shut(list),
         chosen' = Kept(list), there' \in NamesOf, needle' = needle,
         treeChanges' \in 0..MaxTreeChanges,
         OnRow(RowSet(list, Shut(list), needle), atRow')
  PROVE  TreeInv'
<1>1. chosen' \in TreeSessions \cup {NoLeaf}
  BY TreeHas DEF Kept
<1>2. closed' \subseteq Heads(1, leaves') \cup Heads(2, leaves')
  BY DEF Shut
<1>3. OnRow(RowSet(leaves', closed', needle'), atRow')
  OBVIOUS
<1> QED
  BY <1>1, <1>2, <1>3, TreeHas, TreeHolds

LEMMA RebuiltSteps ==
  ASSUME TreeInv, NEW list \in NamesOf, Rebuilt(list)
  PROVE  TreeInv'
<1> DEFINE rows == RowSet(list, Shut(list), needle)
<1>1. /\ leaves' = list /\ closed' = Shut(list) /\ chosen' = Kept(list)
      /\ atRow' = Seek(list, rows, Kept(list), 1)
      /\ there' = there /\ needle' = needle /\ treeChanges' = treeChanges
  BY Zenon DEF Rebuilt, Shut, Kept
<1>2. rows \in SUBSET AllRows
  BY RowSetFits
<1>3. OnRow(rows, atRow')
  <2> HIDE DEF rows
  <2>1. OnRow(rows, 1)
    BY <1>2, CursorLands
  <2>2. OnRow(rows, Seek(list, rows, Kept(list), 1))
    BY <1>2, <2>1, CursorLands
  <2> QED
    BY <1>1, <2>2
<1> QED
  BY <1>1, <1>3, TreeHas, ArrivalSteps

LEMMA RowEventSteps ==
  ASSUME TreeInv, NEW s, RowEvent(s)
  PROVE  TreeInv'
<1> DEFINE rows == RowSet(there, Shut(there), needle)
<1>1. /\ leaves' = there /\ closed' = Shut(there) /\ chosen' = Kept(there)
      /\ atRow' = Seek(there, rows, s, Seek(there, rows, Kept(there), 1))
      /\ there' = there /\ needle' = needle /\ treeChanges' = treeChanges
  BY Zenon DEF RowEvent, Shut, Kept
<1>2. rows \in SUBSET AllRows /\ there \in NamesOf
  BY RowSetFits, TreeHas
<1>3. OnRow(rows, atRow')
  <2> HIDE DEF rows
  <2>1. OnRow(rows, 1)
    BY <1>2, CursorLands
  <2>2. OnRow(rows, Seek(there, rows, Kept(there), 1))
    BY <1>2, <2>1, CursorLands
  <2>3. OnRow(rows, Seek(there, rows, s, Seek(there, rows, Kept(there), 1)))
    BY <1>2, <2>2, CursorLands
  <2> QED
    BY <1>1, <2>3
<1> QED
  BY <1>1, <1>2, <1>3, TreeHas, ArrivalSteps

LEMMA TreeSteps ==
  ASSUME TreeInv, [TreeNext]_treeVars
  PROVE  TreeInv'
<1>1. CASE MoveCursorBy(1) \/ MoveCursorBy(-1)
  <2>1. PICK d \in Int: MoveTo(ClampRow(TreeRows, atRow + d))
    BY <1>1 DEF MoveCursorBy
  <2>2. OnRow(TreeRows, ClampRow(TreeRows, atRow + d))
    <3>1. atRow + d \in Int
      BY TreeHas
    <3> QED
      BY <3>1, TreeHas, CursorLands
  <2> QED
    BY <2>1, <2>2, MoveSteps
<1>2. ASSUME NEW s \in TreeSessions, PickSession(s)
      PROVE  TreeInv'
  <2>1. MoveTo(Seek(leaves, TreeRows, s, atRow))
    BY <1>2 DEF PickSession
  <2>2. OnRow(TreeRows, Seek(leaves, TreeRows, s, atRow))
    BY TreeHas, CursorLands
  <2> QED
    BY <2>1, <2>2, MoveSteps
<1>3. CASE SetFilter
  BY <1>3, FilterSteps
<1>4. CASE Fold
  BY <1>4, FoldSteps
<1>5. CASE Unfold \/ FocusGroup
  BY <1>5, UnfoldSteps
<1>6. CASE DaemonChanges
  <2>1. /\ treeChanges < MaxTreeChanges /\ treeChanges' = treeChanges + 1
        /\ leaves' = leaves /\ closed' = closed /\ needle' = needle /\ atRow' = atRow
        /\ chosen' = chosen
    BY <1>6 DEF DaemonChanges
  <2>2. PICK s \in TreeSessions, n \in Names \cup {0}: there' = [there EXCEPT ![s] = n]
    BY <1>6 DEF DaemonChanges
  <2>3. there' \in NamesOf
    BY <2>2, TreeHas DEF NamesOf
  <2>4. treeChanges' \in 0..MaxTreeChanges
    BY <2>1, TreeHas, TreeAssumption
  <2>5. OnRow(RowSet(leaves', closed', needle'), atRow')
    BY <2>1, TreeHas
  <2> QED
    BY <2>1, <2>3, <2>4, <2>5, TreeHas, TreeHolds
<1>7. CASE RefreshTree
  BY <1>7, TreeHas, RebuiltSteps DEF RefreshTree
<1>8. CASE RefreshFails
  <2>1. [s \in TreeSessions |-> 0] \in NamesOf
    BY DEF NamesOf
  <2>2. Rebuilt([s \in TreeSessions |-> 0])
    BY <1>8 DEF RefreshFails
  <2> QED
    BY <2>1, <2>2, RebuiltSteps
<1>9. ASSUME NEW s \in TreeSessions, RowEvent(s)
      PROVE  TreeInv'
  BY <1>9, RowEventSteps
<1>10. CASE UNCHANGED treeVars
  <2>1. /\ there' = there /\ leaves' = leaves /\ closed' = closed /\ needle' = needle
        /\ atRow' = atRow /\ chosen' = chosen /\ treeChanges' = treeChanges
    BY <1>10 DEF treeVars
  <2>2. OnRow(RowSet(leaves', closed', needle'), atRow')
    BY <2>1, TreeHas
  <2> QED
    BY <2>1, <2>2, TreeHas, TreeHolds
<1> QED
  BY <1>1, <1>2, <1>3, <1>4, <1>5, <1>6, <1>7, <1>8, <1>9, <1>10 DEF TreeNext

\* A refresh that keeps the user where they were, in one step.
PlaceIsKept ==
  RefreshTree =>
    /\ closed' = closed \cap (Heads(1, leaves') \cup Heads(2, leaves'))
    /\ chosen # NoLeaf /\ leaves'[chosen] # 0 =>
         /\ chosen' = chosen
         /\ chosen \in TreeRows' => RowAt(leaves', TreeRows', atRow') = chosen

LEMMA RefreshIsKept ==
  ASSUME TreeInv
  PROVE  PlaceIsKept
<1> SUFFICES ASSUME RefreshTree
             PROVE  /\ closed' = closed \cap (Heads(1, leaves') \cup Heads(2, leaves'))
                    /\ chosen # NoLeaf /\ leaves'[chosen] # 0 =>
                         /\ chosen' = chosen
                         /\ chosen \in TreeRows'
                            => RowAt(leaves', TreeRows', atRow') = chosen
  BY Zenon DEF PlaceIsKept
<1> DEFINE rows == RowSet(there, Shut(there), needle)
<1>1. /\ leaves' = there /\ closed' = Shut(there) /\ chosen' = Kept(there)
      /\ atRow' = Seek(there, rows, Kept(there), 1) /\ needle' = needle
  BY Zenon DEF RefreshTree, Rebuilt, Shut, Kept
<1>2. TreeRows' = rows
  BY <1>1 DEF TreeRows
<1>3. rows \in SUBSET AllRows /\ there \in NamesOf
  BY RowSetFits, TreeHas
<1>4. closed' = closed \cap (Heads(1, leaves') \cup Heads(2, leaves'))
  BY <1>1 DEF Shut
<1> HIDE DEF rows
<1>5. ASSUME chosen # NoLeaf, leaves'[chosen] # 0
      PROVE  Kept(there) = chosen
  BY <1>1, <1>5 DEF Kept
<1>6. ASSUME chosen # NoLeaf, leaves'[chosen] # 0, chosen \in TreeRows'
      PROVE  RowAt(leaves', TreeRows', atRow') = chosen
  <2>1. chosen \in rows /\ Kept(there) = chosen
    BY <1>2, <1>5, <1>6
  <2>2. atRow' = IndexOf(there, rows, chosen)
    BY <1>1, <2>1 DEF Seek
  <2>3. RowAt(there, rows, IndexOf(there, rows, chosen)) = chosen
    BY <1>3, <2>1, RowsIndexed
  <2> QED
    BY <1>1, <1>2, <2>2, <2>3
<1> QED
  BY <1>1, <1>4, <1>5, <1>6

-------------------------------------------------------------------------------
(* Clipboard: requests for what is on the clipboard.                         *)

PressPcs == {"idle", "asked", "send", "waiting", "told", "direct", "done"}
Tellings == {"", "agent_not_connected", "timeout", "dropped", "uploaded", "failed", "no_image"}
PressStates == [pc: PressPcs, sess: ClipSessions \cup {NoPaste},
                focused: ClipSessions \cup {NoPaste}, told: Tellings]
AgentStates == [on: BOOLEAN, frames: Seq(Pastes), job: Pastes \cup {NoPaste},
                step: {"idle", "read", "typed"}]

\* An agent was given the request: it has its frame, works on it, or has typed
\* its path.
Queued(a, p) == \E i \in 1..Len(clipAgent[a].frames): clipAgent[a].frames[i] = p
Given(p) ==
  \/ \E a \in ClipAgents: clipAgent[a].job = p \/ Queued(a, p)
  \/ \E t \in pasted: t.key = p /\ t.by # "tui"

\* The request's path is in the pane it is for.
Arrived(p) == \E t \in pasted: t.key = p /\ t.sess = ctrlV[p].sess

TypesOk ==
  /\ view \in [focus: {"tree", "left", "right"}, left: ClipSessions, right: ClipSessions]
  /\ active \subseteq ClipSessions /\ clipPending \subseteq Pastes
  /\ clipAgent \in [ClipAgents -> AgentStates]
  /\ ctrlV \in [Pastes -> PressStates]
  /\ outcome \in [Pastes -> {"", "no_image", "uploaded"}]

\* One Ctrl-V: it is told once, falls back only when no agent has it, and is
\* told "uploaded" only when its path has arrived.
PressOk(p) ==
  /\ ctrlV[p].pc \in {"idle", "asked", "send", "waiting"} => ctrlV[p].told = ""
  /\ ctrlV[p].pc \in {"idle", "asked"} => outcome[p] = ""
  /\ ctrlV[p].pc = "direct" => ctrlV[p].told = "agent_not_connected"
  /\ p \in clipPending =>
       /\ outcome[p] = ""
       /\ ctrlV[p].pc \in {"send", "waiting"} \/ ctrlV[p].told = "dropped"
  /\ ctrlV[p].told = "uploaded" \/ outcome[p] = "uploaded" => Arrived(p)
  /\ Given(p) => /\ ctrlV[p].pc \in {"waiting", "told", "done"}
                 /\ ctrlV[p].told # "agent_not_connected"
  /\ \A t \in pasted: t.key = p /\ t.by = "tui" => ctrlV[p].pc = "done" /\ ~Given(p)

AgentOk(a) ==
  /\ clipAgent[a].step \in {"read", "typed"} => clipAgent[a].job \in Pastes
  /\ clipAgent[a].step = "typed" => Arrived(clipAgent[a].job)

ClipInv ==
  /\ TypesOk
  /\ \A p \in Pastes: PressOk(p)
  /\ \A a \in ClipAgents: AgentOk(a)

LEMMA ClipSafe == ClipInv => ClipTypeOK /\ FallbackIsExclusive /\ PendingIsAwaited
<1> SUFFICES ASSUME ClipInv PROVE ClipTypeOK /\ FallbackIsExclusive /\ PendingIsAwaited
  OBVIOUS
<1>1. ClipTypeOK
  BY DEF ClipInv, TypesOk, ClipTypeOK, PressStates, PressPcs, AgentStates
<1>2. FallbackIsExclusive
  <2> SUFFICES ASSUME NEW p \in Pastes,
                      \/ PasteAt(p, "direct")
                      \/ [key |-> p, by |-> "tui", sess |-> ctrlV[p].sess] \in pasted
               PROVE  ~Given(p)
    BY DEF FallbackIsExclusive, Given
  <2>1. PressOk(p)
    BY DEF ClipInv
  <2>2. CASE PasteAt(p, "direct")
    BY <2>1, <2>2 DEF PressOk, PasteAt
  <2>3. CASE [key |-> p, by |-> "tui", sess |-> ctrlV[p].sess] \in pasted
    BY <2>1, <2>3 DEF PressOk
  <2> QED
    BY <2>2, <2>3
<1>3. PendingIsAwaited
  BY DEF ClipInv, TypesOk, PressOk, PendingIsAwaited, PasteAt, Arrived
<1> QED
  BY <1>1, <1>2, <1>3

LEMMA ClipStarts == ClipInit => ClipInv
<1> SUFFICES ASSUME ClipInit PROVE ClipInv
  OBVIOUS
<1>1. NoAgent \in AgentStates /\ NoAgent.frames = <<>> /\ NoAgent.job = NoPaste
      /\ NoAgent.step = "idle" /\ Len(<<>>) = 0
  BY DEF NoAgent, AgentStates
<1>2. Unused \in PressStates /\ Unused.pc = "idle" /\ Unused.told = ""
  BY DEF Unused, PressStates, PressPcs, Tellings
<1>3. TypesOk
  BY <1>1, <1>2 DEF ClipInit, TypesOk
<1>4. \A a \in ClipAgents: clipAgent[a] = NoAgent
  BY DEF ClipInit
<1>5. \A p \in Pastes: ctrlV[p] = Unused /\ outcome[p] = ""
  BY DEF ClipInit
<1>6. \A p \in Pastes: ~Given(p)
  <2> SUFFICES ASSUME NEW p \in Pastes PROVE ~Given(p)
    OBVIOUS
  <2>1. p # NoPaste
    BY ClipAssumption DEF NoPaste
  <2>2. \A a \in ClipAgents: clipAgent[a].job # p
    BY <1>1, <1>4, <2>1
  <2>3. \A a \in ClipAgents: Len(clipAgent[a].frames) = 0
    BY <1>1, <1>4
  <2>4. \A a \in ClipAgents: ~Queued(a, p)
    BY <2>3 DEF Queued
  <2>5. pasted = {}
    BY DEF ClipInit
  <2> QED
    BY <2>2, <2>4, <2>5 DEF Given
<1>7. \A p \in Pastes: PressOk(p)
  BY <1>2, <1>5, <1>6 DEF ClipInit, PressOk
<1>8. \A a \in ClipAgents: AgentOk(a)
  BY <1>1, <1>4 DEF AgentOk
<1> QED
  BY <1>3, <1>7, <1>8 DEF ClipInv

\* A request goes on; the agents and what was typed stay as they are.
LEMMA RequestGoesOn ==
  ASSUME ClipInv, NEW p \in Pastes, NEW r \in PressStates,
         ctrlV' = [ctrlV EXCEPT ![p] = r],
         UNCHANGED <<view, active, clipAgent, outcome, pasted>>,
         clipPending' \subseteq clipPending \cup {p}, clipPending \subseteq clipPending' \cup {p},
         r.sess = ctrlV[p].sess \/ (~Given(p) /\ outcome[p] = "" /\ r.told # "uploaded"),
         r.pc \in {"idle", "asked", "send", "waiting"} => r.told = "",
         r.pc \in {"idle", "asked"} => outcome[p] = "",
         r.pc = "direct" => r.told = "agent_not_connected",
         p \in clipPending' => /\ outcome[p] = ""
                               /\ r.pc \in {"send", "waiting"} \/ r.told = "dropped",
         r.told = "uploaded" => Arrived(p),
         Given(p) => /\ r.pc \in {"waiting", "told", "done"}
                     /\ r.told # "agent_not_connected",
         ctrlV[p].pc # "done"
  PROVE  ClipInv'
<1>1. TypesOk /\ PressOk(p)
  BY DEF ClipInv
<1>2. ctrlV' \in [Pastes -> PressStates] /\ ctrlV'[p] = r
      /\ \A q \in Pastes \ {p}: ctrlV'[q] = ctrlV[q]
  BY <1>1 DEF TypesOk
<1>3. TypesOk'
  BY <1>1, <1>2 DEF TypesOk
<1>4. \A q \in Pastes: Given(q)' <=> Given(q)
  BY DEF Given, Queued
<1>5. \A q \in Pastes \ {p}: PressOk(q)'
  <2> SUFFICES ASSUME NEW q \in Pastes \ {p} PROVE PressOk(q)'
    OBVIOUS
  <2>1. PressOk(q) /\ ctrlV'[q] = ctrlV[q] /\ outcome'[q] = outcome[q]
        /\ (q \in clipPending' => q \in clipPending)
    BY <1>2 DEF ClipInv
  <2>2. Arrived(q)' <=> Arrived(q)
    BY <2>1 DEF Arrived
  <2> QED
    BY <1>4, <2>1, <2>2 DEF PressOk
<1>6. Arrived(p) /\ r.sess = ctrlV[p].sess => Arrived(p)'
  BY <1>2 DEF Arrived
<1>7. \A t \in pasted: ~(t.key = p /\ t.by = "tui")
  BY <1>1 DEF PressOk
<1>8. r.told = "uploaded" \/ outcome[p] = "uploaded" => Arrived(p)'
  BY <1>1, <1>6 DEF PressOk
<1>9. PressOk(p)'
  BY <1>2, <1>4, <1>7, <1>8 DEF PressOk
<1>10. \A a \in ClipAgents: AgentOk(a)'
  <2> SUFFICES ASSUME NEW a \in ClipAgents PROVE AgentOk(a)'
    OBVIOUS
  <2>1. AgentOk(a) /\ clipAgent'[a] = clipAgent[a]
    BY DEF ClipInv
  <2>2. ASSUME clipAgent[a].step = "typed"
        PROVE  Arrived(clipAgent[a].job)'
    <3>1. clipAgent[a].job \in Pastes /\ Arrived(clipAgent[a].job)
      BY <2>1, <2>2 DEF AgentOk
    <3>2. CASE clipAgent[a].job # p
      BY <1>2, <2>1, <3>1, <3>2 DEF Arrived
    <3>3. CASE clipAgent[a].job = p
      <4>1. Given(p)
        BY <3>3 DEF Given
      <4> QED
        BY <1>6, <2>1, <3>1, <3>3, <4>1
    <3> QED
      BY <3>2, <3>3
  <2> QED
    BY <2>1, <2>2 DEF AgentOk
<1> QED
  BY <1>3, <1>5, <1>9, <1>10 DEF ClipInv

\* One agent moves on to s; it takes no request it was not given.
LEMMA AgentGoesOn ==
  ASSUME ClipInv, NEW a \in ClipAgents, NEW s \in AgentStates,
         clipAgent' = [clipAgent EXCEPT ![a] = s],
         UNCHANGED <<view, active, ctrlV, pasted>>,
         s.job \in Pastes => Given(s.job),
         \A i \in 1..Len(s.frames): Queued(a, s.frames[i]),
         s.step \in {"read", "typed"} => s.job \in Pastes,
         s.step = "typed" => Arrived(s.job),
         clipPending' \subseteq clipPending,
         outcome' \in [Pastes -> {"", "no_image", "uploaded"}],
         \A q \in Pastes: outcome'[q] # outcome[q] =>
           /\ q \in clipPending /\ q \notin clipPending'
           /\ outcome'[q] = "uploaded" => Arrived(q)
  PROVE  ClipInv'
<1>1. TypesOk
  BY DEF ClipInv
<1>2. clipAgent' \in [ClipAgents -> AgentStates] /\ clipAgent'[a] = s
      /\ \A b \in ClipAgents \ {a}: clipAgent'[b] = clipAgent[b]
  BY <1>1 DEF TypesOk
<1>3. TypesOk'
  BY <1>1, <1>2 DEF TypesOk
<1>4. \A q \in Pastes: Given(q)' => Given(q)
  <2> SUFFICES ASSUME NEW q \in Pastes, Given(q)' PROVE Given(q)
    OBVIOUS
  <2>1. CASE \E t \in pasted': t.key = q /\ t.by # "tui"
    BY <2>1 DEF Given
  <2>2. CASE \E b \in ClipAgents: clipAgent'[b].job = q \/ Queued(b, q)'
    <3>1. PICK b \in ClipAgents: clipAgent'[b].job = q \/ Queued(b, q)'
      BY <2>2
    <3>2. CASE b = a
      <4>1. CASE s.job = q
        BY <4>1
      <4>2. CASE Queued(b, q)'
        <5>1. PICK i \in 1..Len(s.frames): s.frames[i] = q
          BY <1>2, <3>2, <4>2 DEF Queued
        <5> QED
          BY <5>1 DEF Given
      <4> QED
        BY <1>2, <3>1, <3>2, <4>1, <4>2
    <3>3. CASE b # a
      BY <1>2, <3>1, <3>3 DEF Given, Queued
    <3> QED
      BY <3>2, <3>3
  <2> QED
    BY <2>1, <2>2 DEF Given
<1>5. \A q: Arrived(q)' <=> Arrived(q)
  BY DEF Arrived
<1>6. \A q \in Pastes: PressOk(q)'
  <2> SUFFICES ASSUME NEW q \in Pastes PROVE PressOk(q)'
    OBVIOUS
  <2>1. PressOk(q) /\ ctrlV'[q] = ctrlV[q] /\ pasted' = pasted
    BY DEF ClipInv
  <2>2. q \in clipPending' => q \in clipPending /\ outcome'[q] = outcome[q]
    OBVIOUS
  <2>3. ctrlV[q].pc \in {"idle", "asked"} => outcome'[q] = outcome[q]
    <3>1. ctrlV[q].pc \in {"idle", "asked"} => q \notin clipPending
      BY <2>1 DEF PressOk
    <3> QED
      BY <3>1
  <2>4. outcome'[q] = "uploaded" => outcome[q] = "uploaded" \/ Arrived(q)
    OBVIOUS
  <2> QED
    BY <1>4, <1>5, <2>1, <2>2, <2>3, <2>4 DEF PressOk
<1>7. \A b \in ClipAgents: AgentOk(b)'
  BY <1>2, <1>5 DEF AgentOk, ClipInv
<1> QED
  BY <1>3, <1>6, <1>7 DEF ClipInv

LEMMA PressSteps ==
  ASSUME ClipInv, NEW p \in Pastes,
         \/ PressCtrlV(p) \/ Decide(p) \/ RequestInserts(p) \/ RequestAnswers(p)
         \/ RequestTimesOut(p) \/ RequestDropped(p)
  PROVE  ClipInv'
<1>1. TypesOk /\ PressOk(p)
  BY DEF ClipInv
<1>2. ctrlV[p] \in PressStates /\ outcome[p] \in {"", "no_image", "uploaded"}
      /\ clipPending \subseteq Pastes
      /\ view \in [focus: {"tree", "left", "right"}, left: ClipSessions,
                   right: ClipSessions]
  BY <1>1 DEF TypesOk
<1> DEFINE told(what) == [ctrlV[p] EXCEPT !.pc = "told", !.told = what]
<1>3. \A what \in Tellings:
        /\ told(what) \in PressStates /\ told(what).pc = "told"
        /\ told(what).told = what /\ told(what).sess = ctrlV[p].sess
        /\ Tell(p, what) => ctrlV' = [ctrlV EXCEPT ![p] = told(what)]
  BY <1>1, <1>2 DEF PressStates, PressPcs, Tell, TypesOk
<1> HIDE DEF told
<1>4. CASE PressCtrlV(p)
  <2> DEFINE r == [pc |-> "asked", sess |-> view.left, focused |-> view[view.focus],
                   told |-> ""]
  <2>1. view.left \in ClipSessions /\ view[view.focus] \in ClipSessions
    BY <1>2, <1>4 DEF PressCtrlV
  <2>2. r \in PressStates
    BY <2>1 DEF PressStates, PressPcs, Tellings
  <2>3. r.pc = "asked" /\ r.told = "" /\ ctrlV' = [ctrlV EXCEPT ![p] = r]
        /\ ctrlV[p].pc = "idle"
    BY <1>4 DEF PressCtrlV, PasteAt
  <2> HIDE DEF r
  <2>4. outcome[p] = "" /\ p \notin clipPending /\ ~Given(p)
    BY <1>1, <2>3 DEF PressOk
  <2>5. UNCHANGED <<view, active, clipAgent, clipPending, outcome, pasted>>
    BY <1>4 DEF PressCtrlV
  <2> QED
    BY <2>2, <2>3, <2>4, <2>5, RequestGoesOn
<1>5. CASE Decide(p)
  <2> DEFINE r == [ctrlV[p] EXCEPT !.pc = IF ctrlV[p].told = "agent_not_connected"
                                          THEN "direct" ELSE "done"]
  <2>1. r \in PressStates /\ r.told = ctrlV[p].told /\ r.sess = ctrlV[p].sess
        /\ r.pc = IF ctrlV[p].told = "agent_not_connected" THEN "direct" ELSE "done"
    BY <1>2 DEF PressStates, PressPcs
  <2>2. ctrlV' = [ctrlV EXCEPT ![p] = r] /\ ctrlV[p].pc = "told"
    BY <1>1, <1>5 DEF Decide, PasteAt, TypesOk
  <2> HIDE DEF r
  <2>3. UNCHANGED <<view, active, clipAgent, clipPending, outcome, pasted>>
    BY <1>5 DEF Decide
  <2> QED
    BY <1>1, <2>1, <2>2, <2>3, RequestGoesOn DEF PressOk
<1>6. CASE RequestInserts(p)
  <2>1. ctrlV[p].pc = "asked" /\ UNCHANGED <<view, active, clipAgent, outcome, pasted>>
    BY <1>6 DEF RequestInserts, PasteAt
  <2>2. outcome[p] = "" /\ p \notin clipPending /\ ~Given(p) /\ ctrlV[p].told = ""
    BY <1>1, <2>1 DEF PressOk
  <2>3. CASE Connected = {}
    <3>1. Tell(p, "agent_not_connected") /\ UNCHANGED clipPending
      BY <1>6, <2>3 DEF RequestInserts
    <3>2. "agent_not_connected" \in Tellings
      BY DEF Tellings
    <3> QED
      BY <1>3, <2>1, <2>2, <3>1, <3>2, RequestGoesOn
  <2>4. CASE Connected # {}
    <3> DEFINE r == [ctrlV[p] EXCEPT !.pc = "send"]
    <3>1. r \in PressStates /\ r.told = "" /\ r.sess = ctrlV[p].sess /\ r.pc = "send"
      BY <1>2, <2>2 DEF PressStates, PressPcs
    <3>2. ctrlV' = [ctrlV EXCEPT ![p] = r] /\ clipPending' = clipPending \cup {p}
      BY <1>1, <1>6, <2>4 DEF RequestInserts, TypesOk
    <3> HIDE DEF r
    <3> QED
      BY <2>1, <2>2, <3>1, <3>2, RequestGoesOn
  <2> QED
    BY <2>3, <2>4
<1>7. CASE RequestAnswers(p)
  <2>1. /\ ctrlV[p].pc = "waiting" /\ outcome[p] # "" /\ Tell(p, outcome[p])
        /\ UNCHANGED <<view, active, clipAgent, clipPending, outcome, pasted>>
    BY <1>7 DEF RequestAnswers, PasteAt
  <2>2. outcome[p] \in Tellings /\ outcome[p] # "agent_not_connected"
    BY <1>2 DEF Tellings
  <2>3. p \notin clipPending /\ (outcome[p] = "uploaded" => Arrived(p))
    BY <1>1, <2>1 DEF PressOk
  <2> QED
    BY <1>3, <2>1, <2>2, <2>3, RequestGoesOn
<1>8. CASE RequestTimesOut(p)
  <2>1. /\ ctrlV[p].pc = "waiting" /\ Tell(p, "timeout")
        /\ clipPending' = clipPending \ {p}
        /\ UNCHANGED <<view, active, clipAgent, outcome, pasted>>
    BY <1>8 DEF RequestTimesOut, PasteAt
  <2>2. "timeout" \in Tellings
    BY DEF Tellings
  <2> QED
    BY <1>3, <2>1, <2>2, RequestGoesOn
<1>9. CASE RequestDropped(p)
  <2> DEFINE r == [ctrlV[p] EXCEPT !.pc = "done", !.told = "dropped"]
  <2>1. r \in PressStates /\ r.told = "dropped" /\ r.sess = ctrlV[p].sess /\ r.pc = "done"
    BY <1>2 DEF PressStates, PressPcs, Tellings
  <2>2. /\ ctrlV' = [ctrlV EXCEPT ![p] = r] /\ ctrlV[p].pc = "waiting"
        /\ UNCHANGED <<view, active, clipAgent, clipPending, outcome, pasted>>
    BY <1>1, <1>9 DEF RequestDropped, TypesOk, PasteAt
  <2> HIDE DEF r
  <2>3. p \in clipPending => outcome[p] = ""
    BY <1>1 DEF PressOk
  <2> QED
    BY <2>1, <2>2, <2>3, RequestGoesOn
<1> QED
  BY <1>4, <1>5, <1>6, <1>7, <1>8, <1>9

\* The request goes out to the agents there are, or nobody is there any more.
LEMMA Sends ==
  ASSUME ClipInv, NEW p \in Pastes, RequestSends(p)
  PROVE  ClipInv'
<1>1. TypesOk /\ PressOk(p)
  BY DEF ClipInv
<1>2. ctrlV[p] \in PressStates /\ clipPending \subseteq Pastes
  BY <1>1 DEF TypesOk
<1>3. ctrlV[p].pc = "send" /\ UNCHANGED <<view, active, outcome, pasted>>
  BY DEF RequestSends, PasteAt
<1>4. ctrlV[p].told = "" /\ ~Given(p)
  BY <1>1, <1>3 DEF PressOk
<1>5. CASE Connected = {}
  <2> DEFINE r == [ctrlV[p] EXCEPT !.pc = "told", !.told = "agent_not_connected"]
  <2>1. r \in PressStates /\ r.pc = "told" /\ r.told = "agent_not_connected"
        /\ r.sess = ctrlV[p].sess
    BY <1>2 DEF PressStates, PressPcs, Tellings
  <2>2. ctrlV' = [ctrlV EXCEPT ![p] = r]
    BY <1>1, <1>5 DEF RequestSends, Tell, TypesOk
  <2> HIDE DEF r
  <2>3. clipPending' = clipPending \ {p} /\ UNCHANGED clipAgent
    BY <1>5 DEF RequestSends
  <2> QED
    BY <1>3, <1>4, <2>1, <2>2, <2>3, RequestGoesOn
<1>6. CASE Connected # {}
  <2> DEFINE r == [ctrlV[p] EXCEPT !.pc = "waiting"]
             Retained(a) == IF Len(clipAgent[a].frames) < ClipRoom THEN clipAgent[a].frames
                        ELSE Tail(clipAgent[a].frames)
             s(a) == IF a \notin Connected THEN clipAgent[a]
                     ELSE [clipAgent[a] EXCEPT !.frames = Append(Retained(a), p)]
  <2>1. r \in PressStates /\ r.pc = "waiting" /\ r.told = "" /\ r.sess = ctrlV[p].sess
    BY <1>2, <1>4 DEF PressStates, PressPcs
  <2>2. /\ ctrlV' = [ctrlV EXCEPT ![p] = r]
        /\ clipAgent' = [a \in ClipAgents |-> s(a)]
        /\ UNCHANGED clipPending
    BY <1>1, <1>6 DEF RequestSends, TypesOk
  <2> HIDE DEF r
  <2>3. ctrlV' \in [Pastes -> PressStates] /\ ctrlV'[p] = r
        /\ \A q \in Pastes \ {p}: ctrlV'[q] = ctrlV[q]
    BY <1>1, <2>1, <2>2 DEF TypesOk
  <2>4. ASSUME NEW a \in ClipAgents
        PROVE  /\ s(a) \in AgentStates
               /\ s(a).job = clipAgent[a].job /\ s(a).step = clipAgent[a].step
               /\ \A i \in 1..Len(s(a).frames):
                    s(a).frames[i] = p \/ Queued(a, s(a).frames[i])
    <3>1. clipAgent[a] \in AgentStates
      BY <1>1 DEF TypesOk
    <3>2. CASE a \notin Connected
      <4>1. s(a) = clipAgent[a]
        BY <3>2
      <4> HIDE DEF s
      <4> QED
        BY <3>1, <4>1 DEF Queued
    <3>3. CASE a \in Connected
      <4> DEFINE f == clipAgent[a].frames
                 k == Retained(a)
      <4>1. f \in Seq(Pastes)
        BY <3>1 DEF AgentStates
      <4>2. k \in Seq(Pastes) /\ \A i \in 1..Len(k): \E j \in 1..Len(f): k[i] = f[j]
        <5>1. CASE Len(f) < ClipRoom
          <6>1. k = f
            BY <5>1
          <6> HIDE DEF k, f
          <6> QED
            BY <4>1, <6>1
        <5>2. CASE ~(Len(f) < ClipRoom)
          <6>1. k = Tail(f) /\ f # <<>>
            BY <4>1, <5>2, ClipAssumption
          <6> HIDE DEF k, f
          <6>2. /\ k \in Seq(Pastes) /\ Len(k) = Len(f) - 1 /\ Len(f) \in Nat
                /\ \A i \in 1..Len(k): k[i] = f[i + 1]
            BY <4>1, <6>1, HeadTailProperties
          <6>3. \A i \in 1..Len(k): i + 1 \in 1..Len(f)
            BY <6>2
          <6> QED
            BY <6>2, <6>3
        <5> QED
          BY <5>1, <5>2
      <4>3. s(a) = [clipAgent[a] EXCEPT !.frames = Append(k, p)]
        BY <3>3
      <4> HIDE DEF k, s
      <4>4. /\ Append(k, p) \in Seq(Pastes) /\ Len(k) \in Nat
            /\ Len(Append(k, p)) = Len(k) + 1 /\ Append(k, p)[Len(k) + 1] = p
            /\ \A i \in 1..Len(k): Append(k, p)[i] = k[i]
        BY <4>2
      <4>5. /\ s(a) \in AgentStates /\ s(a).frames = Append(k, p)
            /\ s(a).job = clipAgent[a].job /\ s(a).step = clipAgent[a].step
        BY <3>1, <4>3, <4>4 DEF AgentStates
      <4>6. \A i \in 1..Len(Append(k, p)):
              Append(k, p)[i] = p \/ Queued(a, Append(k, p)[i])
        <5> SUFFICES ASSUME NEW i \in 1..Len(Append(k, p)), i # Len(k) + 1
                     PROVE  Queued(a, Append(k, p)[i])
          BY <4>4
        <5>1. i \in 1..Len(k)
          BY <4>4
        <5> QED
          BY <4>2, <4>4, <5>1 DEF Queued
      <4> QED
        BY <4>5, <4>6
    <3> QED
      BY <3>2, <3>3
  <2>5. \A a \in ClipAgents: clipAgent'[a] = s(a)
    BY <2>2
  <2> HIDE DEF s
  <2>6. TypesOk'
    BY <1>1, <1>3, <2>2, <2>3, <2>4, <2>5 DEF TypesOk
  <2>7. \A q \in Pastes \ {p}: Given(q)' => Given(q)
    <3> SUFFICES ASSUME NEW q \in Pastes \ {p}, Given(q)' PROVE Given(q)
      OBVIOUS
    <3>1. CASE \E t \in pasted': t.key = q /\ t.by # "tui"
      BY <1>3, <3>1 DEF Given
    <3>2. CASE \E a \in ClipAgents: clipAgent'[a].job = q \/ Queued(a, q)'
      <4>1. PICK a \in ClipAgents: clipAgent'[a].job = q \/ Queued(a, q)'
        BY <3>2
      <4>2. CASE clipAgent'[a].job = q
        BY <2>4, <2>5, <4>2 DEF Given
      <4>3. CASE Queued(a, q)'
        <5>1. PICK i \in 1..Len(s(a).frames): s(a).frames[i] = q
          BY <2>5, <4>3 DEF Queued
        <5> QED
          BY <2>4, <5>1 DEF Given
      <4> QED
        BY <4>1, <4>2, <4>3
    <3> QED
      BY <3>1, <3>2 DEF Given
  <2>8. \A q \in Pastes: Arrived(q)' <=> Arrived(q)
    BY <1>3, <2>1, <2>3 DEF Arrived
  <2>9. \A q \in Pastes \ {p}: PressOk(q)'
    <3> SUFFICES ASSUME NEW q \in Pastes \ {p} PROVE PressOk(q)'
      OBVIOUS
    <3>1. PressOk(q) /\ ctrlV'[q] = ctrlV[q]
      BY <2>3 DEF ClipInv
    <3> QED
      BY <1>3, <2>2, <2>7, <2>8, <3>1 DEF PressOk
  <2>10. PressOk(p)'
    <3>1. \A t \in pasted: ~(t.key = p /\ t.by = "tui")
      BY <1>1, <1>3 DEF PressOk
    <3> QED
      BY <1>1, <1>3, <2>1, <2>2, <2>3, <2>8, <3>1 DEF PressOk
  <2>11. \A a \in ClipAgents: AgentOk(a)'
    BY <2>4, <2>5, <2>8 DEF AgentOk, ClipInv
  <2> QED
    BY <2>6, <2>9, <2>10, <2>11 DEF ClipInv
<1> QED
  BY <1>5, <1>6

\* Somebody types: text, the TUI an image of its own, or an agent one it has.
LEMMA TypingKeeps ==
  ASSUME ClipInv, NEW x,
         pasted' = pasted \cup {x}, UNCHANGED <<view, active, clipPending, outcome>>,
         NEW p, x.key = p,
         \/ x.by = "tui" /\ p \notin Pastes /\ UNCHANGED <<clipAgent, ctrlV>>
         \/ /\ x.by = "tui" /\ p \in Pastes /\ ctrlV[p].pc = "direct"
            /\ ctrlV' = [ctrlV EXCEPT ![p].pc = "done", ![p].told = "uploaded"]
            /\ x.sess = ctrlV[p].sess /\ UNCHANGED clipAgent
  PROVE  ClipInv'
<1>1. TypesOk
  BY DEF ClipInv
<1>2. \A q \in Pastes: Given(q)' <=> Given(q)
  BY DEF Given, Queued
<1>3. \A q: Arrived(q) /\ ctrlV'[q].sess = ctrlV[q].sess => Arrived(q)'
  BY DEF Arrived
<1>4. CASE p \notin Pastes /\ UNCHANGED <<clipAgent, ctrlV>>
  <2>1. TypesOk'
    BY <1>1, <1>4 DEF TypesOk
  <2>2. \A q \in Pastes: PressOk(q)'
    <3> SUFFICES ASSUME NEW q \in Pastes PROVE PressOk(q)'
      OBVIOUS
    <3>1. PressOk(q) /\ \A t \in pasted': t.key = q => t \in pasted
      BY <1>4 DEF ClipInv
    <3> QED
      BY <1>2, <1>3, <1>4, <3>1 DEF PressOk
  <2>3. \A a \in ClipAgents: AgentOk(a)'
    BY <1>3, <1>4 DEF AgentOk, ClipInv
  <2> QED
    BY <2>1, <2>2, <2>3 DEF ClipInv
<1>5. CASE /\ x.by = "tui" /\ p \in Pastes /\ ctrlV[p].pc = "direct"
           /\ ctrlV' = [ctrlV EXCEPT ![p].pc = "done", ![p].told = "uploaded"]
           /\ x.sess = ctrlV[p].sess /\ UNCHANGED clipAgent
  <2> DEFINE r == [ctrlV[p] EXCEPT !.pc = "done", !.told = "uploaded"]
  <2>1. r \in PressStates /\ r.pc = "done" /\ r.told = "uploaded"
        /\ r.sess = ctrlV[p].sess
    BY <1>1, <1>5 DEF TypesOk, PressStates, PressPcs, Tellings
  <2>2. ctrlV' = [ctrlV EXCEPT ![p] = r]
    <3>1. ctrlV \in [Pastes -> PressStates]
      BY <1>1 DEF TypesOk
    <3> QED
      BY <1>5, <3>1
  <2> HIDE DEF r
  <2>3. ctrlV' \in [Pastes -> PressStates] /\ ctrlV'[p] = r
        /\ \A q \in Pastes \ {p}: ctrlV'[q] = ctrlV[q]
    <3>1. ctrlV \in [Pastes -> PressStates] /\ p \in Pastes
      BY <1>1, <1>5 DEF TypesOk
    <3> QED
      BY <2>1, <2>2, <3>1
  <2>4. \A q \in Pastes: ctrlV'[q].sess = ctrlV[q].sess
    BY <2>1, <2>3
  <2>5. TypesOk'
    BY <1>1, <1>5, <2>3 DEF TypesOk
  <2>6. \A q \in Pastes \ {p}: PressOk(q)'
    <3> SUFFICES ASSUME NEW q \in Pastes \ {p} PROVE PressOk(q)'
      OBVIOUS
    <3>1. PressOk(q) /\ \A t \in pasted': t.key = q => t \in pasted
      BY DEF ClipInv
    <3> QED
      BY <1>2, <1>3, <2>3, <2>4, <3>1 DEF PressOk
  <2>7. PressOk(p)'
    <3>1. PressOk(p)
      BY <1>5 DEF ClipInv
    <3>2. ~Given(p) /\ p \notin clipPending
      BY <1>5, <3>1 DEF PressOk
    <3>3. Arrived(p)'
      BY <1>5, <2>1, <2>3 DEF Arrived
    <3> QED
      BY <1>2, <1>5, <2>1, <2>3, <3>2, <3>3 DEF PressOk
  <2>8. \A a \in ClipAgents: AgentOk(a)'
    BY <1>3, <1>5, <2>4 DEF AgentOk, ClipInv
  <2> QED
    BY <2>5, <2>6, <2>7, <2>8 DEF ClipInv
<1> QED
  BY <1>4, <1>5

LEMMA TuiPastes ==
  ASSUME ClipInv, PasteText \/ \E p \in Pastes: PasteDirect(p)
  PROVE  ClipInv'
<1>1. TypesOk
  BY DEF ClipInv
<1>2. CASE PasteText
  <2>1. PICK s \in {view[view.focus]} \cap active:
          pasted' = pasted \cup {[key |-> "text", by |-> "tui", sess |-> s]}
    BY <1>2 DEF PasteText, Types
  <2> DEFINE x == [key |-> "text", by |-> "tui", sess |-> s]
  <2>2. x.key = "text" /\ x.by = "tui" /\ pasted' = pasted \cup {x}
    BY <2>1
  <2>3. "text" \notin Pastes
    BY ClipAssumption
  <2>4. UNCHANGED <<view, active, clipAgent, ctrlV, clipPending, outcome>>
    BY <1>2 DEF PasteText
  <2> HIDE DEF x
  <2> QED
    BY <2>2, <2>3, <2>4, TypingKeeps
<1>3. ASSUME NEW p \in Pastes, PasteDirect(p)
      PROVE  ClipInv'
  <2>1. ctrlV[p].pc = "direct" /\ UNCHANGED <<view, active, clipAgent, clipPending, outcome>>
    BY <1>3 DEF PasteDirect, PasteAt
  <2>2. CASE /\ Types(p, "tui", ctrlV[p].sess)
             /\ ctrlV' = [ctrlV EXCEPT ![p].pc = "done", ![p].told = "uploaded"]
    <3> DEFINE x == [key |-> p, by |-> "tui", sess |-> ctrlV[p].sess]
    <3>1. x.key = p /\ x.by = "tui" /\ x.sess = ctrlV[p].sess /\ pasted' = pasted \cup {x}
      BY <2>2 DEF Types
    <3> HIDE DEF x
    <3> QED
      BY <2>1, <2>2, <3>1, TypingKeeps
  <2>3. CASE /\ ctrlV' = [ctrlV EXCEPT ![p].pc = "done", ![p].told = "failed"]
             /\ UNCHANGED pasted
    <3> DEFINE r == [ctrlV[p] EXCEPT !.pc = "done", !.told = "failed"]
    <3>1. r \in PressStates /\ r.pc = "done" /\ r.told = "failed" /\ r.sess = ctrlV[p].sess
      BY <1>1 DEF TypesOk, PressStates, PressPcs, Tellings
    <3>2. ctrlV' = [ctrlV EXCEPT ![p] = r]
      BY <1>1, <2>3 DEF TypesOk
    <3> HIDE DEF r
    <3>3. p \notin clipPending
      BY <2>1 DEF ClipInv, PressOk
    <3> QED
      BY <2>1, <2>3, <3>1, <3>2, <3>3, RequestGoesOn
  <2> QED
    BY <1>3, <2>2, <2>3 DEF PasteDirect
<1> QED
  BY <1>2, <1>3

\* An agent types the path of an image into the pane of its request.
LEMMA Uploads ==
  ASSUME ClipInv, NEW a \in ClipAgents, Upload(a)
  PROVE  ClipInv'
<1>1. TypesOk /\ AgentOk(a)
  BY DEF ClipInv
<1>2. clipAgent[a] \in AgentStates /\ clipAgent[a].step = "read"
      /\ UNCHANGED <<view, active, ctrlV, clipPending, outcome>>
  BY <1>1 DEF TypesOk, Upload
<1>0. PICK p: p = clipAgent[a].job
  OBVIOUS
<1>3. p \in Pastes /\ Given(p)
  BY <1>0, <1>1, <1>2 DEF AgentOk, Given
<1>4. CASE /\ clipAgent' = [clipAgent EXCEPT ![a].job = NoPaste, ![a].step = "idle"]
           /\ UNCHANGED pasted
  <2> DEFINE s == [clipAgent[a] EXCEPT !.job = NoPaste, !.step = "idle"]
  <2>1. s \in AgentStates /\ s.job = NoPaste /\ s.step = "idle"
        /\ s.frames = clipAgent[a].frames
    BY <1>2 DEF AgentStates
  <2>2. clipAgent' = [clipAgent EXCEPT ![a] = s]
    BY <1>1, <1>4 DEF TypesOk
  <2> HIDE DEF s
  <2>3. NoPaste \notin Pastes /\ \A i \in 1..Len(s.frames): Queued(a, s.frames[i])
    BY <2>1, ClipAssumption DEF NoPaste, Queued
  <2>4. outcome' \in [Pastes -> {"", "no_image", "uploaded"}]
    BY <1>1, <1>2 DEF TypesOk
  <2> QED
    BY <1>2, <1>4, <2>1, <2>2, <2>3, <2>4, AgentGoesOn
<1>5. CASE /\ Types(p, a, ctrlV[p].sess)
           /\ clipAgent' = [clipAgent EXCEPT ![a].step = "typed"]
  <2> DEFINE x == [key |-> p, by |-> a, sess |-> ctrlV[p].sess]
             s == [clipAgent[a] EXCEPT !.step = "typed"]
  <2>1. x.key = p /\ x.by = a /\ x.sess = ctrlV[p].sess /\ pasted' = pasted \cup {x}
    BY <1>5 DEF Types
  <2>2. s \in AgentStates /\ s.job = p /\ s.step = "typed"
        /\ s.frames = clipAgent[a].frames
    BY <1>0, <1>2 DEF AgentStates
  <2>3. clipAgent' = [clipAgent EXCEPT ![a] = s]
    BY <1>1, <1>5 DEF TypesOk
  <2> HIDE DEF s, x
  <2>4. clipAgent' \in [ClipAgents -> AgentStates] /\ clipAgent'[a] = s
        /\ \A b \in ClipAgents \ {a}: clipAgent'[b] = clipAgent[b]
    BY <1>1, <2>2, <2>3 DEF TypesOk
  <2>5. a # "tui"
    BY ClipAssumption
  <2>6. \A q: Arrived(q) => Arrived(q)'
    BY <1>2, <2>1 DEF Arrived
  <2>7. Arrived(p)'
    <3>1. x \in pasted' /\ x.key = p /\ x.sess = ctrlV'[p].sess
      BY <1>2, <2>1
    <3> QED
      BY <3>1 DEF Arrived
  <2>8. \A q \in Pastes: Given(q)' <=> Given(q)
    <3>1. \A b \in ClipAgents: /\ clipAgent'[b].job = clipAgent[b].job
                              /\ clipAgent'[b].frames = clipAgent[b].frames
      BY <1>0, <2>2, <2>4
    <3>2. \A b \in ClipAgents, q \in Pastes: Queued(b, q)' <=> Queued(b, q)
      BY <3>1 DEF Queued
    <3> SUFFICES ASSUME NEW q \in Pastes PROVE Given(q)' <=> Given(q)
      OBVIOUS
    <3>3. Given(q) => Given(q)'
      BY <2>1, <3>1, <3>2 DEF Given
    <3>4. ASSUME Given(q)' PROVE Given(q)
      <4>1. CASE \E b \in ClipAgents: clipAgent'[b].job = q \/ Queued(b, q)'
        BY <3>1, <3>2, <4>1 DEF Given
      <4>2. CASE \E t \in pasted': t.key = q /\ t.by # "tui"
        <5>1. PICK t \in pasted': t.key = q /\ t.by # "tui"
          BY <4>2
        <5>2. CASE t \in pasted
          BY <5>1, <5>2 DEF Given
        <5>3. CASE t = x
          BY <1>3, <2>1, <5>1, <5>3
        <5> QED
          BY <2>1, <5>2, <5>3
      <4> QED
        BY <3>4, <4>1, <4>2 DEF Given
    <3> QED
      BY <3>3, <3>4
  <2>9. \A q \in Pastes: PressOk(q)'
    <3> SUFFICES ASSUME NEW q \in Pastes PROVE PressOk(q)'
      OBVIOUS
    <3>1. PressOk(q) /\ \A t \in pasted': t.by = "tui" => t \in pasted
      BY <2>1, <2>5 DEF ClipInv
    <3> QED
      BY <1>2, <2>6, <2>8, <3>1 DEF PressOk
  <2>10. TypesOk'
    BY <1>1, <1>2, <2>4 DEF TypesOk
  <2>11. \A b \in ClipAgents: AgentOk(b)'
    <3>1. AgentOk(a)'
      <4>1. clipAgent'[a].job = p /\ clipAgent'[a].step = "typed"
        BY <2>2, <2>4
      <4> QED
        BY <1>3, <2>7, <4>1 DEF AgentOk
    <3>2. \A b \in ClipAgents \ {a}: AgentOk(b)'
      BY <2>4, <2>6 DEF AgentOk, ClipInv
    <3> QED
      BY <3>1, <3>2
  <2> QED
    BY <2>9, <2>10, <2>11 DEF ClipInv
<1> QED
  BY <1>0, <1>4, <1>5 DEF Upload

LEMMA AgentMoves ==
  ASSUME ClipInv, NEW a \in ClipAgents, AgentSteps(a)
  PROVE  ClipInv'
<1>1. TypesOk /\ AgentOk(a)
  BY DEF ClipInv
<1> DEFINE c == clipAgent[a]
<1>2. c \in AgentStates /\ NoPaste \notin Pastes
  BY <1>1, ClipAssumption DEF TypesOk, NoPaste
<1>3. /\ c.frames \in Seq(Pastes)
      /\ \A i \in 1..Len(c.frames): Queued(a, c.frames[i])
      /\ (c.job \in Pastes => Given(c.job))
  BY <1>2 DEF AgentStates, Queued, Given
<1>4. outcome \in [Pastes -> {"", "no_image", "uploaded"}] /\ clipPending \subseteq Pastes
  BY <1>1 DEF TypesOk
<1>5. CASE AgentConnects(a)
  <2> DEFINE s == [c EXCEPT !.on = TRUE]
  <2>1. s \in AgentStates /\ s.job = c.job /\ s.step = c.step /\ s.frames = c.frames
    BY <1>2 DEF AgentStates
  <2>2. clipAgent' = [clipAgent EXCEPT ![a] = s]
    BY <1>1, <1>5 DEF TypesOk, AgentConnects
  <2>3. UNCHANGED <<view, active, ctrlV, clipPending, outcome, pasted>>
    BY <1>5 DEF AgentConnects
  <2> HIDE DEF s
  <2> QED
    BY <1>1, <1>3, <1>4, <2>1, <2>2, <2>3, AgentGoesOn DEF AgentOk
<1>6. CASE AgentDisconnects(a)
  <2> DEFINE s == [c EXCEPT !.on = FALSE, !.frames = <<>>]
  <2>1. s \in AgentStates /\ s.job = c.job /\ s.step = c.step /\ s.frames = <<>>
    <3>1. <<>> \in Seq(Pastes)
      OBVIOUS
    <3> QED
      BY <1>2, <3>1 DEF AgentStates
  <2>2. clipAgent' = [clipAgent EXCEPT ![a] = s]
    BY <1>1, <1>6 DEF TypesOk, AgentDisconnects
  <2>3. UNCHANGED <<view, active, ctrlV, clipPending, outcome, pasted>>
    BY <1>6 DEF AgentDisconnects
  <2> HIDE DEF s
  <2>4. \A i \in 1..Len(s.frames): Queued(a, s.frames[i])
    BY <2>1
  <2> QED
    BY <1>1, <1>3, <1>4, <2>1, <2>2, <2>3, <2>4, AgentGoesOn DEF AgentOk
<1>7. CASE AgentTakes(a)
  <2> DEFINE s == [c EXCEPT !.job = Head(c.frames), !.frames = Tail(c.frames), !.step = "read"]
  <2>1. c.frames # <<>> /\ UNCHANGED <<view, active, ctrlV, clipPending, outcome, pasted>>
    BY <1>7 DEF AgentTakes
  <2>2. /\ Head(c.frames) \in Pastes /\ Head(c.frames) = c.frames[1]
        /\ Tail(c.frames) \in Seq(Pastes) /\ Len(c.frames) \in Nat \ {0}
        /\ Len(Tail(c.frames)) = Len(c.frames) - 1
        /\ \A i \in 1..Len(Tail(c.frames)): Tail(c.frames)[i] = c.frames[i + 1]
    BY <1>3, <2>1, HeadTailProperties
  <2>3. s \in AgentStates /\ s.job = Head(c.frames) /\ s.step = "read"
        /\ s.frames = Tail(c.frames)
    BY <1>2, <2>2 DEF AgentStates
  <2>4. clipAgent' = [clipAgent EXCEPT ![a] = s]
    BY <1>1, <1>7 DEF TypesOk, AgentTakes
  <2> HIDE DEF s
  <2>5. 1 \in 1..Len(c.frames) /\ \A i \in 1..Len(s.frames): i + 1 \in 1..Len(c.frames)
    BY <2>2, <2>3
  <2>6. s.job \in Pastes /\ Given(s.job)
    BY <1>3, <2>2, <2>3, <2>5 DEF Given
  <2>7. \A i \in 1..Len(s.frames): Queued(a, s.frames[i])
    BY <1>3, <2>2, <2>3, <2>5
  <2> QED
    BY <1>4, <2>1, <2>3, <2>4, <2>6, <2>7, AgentGoesOn
<1>8. CASE AgentFindsNone(a) \/ UploadReports(a)
  <2> DEFINE s == [c EXCEPT !.job = NoPaste, !.step = "idle"]
  <2>1. s \in AgentStates /\ s.job = NoPaste /\ s.step = "idle" /\ s.frames = c.frames
    BY <1>2 DEF AgentStates
  <2>2. clipAgent' = [clipAgent EXCEPT ![a] = s]
    BY <1>1, <1>8 DEF TypesOk, AgentFindsNone, UploadReports
  <2>3. /\ UNCHANGED <<view, active, ctrlV, pasted>>
        /\ \/ UNCHANGED <<clipPending, outcome>>
           \/ CompleteRequest(c.job, "no_image")
           \/ CompleteRequest(c.job, "uploaded") /\ c.step = "typed"
    BY <1>8 DEF AgentFindsNone, UploadReports
  <2> HIDE DEF s
  <2>4. clipPending' \subseteq clipPending
    BY <2>3 DEF CompleteRequest
  <2>5. outcome' \in [Pastes -> {"", "no_image", "uploaded"}]
    BY <1>4, <2>3 DEF CompleteRequest
  <2>6. \A q \in Pastes: outcome'[q] # outcome[q] =>
          /\ q \in clipPending /\ q \notin clipPending'
          /\ outcome'[q] = "uploaded" => Arrived(q)
    BY <1>1, <1>4, <2>3 DEF CompleteRequest, AgentOk
  <2> QED
    BY <1>2, <1>3, <2>1, <2>2, <2>3, <2>4, <2>5, <2>6, AgentGoesOn
<1> QED
  BY <1>5, <1>6, <1>7, <1>8, Uploads DEF AgentSteps

LEMMA ClipSteps ==
  ASSUME ClipInv, [ClipNext]_clipVars
  PROVE  ClipInv'
<1>1. CASE ViewChanges \/ UNCHANGED clipVars
  <2>1. UNCHANGED <<clipAgent, ctrlV, clipPending, outcome, pasted>>
    BY <1>1 DEF ViewChanges, clipVars
  <2>2. active' \subseteq ClipSessions
    BY <1>1 DEF ViewChanges, clipVars, ClipInv, TypesOk
  <2>3. view' \in [focus: {"tree", "left", "right"}, left: ClipSessions,
                  right: ClipSessions]
    BY <1>1 DEF ViewChanges, clipVars, ClipInv, TypesOk
  <2>4. TypesOk'
    BY <2>1, <2>2, <2>3 DEF ClipInv, TypesOk
  <2>5. /\ \A q \in Pastes: Given(q)' <=> Given(q)
        /\ \A q: Arrived(q)' <=> Arrived(q)
    BY <2>1 DEF Given, Queued, Arrived
  <2>6. \A p \in Pastes: PressOk(p)'
    BY <2>1, <2>5 DEF ClipInv, PressOk
  <2>7. \A a \in ClipAgents: AgentOk(a)'
    BY <2>1, <2>5 DEF ClipInv, AgentOk
  <2> QED
    BY <2>4, <2>6, <2>7 DEF ClipInv
<1> QED
  BY <1>1, PressSteps, Sends, TuiPastes, AgentMoves DEF ClipNext, RequestSteps

-------------------------------------------------------------------------------
(* TuiPointer: areas, mouse and scrolling.                                   *)

\* Boxes, what lies in one, and how one is divided.
IsBox(r) == r.x \in Nat /\ r.y \in Nat /\ r.w \in Nat /\ r.h \in Nat
Vain(r) == r.w = 0 \/ r.h = 0
Inner(p, r) ==
  \/ Vain(p)
  \/ /\ p.x >= r.x /\ p.x + p.w <= r.x + r.w
     /\ p.y >= r.y /\ p.y + p.h <= r.y + r.h
Apart(p, q) == Vain(p) \/ Vain(q) \/ Disjoint(p, q)
Divides(r, p, q) ==
  /\ IsBox(p) /\ IsBox(q) /\ Inner(p, r) /\ Inner(q, r) /\ Apart(p, q)
  /\ Area(p) + Area(q) = Area(r)

LEMMA BoxIs ==
  ASSUME NEW x, NEW y, NEW w, NEW h
  PROVE  Box(x, y, w, h).x = x /\ Box(x, y, w, h).y = y
         /\ Box(x, y, w, h).w = w /\ Box(x, y, w, h).h = h
  BY DEF Box

LEMMA InnerInner ==
  ASSUME NEW p, NEW q, NEW r, IsBox(p), IsBox(q), IsBox(r), Inner(p, q), Inner(q, r)
  PROVE  Inner(p, r)
  BY DEF IsBox, Inner, Vain

LEMMA InnerApart ==
  ASSUME NEW p, NEW q, NEW r, NEW s, IsBox(p), IsBox(q), IsBox(r), IsBox(s),
         Inner(p, r), Inner(q, s), Apart(r, s)
  PROVE  Apart(p, q) /\ Apart(q, p)
  BY DEF IsBox, Inner, Vain, Apart, Disjoint

LEMMA AreaIs ==
  ASSUME NEW r, IsBox(r)
  PROVE  /\ Area(r) \in Nat /\ (Area(r) > 0 => ~Vain(r)) /\ (Vain(r) => Area(r) = 0)
         /\ r.w > 0 /\ r.h > 0 => Area(r) > 0
<1>1. ASSUME NEW m \in Nat, NEW n \in Nat
      PROVE  m * n \in Nat /\ (m = 0 \/ n = 0 => m * n = 0) /\ (m > 0 /\ n > 0 => m * n > 0)
  OBVIOUS
<1>2. r.w \in Nat /\ r.h \in Nat
  BY DEF IsBox
<1>3. Area(r) = r.w * r.h
  BY DEF Area
<1> QED
  BY <1>1, <1>2, <1>3 DEF Vain

LEMMA NowhereIs == IsBox(Nowhere) /\ Vain(Nowhere) /\ Area(Nowhere) = 0
<1>1. Nowhere.x = 0 /\ Nowhere.y = 0 /\ Nowhere.w = 0 /\ Nowhere.h = 0
  BY BoxIs DEF Nowhere
<1>2. IsBox(Nowhere) /\ Vain(Nowhere)
  BY <1>1 DEF IsBox, Vain
<1> QED
  BY <1>2, AreaIs

\* A box that is not divided.
LEMMA WholeDivides ==
  ASSUME NEW r, IsBox(r)
  PROVE  Divides(r, r, Nowhere)
<1>1. Inner(r, r) /\ Inner(Nowhere, r) /\ Apart(r, Nowhere)
  BY NowhereIs DEF Inner, Apart, IsBox
<1> QED
  BY <1>1, NowhereIs, AreaIs DEF Divides

LEMMA BesideDivides ==
  ASSUME NEW r, IsBox(r), NEW w \in Nat, w <= r.w
  PROVE  /\ Divides(r, Beside(r, w)[1], Beside(r, w)[2])
         /\ Beside(r, w)[1].w = w /\ Beside(r, w)[2].w = r.w - w
         /\ Beside(r, w)[1].h = r.h /\ Beside(r, w)[2].h = r.h
         /\ Beside(r, w)[1] = Box(r.x, r.y, w, r.h)
         /\ Beside(r, w)[2] = Box(r.x + w, r.y, r.w - w, r.h)
<1>1. PICK p: p = Box(r.x, r.y, w, r.h)
  OBVIOUS
<1>2. PICK q: q = Box(r.x + w, r.y, r.w - w, r.h)
  OBVIOUS
<1>3. Beside(r, w)[1] = p /\ Beside(r, w)[2] = q
  BY <1>1, <1>2 DEF Beside
<1>4. /\ p.x = r.x /\ p.y = r.y /\ p.w = w /\ p.h = r.h
      /\ q.x = r.x + w /\ q.y = r.y /\ q.w = r.w - w /\ q.h = r.h
  BY <1>1, <1>2, BoxIs
<1>5. r.x \in Nat /\ r.y \in Nat /\ r.w \in Nat /\ r.h \in Nat
  BY DEF IsBox
<1>6. IsBox(p) /\ IsBox(q)
  BY <1>4, <1>5 DEF IsBox
<1>7. Inner(p, r) /\ Inner(q, r)
  BY <1>4, <1>5 DEF Inner
<1>8. Apart(p, q)
  BY <1>4, <1>5 DEF Apart, Disjoint
<1>9. Area(p) + Area(q) = Area(r)
  <2>1. \A a, b, c \in Nat: a * c + (b - a) * c = b * c
    OBVIOUS
  <2> QED
    BY <1>4, <1>5, <2>1 DEF Area
<1> QED
  BY <1>1, <1>2, <1>3, <1>4, <1>6, <1>7, <1>8, <1>9 DEF Divides

LEMMA StackedDivides ==
  ASSUME NEW r, IsBox(r), NEW h \in Nat, h <= r.h
  PROVE  /\ Divides(r, Stacked(r, h)[1], Stacked(r, h)[2])
         /\ Stacked(r, h)[1].w = r.w /\ Stacked(r, h)[2].w = r.w
         /\ Stacked(r, h)[1].h = h /\ Stacked(r, h)[2].h = r.h - h
         /\ Stacked(r, h)[1] = Box(r.x, r.y, r.w, h)
         /\ Stacked(r, h)[2] = Box(r.x, r.y + h, r.w, r.h - h)
<1>1. PICK p: p = Box(r.x, r.y, r.w, h)
  OBVIOUS
<1>2. PICK q: q = Box(r.x, r.y + h, r.w, r.h - h)
  OBVIOUS
<1>3. Stacked(r, h)[1] = p /\ Stacked(r, h)[2] = q
  BY <1>1, <1>2 DEF Stacked
<1>4. /\ p.x = r.x /\ p.y = r.y /\ p.w = r.w /\ p.h = h
      /\ q.x = r.x /\ q.y = r.y + h /\ q.w = r.w /\ q.h = r.h - h
  BY <1>1, <1>2, BoxIs
<1>5. r.x \in Nat /\ r.y \in Nat /\ r.w \in Nat /\ r.h \in Nat
  BY DEF IsBox
<1>6. IsBox(p) /\ IsBox(q)
  BY <1>4, <1>5 DEF IsBox
<1>7. Inner(p, r) /\ Inner(q, r)
  BY <1>4, <1>5 DEF Inner
<1>8. Apart(p, q)
  BY <1>4, <1>5 DEF Apart, Disjoint
<1>9. Area(p) + Area(q) = Area(r)
  <2>1. \A a, b, c \in Nat: c * a + c * (b - a) = c * b
    OBVIOUS
  <2> QED
    BY <1>4, <1>5, <2>1 DEF Area
<1> QED
  BY <1>1, <1>2, <1>3, <1>4, <1>6, <1>7, <1>8, <1>9 DEF Divides

\* A percentage of a length.
LEMMA PercentIs ==
  ASSUME NEW n \in Nat, NEW p \in 0..100
  PROVE  Percent(n, p) \in 0..n
<1>1. PICK k: k = n * p
  OBVIOUS
<1>2. k \in Int /\ 0 <= k /\ k <= 100 * n
  <2>1. n * p \in Int /\ n * (100 - p) \in Int /\ n * p >= 0 /\ n * (100 - p) >= 0
    OBVIOUS
  <2>2. n * (100 - p) = 100 * n - n * p
    OBVIOUS
  <2> QED
    BY <1>1, <2>1, <2>2
<1>3. Percent(n, p) = (k + 50) \div 100
  BY <1>1 DEF Percent
<1> QED
  BY <1>2, <1>3

LEMMA PercentSplits ==
  ASSUME NEW n \in Nat, n >= 80, NEW p \in 25..75
  PROVE  Percent(n, p) \in 20..n /\ n - Percent(n, p) >= 20
<1>1. PICK k: k = n * p
  OBVIOUS
<1>2. k \in Int /\ 25 * n <= k /\ k <= 75 * n
  <2>1. n * (p - 25) >= 0 /\ n * (75 - p) >= 0 /\ n * p \in Int
    OBVIOUS
  <2>2. n * (p - 25) = n * p - 25 * n /\ n * (75 - p) = 75 * n - n * p
    OBVIOUS
  <2> QED
    BY <1>1, <2>1, <2>2
<1>3. Percent(n, p) = (k + 50) \div 100
  BY <1>1 DEF Percent
<1> QED
  BY <1>2, <1>3

LEMMA WithinIs ==
  ASSUME NEW n \in Nat, NEW low \in Nat, NEW top \in Nat, low <= top
  PROVE  Within(n, low, top) \in low..top
  BY DEF Within, AtMost

\* The two halves of the middle of the screen.
LEMMA MainDivides ==
  ASSUME NEW r, IsBox(r), r.w >= 20, r.h >= 2, NEW s \in Shapes
  PROVE  /\ Divides(r, SplitMain(r, s)[1], SplitMain(r, s)[2])
         /\ SplitMain(r, s)[1].w >= 20
         /\ s.lazy => /\ SplitMain(r, s)[2].w > 0 /\ SplitMain(r, s)[2].h > 0
                      /\ \/ SplitMain(r, s)[2].w >= 40
                         \/ SplitMain(r, s)[2].w = SplitMain(r, s)[1].w
<1>1. r.w \in Nat /\ r.h \in Nat /\ s.lazy \in BOOLEAN /\ s.lw \in Nat
  <2>1. s.lw \in GitWidths /\ s.lazy \in BOOLEAN
    BY DEF Shapes
  <2> QED
    BY <2>1, ScreenAssumption DEF IsBox
<1>2. CASE ~s.lazy
  <2>1. SplitMain(r, s)[1] = r /\ SplitMain(r, s)[2] = Nowhere
    BY <1>2 DEF SplitMain
  <2> QED
    BY <1>2, <2>1, WholeDivides
<1>3. CASE s.lazy /\ r.w >= 100
  <2>1. PICK g: g = AtMost(Within(s.lw, 40, 160), Less(r.w, 40))
    OBVIOUS
  <2>2. Within(s.lw, 40, 160) \in 40..160
    <3>1. 40 \in Nat /\ 160 \in Nat /\ 40 <= 160
      OBVIOUS
    <3> QED
      BY <1>1, <3>1, WithinIs
  <2>3. g \in Nat /\ g >= 40 /\ r.w - g >= 40
    BY <1>1, <1>3, <2>1, <2>2 DEF AtMost, Less
  <2>4. SplitMain(r, s) = Beside(r, r.w - g)
    BY <1>3, <2>1 DEF SplitMain
  <2>5. PICK w \in Nat: w = r.w - g /\ w <= r.w
    BY <1>1, <2>3
  <2>6. /\ Divides(r, Beside(r, w)[1], Beside(r, w)[2])
        /\ Beside(r, w)[1].w = w /\ Beside(r, w)[2].w = r.w - w /\ Beside(r, w)[2].h = r.h
    BY <2>5, BesideDivides
  <2>7. SplitMain(r, s) = Beside(r, w)
    BY <2>4, <2>5
  <2> QED
    BY <1>1, <2>3, <2>5, <2>6, <2>7
<1>4. CASE s.lazy /\ ~(r.w >= 100)
  <2>1. PICK h: h = Percent(r.h, 55)
    OBVIOUS
  <2>2. h \in Nat /\ h <= r.h - 1
    BY <1>1, <2>1 DEF Percent
  <2>3. SplitMain(r, s) = Stacked(r, h)
    BY <1>4, <2>1 DEF SplitMain
  <2>4. /\ Divides(r, Stacked(r, h)[1], Stacked(r, h)[2])
        /\ Stacked(r, h)[1].w = r.w /\ Stacked(r, h)[2].w = r.w
        /\ Stacked(r, h)[2].h = r.h - h
    BY <1>1, <2>2, StackedDivides
  <2> QED
    BY <1>1, <2>2, <2>3, <2>4
<1> QED
  BY <1>1, <1>2, <1>3, <1>4

LEMMA TerminalDivides ==
  ASSUME NEW r, IsBox(r), r.w >= 20, NEW s \in Shapes
  PROVE  /\ Divides(r, SplitTerminal(r, s)[1], SplitTerminal(r, s)[2])
         /\ SplitTerminal(r, s)[1].w >= 20
         /\ s.split => SplitTerminal(r, s)[2].w >= 20
         /\ ~s.split => SplitTerminal(r, s)[1].w = r.w
<1>1. r.w \in Nat /\ r.h \in Nat /\ s.split \in BOOLEAN /\ s.pct \in Nat
  <2>1. s.pct \in Percents /\ s.split \in BOOLEAN
    BY DEF Shapes
  <2> QED
    BY <2>1, ScreenAssumption DEF IsBox
<1>2. CASE ~s.split
  <2>1. SplitTerminal(r, s)[1] = r /\ SplitTerminal(r, s)[2] = Nowhere
    BY <1>2 DEF SplitTerminal
  <2> QED
    BY <1>2, <2>1, WholeDivides
<1>3. CASE s.split /\ r.w >= 80
  <2>1. PICK w: w = Percent(r.w, Within(s.pct, 25, 75))
    OBVIOUS
  <2>2. Within(s.pct, 25, 75) \in 25..75
    <3>1. 25 \in Nat /\ 75 \in Nat /\ 25 <= 75
      OBVIOUS
    <3> QED
      BY <1>1, <3>1, WithinIs
  <2>3. w \in 20..r.w /\ r.w - w >= 20
    BY <1>1, <1>3, <2>1, <2>2, PercentSplits
  <2>4. SplitTerminal(r, s) = Beside(r, w)
    BY <1>3, <2>1 DEF SplitTerminal
  <2>5. /\ Divides(r, Beside(r, w)[1], Beside(r, w)[2])
        /\ Beside(r, w)[1].w = w /\ Beside(r, w)[2].w = r.w - w
    BY <1>1, <2>3, BesideDivides
  <2> QED
    BY <1>1, <1>3, <2>3, <2>4, <2>5
<1>4. CASE s.split /\ ~(r.w >= 80)
  <2>1. PICK h: h = Percent(r.h, 50)
    OBVIOUS
  <2>2. h \in 0..r.h
    <3>1. 50 \in 0..100
      OBVIOUS
    <3> QED
      BY <1>1, <2>1, <3>1, PercentIs
  <2>3. SplitTerminal(r, s) = Stacked(r, h)
    BY <1>4, <2>1 DEF SplitTerminal
  <2>4. /\ Divides(r, Stacked(r, h)[1], Stacked(r, h)[2])
        /\ Stacked(r, h)[1].w = r.w /\ Stacked(r, h)[2].w = r.w
    BY <1>1, <2>2, StackedDivides
  <2> QED
    BY <1>1, <1>4, <2>3, <2>4
<1> QED
  BY <1>1, <1>2, <1>3, <1>4

-----------------------------------------------------------------------------
\* Families of areas that fit in a box.

Fits(a, N, r) ==
  /\ \A n \in N: IsBox(a[n]) /\ Inner(a[n], r)
  /\ \A n, m \in N: n # m => Apart(a[n], a[m])

LEMMA FitsAlone ==
  ASSUME NEW a, NEW n, NEW r, IsBox(r), a[n] = r
  PROVE  Fits(a, {n}, r)
<1>1. Inner(r, r)
  BY DEF Inner, IsBox
<1> QED
  BY <1>1 DEF Fits

LEMMA FitsNowhere ==
  ASSUME NEW a, NEW N, NEW r, \A n \in N: a[n] = Nowhere
  PROVE  Fits(a, N, r)
  BY NowhereIs DEF Fits, Inner, Apart

LEMMA FitsTogether ==
  ASSUME NEW a, NEW N, NEW M, NEW r, NEW p, NEW q, IsBox(r), Divides(r, p, q),
         Fits(a, N, p), Fits(a, M, q)
  PROVE  Fits(a, N \cup M, r)
<1>1. IsBox(p) /\ IsBox(q) /\ Inner(p, r) /\ Inner(q, r) /\ Apart(p, q)
  BY DEF Divides
<1>2. \A n \in N: IsBox(a[n]) /\ Inner(a[n], p)
  BY DEF Fits
<1>3. \A m \in M: IsBox(a[m]) /\ Inner(a[m], q)
  BY DEF Fits
<1>4. \A n \in N \cup M: IsBox(a[n]) /\ Inner(a[n], r)
  BY <1>1, <1>2, <1>3, InnerInner
<1>5. \A n \in N, m \in M: Apart(a[n], a[m]) /\ Apart(a[m], a[n])
  BY <1>1, <1>2, <1>3, InnerApart
<1>6. /\ \A n, m \in N: n # m => Apart(a[n], a[m])
      /\ \A n, m \in M: n # m => Apart(a[n], a[m])
  BY DEF Fits
<1>7. \A n, m \in N \cup M: n # m => Apart(a[n], a[m])
  BY <1>5, <1>6
<1> QED
  BY <1>4, <1>7 DEF Fits

\* The names of the areas.
AreaNames == {"title", "banner", "tree", "usage", "left", "right", "lazygit",
              "panel", "status"}
AreaSum(a) ==
  Area(a.title) + Area(a.banner) + Area(a.tree) + Area(a.usage) + Area(a.left)
    + Area(a.right) + Area(a.lazygit) + Area(a.panel) + Area(a.status)
Window(s) == Box(0, 0, s.size[1], s.size[2])

\* What is to be shown of a frame.
GoodFrame(a, s) ==
  /\ DOMAIN a = AreaNames /\ Fits(a, AreaNames, Window(s))
  /\ AreaSum(a) = s.size[1] * s.size[2]
  /\ a.left.w >= 20 /\ (s.split => a.right.w >= 20)
  /\ s.lazy => /\ a.lazygit.w > 0 /\ a.lazygit.h > 0
               /\ a.lazygit.w >= 40 \/ a.lazygit.w = a.left.w \/ s.split
  /\ a.usage.h > 0 => a.tree.h >= 8

LEMMA ShapeIs ==
  ASSUME NEW s \in Shapes
  PROVE  /\ s.size[1] \in Nat /\ s.size[1] >= 20 /\ s.size[2] \in Nat /\ s.size[2] >= 6
         /\ s.tree \in Nat /\ s.lw \in Nat /\ s.pct \in Nat
         /\ s.lazy \in BOOLEAN /\ s.full \in BOOLEAN /\ s.hidden \in BOOLEAN
         /\ s.split \in BOOLEAN /\ s.panel \in BOOLEAN /\ s.banner \in BOOLEAN
         /\ IsBox(Window(s)) /\ Window(s).w = s.size[1] /\ Window(s).h = s.size[2]
         /\ Window(s).x = 0 /\ Window(s).y = 0
<1>1. /\ s.size \in ScreenSizes /\ s.tree \in TreeWidths /\ s.lw \in GitWidths
      /\ s.pct \in Percents
      /\ s.lazy \in BOOLEAN /\ s.full \in BOOLEAN /\ s.hidden \in BOOLEAN
      /\ s.split \in BOOLEAN /\ s.panel \in BOOLEAN /\ s.banner \in BOOLEAN
  BY DEF Shapes
<1>2. s.size \in Nat \X Nat /\ s.size[1] >= 20 /\ s.size[2] >= 6
  BY <1>1, ScreenAssumption
<1>3. s.size[1] \in Nat /\ s.size[2] \in Nat
  BY <1>2
<1>4. s.tree \in Nat /\ s.lw \in Nat /\ s.pct \in Nat
  BY <1>1, ScreenAssumption
<1>5. /\ Window(s).x = 0 /\ Window(s).y = 0
      /\ Window(s).w = s.size[1] /\ Window(s).h = s.size[2]
  BY BoxIs DEF Window
<1>6. IsBox(Window(s))
  BY <1>3, <1>5 DEF IsBox
<1> QED
  BY <1>1, <1>2, <1>3, <1>4, <1>5, <1>6

\* The terminals and lazygit in what is left for them.
LEMMA MiddleFits ==
  ASSUME NEW r, IsBox(r), r.w >= 20, r.h >= 2, NEW s \in Shapes, NEW a,
         a.left = SplitTerminal(SplitMain(r, s)[1], s)[1],
         a.right = SplitTerminal(SplitMain(r, s)[1], s)[2],
         a.lazygit = SplitMain(r, s)[2]
  PROVE  /\ Fits(a, {"left", "right", "lazygit"}, r)
         /\ Area(a.left) + Area(a.right) + Area(a.lazygit) = Area(r)
         /\ Area(a.left) \in Nat /\ Area(a.right) \in Nat /\ Area(a.lazygit) \in Nat
         /\ a.left.w >= 20 /\ (s.split => a.right.w >= 20)
         /\ s.lazy => /\ a.lazygit.w > 0 /\ a.lazygit.h > 0
                      /\ a.lazygit.w >= 40 \/ a.lazygit.w = a.left.w \/ s.split
<1>1. PICK main: main = SplitMain(r, s)
  OBVIOUS
<1>2. PICK terms: terms = SplitTerminal(main[1], s)
  OBVIOUS
<1>3. a.left = terms[1] /\ a.right = terms[2] /\ a.lazygit = main[2]
  BY <1>1, <1>2
<1>4. /\ Divides(r, main[1], main[2]) /\ main[1].w >= 20
      /\ s.lazy => /\ main[2].w > 0 /\ main[2].h > 0
                   /\ main[2].w >= 40 \/ main[2].w = main[1].w
  BY <1>1, MainDivides
<1>5. IsBox(main[1]) /\ IsBox(main[2]) /\ Area(main[1]) + Area(main[2]) = Area(r)
  BY <1>4 DEF Divides
<1>6. /\ Divides(main[1], terms[1], terms[2]) /\ terms[1].w >= 20
      /\ s.split => terms[2].w >= 20
      /\ ~s.split => terms[1].w = main[1].w
  BY <1>2, <1>4, <1>5, TerminalDivides
<1>7. /\ IsBox(terms[1]) /\ IsBox(terms[2])
      /\ Area(terms[1]) + Area(terms[2]) = Area(main[1])
  BY <1>6 DEF Divides
<1>8. Fits(a, {"left"}, terms[1]) /\ Fits(a, {"right"}, terms[2])
      /\ Fits(a, {"lazygit"}, main[2])
  BY <1>3, <1>5, <1>7, FitsAlone
<1>9. Fits(a, {"left"} \cup {"right"}, main[1])
  BY <1>5, <1>6, <1>8, FitsTogether
<1>10. Fits(a, ({"left"} \cup {"right"}) \cup {"lazygit"}, r)
  BY <1>4, <1>8, <1>9, FitsTogether
<1>11. ({"left"} \cup {"right"}) \cup {"lazygit"} = {"left", "right", "lazygit"}
  OBVIOUS
<1>12. Fits(a, {"left", "right", "lazygit"}, r)
  BY <1>10, <1>11
<1>13. /\ Area(terms[1]) \in Nat /\ Area(terms[2]) \in Nat /\ Area(main[2]) \in Nat
       /\ Area(main[1]) \in Nat /\ Area(r) \in Nat
  BY <1>5, <1>7, AreaIs
<1>14. Area(a.left) + Area(a.right) + Area(a.lazygit) = Area(r)
  BY <1>3, <1>5, <1>7, <1>13
<1>15. s.lazy => a.lazygit.w >= 40 \/ a.lazygit.w = a.left.w \/ s.split
  BY <1>3, <1>4, <1>6
<1> QED
  BY <1>3, <1>4, <1>6, <1>12, <1>13, <1>14, <1>15

LEMMA BoxBeside ==
  ASSUME NEW x \in Nat, NEW y \in Nat, NEW w \in Nat, NEW h \in Nat, NEW v \in Nat, v <= w,
         NEW x2, NEW w2, x2 = x + v, w2 = w - v
  PROVE  Divides(Box(x, y, w, h), Box(x, y, v, h), Box(x2, y, w2, h))
<1>1. PICK r: r = Box(x, y, w, h)
  OBVIOUS
<1>2. r.x = x /\ r.y = y /\ r.w = w /\ r.h = h
  BY <1>1, BoxIs
<1>3. IsBox(r)
  BY <1>2 DEF IsBox
<1>4. /\ Divides(r, Beside(r, v)[1], Beside(r, v)[2])
      /\ Beside(r, v)[1] = Box(r.x, r.y, v, r.h)
      /\ Beside(r, v)[2] = Box(r.x + v, r.y, r.w - v, r.h)
  BY <1>2, <1>3, BesideDivides
<1> QED
  BY <1>1, <1>2, <1>4

LEMMA BoxStacked ==
  ASSUME NEW x \in Nat, NEW y \in Nat, NEW w \in Nat, NEW h \in Nat, NEW v \in Nat, v <= h,
         NEW y2, NEW h2, y2 = y + v, h2 = h - v
  PROVE  Divides(Box(x, y, w, h), Box(x, y, w, v), Box(x, y2, w, h2))
<1>1. PICK r: r = Box(x, y, w, h)
  OBVIOUS
<1>2. r.x = x /\ r.y = y /\ r.w = w /\ r.h = h
  BY <1>1, BoxIs
<1>3. IsBox(r)
  BY <1>2 DEF IsBox
<1>4. /\ Divides(r, Stacked(r, v)[1], Stacked(r, v)[2])
      /\ Stacked(r, v)[1] = Box(r.x, r.y, r.w, v)
      /\ Stacked(r, v)[2] = Box(r.x, r.y + v, r.w, r.h - v)
  BY <1>2, <1>3, StackedDivides
<1> QED
  BY <1>1, <1>2, <1>4

LEMMA WindowArea ==
  ASSUME NEW s \in Shapes
  PROVE  Area(Window(s)) = s.size[1] * s.size[2]
  BY ShapeIs DEF Area

LEMMA FullFits ==
  ASSUME NEW s \in Shapes, s.full
  PROVE  GoodFrame(ComputeLayout(s), s)
<1>1. PICK r: r = Window(s)
  OBVIOUS
<1>2. PICK main: main = SplitMain(r, s)
  OBVIOUS
<1>3. PICK terms: terms = SplitTerminal(main[1], s)
  OBVIOUS
<1>4. PICK a: a = ComputeLayout(s)
  OBVIOUS
<1>5. a = [title |-> Nowhere, banner |-> Nowhere, tree |-> Nowhere,
           usage |-> Nowhere, left |-> terms[1], right |-> terms[2],
           lazygit |-> main[2], panel |-> Nowhere, status |-> Nowhere]
  BY <1>1, <1>2, <1>3, <1>4, Zenon DEF ComputeLayout, FullLayout, Window
<1>6. /\ DOMAIN a = AreaNames
      /\ a.title = Nowhere /\ a.banner = Nowhere /\ a.tree = Nowhere
      /\ a.usage = Nowhere /\ a.panel = Nowhere /\ a.status = Nowhere
      /\ a.left = SplitTerminal(SplitMain(r, s)[1], s)[1]
      /\ a.right = SplitTerminal(SplitMain(r, s)[1], s)[2]
      /\ a.lazygit = SplitMain(r, s)[2]
  BY <1>2, <1>3, <1>5 DEF AreaNames
<1>7. IsBox(r) /\ r.w >= 20 /\ r.h >= 2 /\ Area(r) = s.size[1] * s.size[2]
  BY <1>1, ShapeIs, WindowArea
<1>8. /\ Fits(a, {"left", "right", "lazygit"}, r)
      /\ Area(a.left) + Area(a.right) + Area(a.lazygit) = Area(r)
      /\ Area(a.left) \in Nat /\ Area(a.right) \in Nat /\ Area(a.lazygit) \in Nat
      /\ a.left.w >= 20 /\ (s.split => a.right.w >= 20)
      /\ s.lazy => /\ a.lazygit.w > 0 /\ a.lazygit.h > 0
                   /\ a.lazygit.w >= 40 \/ a.lazygit.w = a.left.w \/ s.split
  BY <1>6, <1>7, MiddleFits
<1>9. Fits(a, AreaNames, r)
  <2> DEFINE Absent == {"title", "banner", "tree", "usage", "panel", "status"}
  <2>1. Fits(a, Absent, Nowhere)
    <3>1. \A n \in Absent: a[n] = Nowhere
      BY <1>6
    <3> QED
      BY <3>1, FitsNowhere
  <2>2. Fits(a, {"left", "right", "lazygit"} \cup Absent, r)
    <3>1. Divides(r, r, Nowhere)
      BY <1>7, WholeDivides
    <3> HIDE DEF Absent
    <3> QED
      BY <1>7, <1>8, <2>1, <3>1, FitsTogether
  <2>3. {"left", "right", "lazygit"} \cup Absent = AreaNames
    BY DEF AreaNames
  <2> QED
    BY <2>2, <2>3
<1>10. AreaSum(a) = s.size[1] * s.size[2]
  <2>1. Area(Nowhere) = 0
    BY NowhereIs
  <2>2. /\ Area(a.title) = 0 /\ Area(a.banner) = 0 /\ Area(a.tree) = 0
        /\ Area(a.usage) = 0 /\ Area(a.panel) = 0 /\ Area(a.status) = 0
    BY <1>6, <2>1
  <2> QED
    BY <1>7, <1>8, <2>2 DEF AreaSum
<1>11. ~(a.usage.h > 0)
  <2>1. Nowhere.h = 0
    BY BoxIs DEF Nowhere
  <2> QED
    BY <1>6, <2>1
<1>12. GoodFrame(a, s)
  BY <1>1, <1>6, <1>8, <1>9, <1>10, <1>11 DEF GoodFrame
<1> QED
  BY <1>4, <1>12

\* Whatever the saved widths, the terminal keeps 20 columns.
LEMMA ColumnsFit ==
  ASSUME NEW s \in Shapes
  PROVE  /\ TreeColumns(s) \in Nat /\ GitColumns(s) \in Nat /\ PanelColumns(s) \in Nat
         /\ TreeColumns(s) + GitColumns(s) + PanelColumns(s) + 20 <= s.size[1]
         /\ GitColumns(s) > 0 => GitColumns(s) >= 40
<1>1. /\ s.size[1] \in Nat /\ s.size[1] >= 20 /\ s.tree \in Nat /\ s.lw \in Nat
      /\ s.hidden \in BOOLEAN /\ s.lazy \in BOOLEAN
  BY ShapeIs
<1>2. TreeColumns(s) \in Nat /\ TreeColumns(s) + 20 <= s.size[1]
  BY <1>1 DEF TreeColumns, AtMost, Less
<1>3. /\ GitColumns(s) \in Nat /\ TreeColumns(s) + GitColumns(s) + 20 <= s.size[1]
      /\ GitColumns(s) > 0 => GitColumns(s) >= 40
  <2>1. PICK wanted: wanted = IF s.lazy THEN Within(s.lw, 40, 160) ELSE 0
    OBVIOUS
  <2>2. Within(s.lw, 40, 160) \in 40..160
    <3>1. 40 \in Nat /\ 160 \in Nat /\ 40 <= 160
      OBVIOUS
    <3> QED
      BY <1>1, <3>1, WithinIs
  <2>3. wanted \in Nat /\ (wanted = 0 \/ wanted >= 40)
    BY <2>1, <2>2
  <2>4. GitColumns(s) = IF Less(Less(s.size[1], TreeColumns(s)), wanted) < 20 THEN 0
                        ELSE wanted
    BY <2>1 DEF GitColumns
  <2> QED
    BY <1>1, <1>2, <2>3, <2>4 DEF Less
<1>4. /\ PanelColumns(s) \in Nat
      /\ TreeColumns(s) + GitColumns(s) + PanelColumns(s) + 20 <= s.size[1]
  BY <1>1, <1>2, <1>3 DEF PanelColumns, Less
<1> QED
  BY <1>2, <1>3, <1>4

LEMMA PanesFit ==
  ASSUME NEW s \in Shapes, ~s.full
  PROVE  GoodFrame(ComputeLayout(s), s)
<1>1. PICK w \in Nat, H \in Nat: w = s.size[1] /\ H = s.size[2] /\ w >= 20 /\ H >= 6
  BY ShapeIs
<1>2. PICK top \in Nat: top = (IF s.banner THEN 2 ELSE 1) /\ top >= 1 /\ top <= 2
  OBVIOUS
<1>3. PICK h \in Nat: h = s.size[2] - top - 1 /\ h >= 3 /\ h = H - top - 1
  BY <1>1, <1>2
<1>4. PICK tw \in Nat, gw \in Nat, pw \in Nat:
        /\ tw = TreeColumns(s) /\ gw = GitColumns(s) /\ pw = PanelColumns(s)
        /\ tw + gw + pw + 20 <= w /\ (gw > 0 => gw >= 40)
  BY <1>1, ColumnsFit
<1>5. PICK bw \in Nat: bw = w - tw - pw - gw /\ bw >= 20
  BY <1>1, <1>4
<1>6. PICK th \in Nat: /\ th = IF h >= 18 THEN h - 10 ELSE h
                       /\ th <= h /\ (h - th > 0 => th >= 8)
  BY <1>3
<1>7. PICK body: body = Box(tw, top, bw, h)
  OBVIOUS
<1>8. PICK git: git = Box(w - gw, top, gw, h)
  OBVIOUS
<1>9. PICK main: main = IF gw > 0 THEN <<body, git>> ELSE SplitMain(body, s)
  OBVIOUS
<1>10. PICK terms: terms = SplitTerminal(main[1], s)
  OBVIOUS
<1>11. PICK side: side = Stacked(Box(0, top, tw, h), th)
  OBVIOUS
<1>12. PICK a: a = ComputeLayout(s)
  OBVIOUS
<1>13. a = [title |-> Box(0, 0, w, 1), banner |-> Box(0, 1, w, top - 1),
            tree |-> side[1], usage |-> side[2],
            left |-> terms[1], right |-> terms[2], lazygit |-> main[2],
            panel |-> Box(w - gw - pw, top, pw, h),
            status |-> Box(0, s.size[2] - 1, w, 1)]
  <2>1. /\ s.size[1] = w /\ (IF s.banner THEN 2 ELSE 1) = top
        /\ s.size[2] - top - 1 = h
        /\ TreeColumns(s) = tw /\ GitColumns(s) = gw /\ PanelColumns(s) = pw
        /\ (IF h >= 18 THEN h - 10 ELSE h) = th
        /\ Box(tw, top, w - tw - pw - gw, h) = body /\ Box(w - gw, top, gw, h) = git
        /\ (IF gw > 0 THEN <<body, git>> ELSE SplitMain(body, s)) = main
        /\ SplitTerminal(main[1], s) = terms
        /\ Stacked(Box(0, top, tw, h), th) = side
    BY <1>1, <1>2, <1>3, <1>4, <1>5, <1>6, <1>7, <1>8, <1>9, <1>10, <1>11
  <2>2. ComputeLayout(s)
          = [title |-> Box(0, 0, w, 1), banner |-> Box(0, 1, w, top - 1),
             tree |-> side[1], usage |-> side[2],
             left |-> terms[1], right |-> terms[2], lazygit |-> main[2],
             panel |-> Box(w - gw - pw, top, pw, h),
             status |-> Box(0, s.size[2] - 1, w, 1)]
    BY <2>1, SMT DEF ComputeLayout
  <2> QED
    BY <1>12, <2>2
<1>14. /\ DOMAIN a = AreaNames
       /\ a.title = Box(0, 0, w, 1) /\ a.banner = Box(0, 1, w, top - 1)
       /\ a.tree = side[1] /\ a.usage = side[2]
       /\ a.left = terms[1] /\ a.right = terms[2] /\ a.lazygit = main[2]
       /\ a.panel = Box(w - gw - pw, top, pw, h)
       /\ a.status = Box(0, s.size[2] - 1, w, 1)
  BY <1>13 DEF AreaNames
\* The window is cut into rows, the rows between the lines into columns.
<1>20. PICK below: below = Box(0, 1, w, H - 1)
  OBVIOUS
<1>21. PICK rest: rest = Box(0, top, w, H - top)
  OBVIOUS
<1>22. PICK band: band = Box(0, top, w, h)
  OBVIOUS
<1>23. PICK right1: right1 = Box(tw, top, w - tw, h)
  OBVIOUS
<1>24. PICK right2: right2 = Box(w - gw - pw, top, pw + gw, h)
  OBVIOUS
<1>25. PICK column: column = Box(0, top, tw, h)
  OBVIOUS
<1>30. Divides(Window(s), a.title, below)
  <2>1. 0 \in Nat /\ 1 \in Nat /\ 1 <= H /\ 1 = 0 + 1 /\ H - 1 = H - 1
    BY <1>1
  <2>2. Divides(Box(0, 0, w, H), Box(0, 0, w, 1), Box(0, 1, w, H - 1))
    BY <1>1, <2>1, BoxStacked
  <2> QED
    BY <1>1, <1>14, <1>20, <2>2 DEF Window
<1>31. Divides(below, a.banner, rest)
  <2>1. /\ 0 \in Nat /\ 1 \in Nat /\ H - 1 \in Nat /\ top - 1 \in Nat /\ top - 1 <= H - 1
        /\ top = 1 + (top - 1) /\ H - top = H - 1 - (top - 1)
    BY <1>1, <1>2
  <2>2. Divides(Box(0, 1, w, H - 1), Box(0, 1, w, top - 1), Box(0, top, w, H - top))
    BY <1>1, <2>1, BoxStacked
  <2> QED
    BY <1>14, <1>20, <1>21, <2>2
<1>32. Divides(rest, band, a.status)
  <2>1. /\ 0 \in Nat /\ H - top \in Nat /\ h <= H - top
        /\ H - 1 = top + h /\ 1 = H - top - h
    BY <1>1, <1>2, <1>3
  <2>2. Divides(Box(0, top, w, H - top), Box(0, top, w, h), Box(0, H - 1, w, 1))
    BY <1>1, <2>1, BoxStacked
  <2> QED
    BY <1>1, <1>14, <1>21, <1>22, <2>2
<1>33. Divides(band, column, right1)
  <2>1. 0 \in Nat /\ tw <= w /\ tw = 0 + tw /\ w - tw = w - tw
    BY <1>1, <1>4
  <2>2. Divides(Box(0, top, w, h), Box(0, top, tw, h), Box(tw, top, w - tw, h))
    BY <2>1, BoxBeside
  <2> QED
    BY <1>22, <1>23, <1>25, <2>2
<1>34. Divides(column, a.tree, a.usage)
  <2>1. IsBox(column) /\ column.h = h
    BY <1>25, BoxIs DEF IsBox
  <2>2. Divides(column, Stacked(column, th)[1], Stacked(column, th)[2])
    BY <1>6, <2>1, StackedDivides
  <2> QED
    BY <1>11, <1>14, <1>25, <2>2
<1>35. Divides(right1, body, right2)
  <2>1. /\ w - tw \in Nat /\ bw <= w - tw /\ w - gw - pw = tw + bw
        /\ pw + gw = w - tw - bw
    BY <1>1, <1>4, <1>5
  <2>2. Divides(Box(tw, top, w - tw, h), Box(tw, top, bw, h),
                Box(w - gw - pw, top, pw + gw, h))
    BY <2>1, BoxBeside
  <2> QED
    BY <1>7, <1>23, <1>24, <2>2
<1>36. Divides(right2, a.panel, git)
  <2>1. /\ w - gw - pw \in Nat /\ pw + gw \in Nat /\ pw <= pw + gw
        /\ w - gw = w - gw - pw + pw /\ gw = pw + gw - pw
    BY <1>1, <1>4
  <2>2. Divides(Box(w - gw - pw, top, pw + gw, h), Box(w - gw - pw, top, pw, h),
                Box(w - gw, top, gw, h))
    BY <2>1, BoxBeside
  <2> QED
    BY <1>8, <1>14, <1>24, <2>2
<1>37. /\ IsBox(below) /\ IsBox(rest) /\ IsBox(band) /\ IsBox(right1) /\ IsBox(right2)
       /\ IsBox(column) /\ IsBox(body) /\ IsBox(git) /\ IsBox(Window(s))
       /\ IsBox(a.title) /\ IsBox(a.banner) /\ IsBox(a.tree) /\ IsBox(a.usage)
       /\ IsBox(a.panel) /\ IsBox(a.status)
  BY <1>30, <1>31, <1>32, <1>33, <1>34, <1>35, <1>36, ShapeIs DEF Divides
\* Terminals and lazygit in the columns left for them.
<1>40. /\ body.w = bw /\ body.h = h /\ git.w = gw /\ git.h = h
  BY <1>7, <1>8, BoxIs
<1>41. PICK N, M: /\ N \cup M = {"left", "right", "lazygit"}
                  /\ Fits(a, N, body) /\ Fits(a, M, git)
                  /\ Area(a.left) + Area(a.right) + Area(a.lazygit) = Area(body) + Area(git)
                  /\ Area(a.left) \in Nat /\ Area(a.right) \in Nat /\ Area(a.lazygit) \in Nat
                  /\ a.left.w >= 20 /\ (s.split => a.right.w >= 20)
                  /\ s.lazy => /\ a.lazygit.w > 0 /\ a.lazygit.h > 0
                               /\ a.lazygit.w >= 40 \/ a.lazygit.w = a.left.w \/ s.split
  <2>1. CASE gw > 0
    <3>1. main[1] = body /\ main[2] = git
      BY <1>9, <2>1
    <3>2. a.left = SplitTerminal(body, s)[1] /\ a.right = SplitTerminal(body, s)[2]
          /\ a.lazygit = git
      BY <1>10, <1>14, <3>1
    <3>3. body.w >= 20
      BY <1>5, <1>40
    <3>4. /\ Divides(body, a.left, a.right) /\ a.left.w >= 20
          /\ s.split => a.right.w >= 20
      BY <1>37, <3>2, <3>3, TerminalDivides
    <3>5. /\ IsBox(a.left) /\ IsBox(a.right) /\ Area(a.left) + Area(a.right) = Area(body)
      BY <3>4 DEF Divides
    <3>6. Fits(a, {"left"}, a.left) /\ Fits(a, {"right"}, a.right) /\ Fits(a, {"lazygit"}, git)
      BY <1>37, <3>2, <3>5, FitsAlone
    <3>7. Fits(a, {"left"} \cup {"right"}, body)
      BY <1>37, <3>4, <3>6, FitsTogether
    <3>8. /\ Area(a.left) \in Nat /\ Area(a.right) \in Nat /\ Area(git) \in Nat
          /\ Area(body) \in Nat
      BY <1>37, <3>5, AreaIs
    <3>9. a.lazygit.w > 0 /\ a.lazygit.h > 0 /\ a.lazygit.w >= 40
      BY <1>3, <1>4, <1>40, <2>1, <3>2
    <3>10. ({"left"} \cup {"right"}) \cup {"lazygit"} = {"left", "right", "lazygit"}
      OBVIOUS
    <3>11. Area(a.left) + Area(a.right) + Area(a.lazygit) = Area(body) + Area(git)
      BY <3>2, <3>5, <3>8
    <3> QED
      BY <3>2, <3>4, <3>6, <3>7, <3>8, <3>9, <3>10, <3>11
  <2>2. CASE gw = 0
    <3>1. main = SplitMain(body, s)
      BY <1>9, <2>2
    <3>2. /\ a.left = SplitTerminal(SplitMain(body, s)[1], s)[1]
          /\ a.right = SplitTerminal(SplitMain(body, s)[1], s)[2]
          /\ a.lazygit = SplitMain(body, s)[2]
      BY <1>10, <1>14, <3>1
    <3>3. body.w >= 20 /\ body.h >= 2
      BY <1>3, <1>5, <1>40
    <3>4. /\ Fits(a, {"left", "right", "lazygit"}, body)
          /\ Area(a.left) + Area(a.right) + Area(a.lazygit) = Area(body)
          /\ Area(a.left) \in Nat /\ Area(a.right) \in Nat /\ Area(a.lazygit) \in Nat
          /\ a.left.w >= 20 /\ (s.split => a.right.w >= 20)
          /\ s.lazy => /\ a.lazygit.w > 0 /\ a.lazygit.h > 0
                       /\ a.lazygit.w >= 40 \/ a.lazygit.w = a.left.w \/ s.split
      BY <1>37, <3>2, <3>3, MiddleFits
    <3>5. Fits(a, {}, git)
      BY DEF Fits
    <3>6. Area(git) = 0 /\ Area(body) \in Nat
      <4>1. Vain(git)
        BY <1>40, <2>2 DEF Vain
      <4> QED
        BY <1>37, <4>1, AreaIs
    <3>7. {"left", "right", "lazygit"} \cup {} = {"left", "right", "lazygit"}
      OBVIOUS
    <3>8. Area(a.left) + Area(a.right) + Area(a.lazygit) = Area(body) + Area(git)
      BY <3>4, <3>6
    <3> QED
      BY <3>4, <3>5, <3>7, <3>8
  <2> QED
    BY <2>1, <2>2
\* The whole.
<1>50. Fits(a, {"panel"} \cup M, right2)
  <2>1. Fits(a, {"panel"}, a.panel)
    BY <1>37, FitsAlone
  <2> QED
    BY <1>36, <1>37, <1>41, <2>1, FitsTogether
<1>51. Fits(a, N \cup ({"panel"} \cup M), right1)
  BY <1>35, <1>37, <1>41, <1>50, FitsTogether
<1>52. Fits(a, {"tree"} \cup {"usage"}, column)
  <2>1. Fits(a, {"tree"}, a.tree) /\ Fits(a, {"usage"}, a.usage)
    BY <1>37, FitsAlone
  <2> QED
    BY <1>34, <1>37, <2>1, FitsTogether
<1>53. PICK Columns: /\ Columns = ({"tree"} \cup {"usage"}) \cup (N \cup ({"panel"} \cup M))
                     /\ Fits(a, Columns, band)
  BY <1>33, <1>37, <1>51, <1>52, FitsTogether
<1>54. Fits(a, Columns \cup {"status"}, rest)
  <2>1. Fits(a, {"status"}, a.status)
    BY <1>37, FitsAlone
  <2> QED
    BY <1>32, <1>37, <1>53, <2>1, FitsTogether
<1>55. Fits(a, {"banner"} \cup (Columns \cup {"status"}), below)
  <2>1. Fits(a, {"banner"}, a.banner)
    BY <1>37, FitsAlone
  <2> QED
    BY <1>31, <1>37, <1>54, <2>1, FitsTogether
<1>56. Fits(a, {"title"} \cup ({"banner"} \cup (Columns \cup {"status"})), Window(s))
  <2>1. Fits(a, {"title"}, a.title)
    BY <1>37, FitsAlone
  <2> QED
    BY <1>30, <1>37, <1>55, <2>1, FitsTogether
<1>57. {"title"} \cup ({"banner"} \cup (Columns \cup {"status"})) = AreaNames
  <2>1. Columns = {"tree", "usage", "panel"} \cup {"left", "right", "lazygit"}
    BY <1>41, <1>53
  <2> QED
    BY <2>1 DEF AreaNames
<1>58. Fits(a, AreaNames, Window(s))
  BY <1>56, <1>57
<1>59. AreaSum(a) = s.size[1] * s.size[2]
  <2>1. /\ Area(a.title) + Area(below) = Area(Window(s))
        /\ Area(a.banner) + Area(rest) = Area(below)
        /\ Area(band) + Area(a.status) = Area(rest)
        /\ Area(column) + Area(right1) = Area(band)
        /\ Area(a.tree) + Area(a.usage) = Area(column)
        /\ Area(body) + Area(right2) = Area(right1)
        /\ Area(a.panel) + Area(git) = Area(right2)
    BY <1>30, <1>31, <1>32, <1>33, <1>34, <1>35, <1>36 DEF Divides
  <2>2. /\ Area(a.title) \in Nat /\ Area(below) \in Nat /\ Area(a.banner) \in Nat
        /\ Area(rest) \in Nat /\ Area(band) \in Nat /\ Area(a.status) \in Nat
        /\ Area(column) \in Nat /\ Area(right1) \in Nat /\ Area(a.tree) \in Nat
        /\ Area(a.usage) \in Nat /\ Area(body) \in Nat /\ Area(right2) \in Nat
        /\ Area(a.panel) \in Nat /\ Area(git) \in Nat
    BY <1>37, AreaIs
  <2>3. AreaSum(a) = Area(Window(s))
    BY <1>41, <2>1, <2>2 DEF AreaSum
  <2> QED
    BY <2>3, WindowArea
<1>60. a.usage.h > 0 => a.tree.h >= 8
  <2>1. IsBox(column) /\ column.h = h
    BY <1>25, BoxIs DEF IsBox
  <2>2. Stacked(column, th)[1].h = th /\ Stacked(column, th)[2].h = h - th
    BY <1>6, <2>1, StackedDivides
  <2> QED
    BY <1>6, <1>11, <1>14, <1>25, <2>2
<1>61. GoodFrame(a, s)
  BY <1>14, <1>41, <1>58, <1>59, <1>60 DEF GoodFrame
<1> QED
  BY <1>12, <1>61

LEMMA FramesAreGood ==
  ASSUME NEW s \in Shapes
  PROVE  GoodFrame(ComputeLayout(s), s)
  BY FullFits, PanesFit

LEMMA FramesFit == LayoutFits
<1> SUFFICES ASSUME NEW s \in Shapes,
                    NEW a, a = ComputeLayout(s),
                    NEW f, f = {n \in DOMAIN a : Area(a[n]) > 0}
             PROVE  /\ \A n \in f : /\ a[n].x >= 0 /\ a[n].x + a[n].w <= s.size[1]
                                    /\ a[n].y >= 0 /\ a[n].y + a[n].h <= s.size[2]
                    /\ \A n, m \in f : n # m => Disjoint(a[n], a[m])
                    /\ \A n \in DOMAIN a : a[n].w >= 0 /\ a[n].h >= 0
                    /\ Area(a.title) + Area(a.banner) + Area(a.tree) + Area(a.usage)
                         + Area(a.left) + Area(a.right) + Area(a.lazygit)
                         + Area(a.panel) + Area(a.status) = s.size[1] * s.size[2]
                    /\ a.left.w >= 20 /\ (s.split => a.right.w >= 20)
                    /\ s.lazy => /\ "lazygit" \in f
                                 /\ a.lazygit.w >= 40 \/ a.lazygit.w = a.left.w
                                      \/ s.split
                    /\ "usage" \in f => a.tree.h >= 8
  BY Zenon DEF LayoutFits
<1>1. GoodFrame(a, s)
  BY FramesAreGood
<1>2. /\ DOMAIN a = AreaNames /\ Fits(a, AreaNames, Window(s))
      /\ AreaSum(a) = s.size[1] * s.size[2]
      /\ a.left.w >= 20 /\ (s.split => a.right.w >= 20)
      /\ s.lazy => /\ a.lazygit.w > 0 /\ a.lazygit.h > 0
                   /\ a.lazygit.w >= 40 \/ a.lazygit.w = a.left.w \/ s.split
      /\ a.usage.h > 0 => a.tree.h >= 8
  BY <1>1 DEF GoodFrame
<1>3. /\ \A n \in AreaNames: IsBox(a[n]) /\ Inner(a[n], Window(s))
      /\ \A n, m \in AreaNames: n # m => Apart(a[n], a[m])
  BY <1>2 DEF Fits
<1>4. \A n: n \in f <=> n \in AreaNames /\ Area(a[n]) > 0
  BY <1>2
<1>5. \A n \in f: n \in AreaNames /\ ~Vain(a[n])
  BY <1>3, <1>4, AreaIs
<1>6. \A n \in f : /\ a[n].x >= 0 /\ a[n].x + a[n].w <= s.size[1]
                   /\ a[n].y >= 0 /\ a[n].y + a[n].h <= s.size[2]
  <2> SUFFICES ASSUME NEW n \in f
               PROVE  /\ a[n].x >= 0 /\ a[n].x + a[n].w <= s.size[1]
                      /\ a[n].y >= 0 /\ a[n].y + a[n].h <= s.size[2]
    OBVIOUS
  <2>1. IsBox(a[n]) /\ Inner(a[n], Window(s)) /\ ~Vain(a[n])
    BY <1>3, <1>5
  <2>2. /\ a[n].x >= Window(s).x /\ a[n].x + a[n].w <= Window(s).x + Window(s).w
        /\ a[n].y >= Window(s).y /\ a[n].y + a[n].h <= Window(s).y + Window(s).h
    BY <2>1, Zenon DEF Inner
  <2>3. /\ s.size[1] \in Nat /\ s.size[2] \in Nat
        /\ Window(s).w = s.size[1] /\ Window(s).h = s.size[2]
        /\ Window(s).x = 0 /\ Window(s).y = 0
    BY ShapeIs
  <2> QED
    BY <2>2, <2>3
<1>7. \A n, m \in f : n # m => Disjoint(a[n], a[m])
  BY <1>3, <1>5, Zenon DEF Apart
<1>8. \A n \in DOMAIN a : a[n].w >= 0 /\ a[n].h >= 0
  BY <1>2, <1>3 DEF IsBox
<1>9. s.lazy => "lazygit" \in f
  <2>1. "lazygit" \in AreaNames
    BY DEF AreaNames
  <2>2. s.lazy => Area(a.lazygit) > 0
    BY <1>2, <1>3, <2>1, AreaIs
  <2> QED
    BY <1>4, <2>1, <2>2
<1>10. "usage" \in f => a.tree.h >= 8
  <2>1. "usage" \in AreaNames
    BY DEF AreaNames
  <2>2. "usage" \in f => a.usage.h > 0
    BY <1>3, <1>5, <2>1 DEF IsBox, Vain
  <2> QED
    BY <1>2, <2>2
<1> QED
  BY <1>2, <1>6, <1>7, <1>8, <1>9, <1>10 DEF AreaSum

-----------------------------------------------------------------------------
\* What is forwarded tells the events apart.

LEMMA KindsAre ==
  ASSUME NEW k \in MouseKinds
  PROVE  \/ /\ k[1] \in {"down", "up", "drag"} /\ k[2] \in MouseButtons
            /\ k = <<k[1], k[2]>>
            /\ KindCode(k) = (IF k[1] = "drag" THEN 32 ELSE 0)
                               + (IF k[2] = "left" THEN 0 ELSE IF k[2] = "middle" THEN 1 ELSE 2)
         \/ k = <<"scroll", "up">> /\ KindCode(k) = 64
         \/ k = <<"scroll", "down">> /\ KindCode(k) = 65
         \/ k = <<"scroll", "left">> /\ KindCode(k) = 66
         \/ k = <<"scroll", "right">> /\ KindCode(k) = 67
<1>1. CASE k \in {"down", "up", "drag"} \X MouseButtons
  <2>1. k[1] \in {"down", "up", "drag"} /\ k[2] \in MouseButtons /\ k = <<k[1], k[2]>>
    BY <1>1
  <2>2. ButtonCode(k[2]) = IF k[2] = "left" THEN 0 ELSE IF k[2] = "middle" THEN 1 ELSE 2
    BY <2>1 DEF ButtonCode, MouseButtons
  <2>3. k[1] # "scroll"
    BY <2>1
  <2>4. /\ k # <<"scroll", "up">> /\ k # <<"scroll", "down">>
        /\ k # <<"scroll", "left">> /\ k # <<"scroll", "right">>
    BY <2>3
  <2>5. CASE k[1] \in {"down", "up"}
    <3>1. KindCode(k) = ButtonCode(k[2])
      BY <2>4, <2>5 DEF KindCode
    <3> QED
      BY <2>1, <2>2, <2>5, <3>1 DEF MouseButtons
  <2>6. CASE k[1] = "drag"
    <3>1. KindCode(k) = ButtonCode(k[2]) + 32
      BY <2>4, <2>6 DEF KindCode
    <3> QED
      BY <2>1, <2>2, <2>6, <3>1 DEF MouseButtons
  <2> QED
    BY <2>1, <2>5, <2>6
<1>2. CASE k \in {"scroll"} \X {"up", "down", "left", "right"}
  <2>1. \/ k = <<"scroll", "up">> \/ k = <<"scroll", "down">>
        \/ k = <<"scroll", "left">> \/ k = <<"scroll", "right">>
    BY <1>2
  <2>2. k[1] = "scroll"
    BY <2>1
  <2>3. CASE k = <<"scroll", "up">>
    BY <2>2, <2>3 DEF KindCode
  <2>4. CASE k = <<"scroll", "down">>
    <3>1. k # <<"scroll", "up">>
      BY <2>4
    <3> QED
      BY <2>2, <2>4, <3>1 DEF KindCode
  <2>5. CASE k = <<"scroll", "left">>
    <3>1. k # <<"scroll", "up">> /\ k # <<"scroll", "down">>
      BY <2>5
    <3> QED
      BY <2>2, <2>5, <3>1 DEF KindCode
  <2>6. CASE k = <<"scroll", "right">>
    <3>1. k # <<"scroll", "up">> /\ k # <<"scroll", "down">> /\ k # <<"scroll", "left">>
      BY <2>6
    <3> QED
      BY <2>2, <2>6, <3>1 DEF KindCode
  <2> QED
    BY <2>1, <2>3, <2>4, <2>5, <2>6
<1> QED
  BY <1>1, <1>2 DEF MouseKinds

LEMMA ModifiersAre ==
  ASSUME NEW m \in SUBSET Modifiers, NEW n \in SUBSET Modifiers
  PROVE  /\ Bit("shift", m, 4) \in {0, 4} /\ Bit("alt", m, 8) \in {0, 8}
         /\ Bit("control", m, 16) \in {0, 16}
         /\ (/\ Bit("shift", m, 4) = Bit("shift", n, 4)
             /\ Bit("alt", m, 8) = Bit("alt", n, 8)
             /\ Bit("control", m, 16) = Bit("control", n, 16)) => m = n
<1>1. /\ Bit("shift", m, 4) \in {0, 4} /\ Bit("alt", m, 8) \in {0, 8}
      /\ Bit("control", m, 16) \in {0, 16}
  BY DEF Bit
<1>2. ASSUME Bit("shift", m, 4) = Bit("shift", n, 4), Bit("alt", m, 8) = Bit("alt", n, 8),
             Bit("control", m, 16) = Bit("control", n, 16)
      PROVE  m = n
  <2>1. /\ "shift" \in m <=> "shift" \in n
        /\ "alt" \in m <=> "alt" \in n
        /\ "control" \in m <=> "control" \in n
    BY <1>2 DEF Bit
  <2>2. ASSUME NEW x
        PROVE  x \in m <=> x \in n
    <3>1. x \in m \/ x \in n => x = "shift" \/ x = "alt" \/ x = "control"
      BY DEF Modifiers
    <3> QED
      BY <2>1, <3>1
  <2> QED
    BY <2>2
<1> QED
  BY <1>1, <1>2

LEMMA EventsAreTold == EventsDiffer
<1> SUFFICES ASSUME NEW k \in MouseKinds, NEW l \in MouseKinds,
                    NEW m \in SUBSET Modifiers, NEW n \in SUBSET Modifiers,
                    EncodeMouse(k, m) = EncodeMouse(l, n)
             PROVE  k = l /\ m = n
  BY DEF EventsDiffer
<1>1. PICK a, b, c, d, e, f:
        /\ a = Bit("shift", m, 4) /\ b = Bit("alt", m, 8) /\ c = Bit("control", m, 16)
        /\ d = Bit("shift", n, 4) /\ e = Bit("alt", n, 8) /\ f = Bit("control", n, 16)
  OBVIOUS
<1>2. /\ a \in {0, 4} /\ b \in {0, 8} /\ c \in {0, 16}
      /\ d \in {0, 4} /\ e \in {0, 8} /\ f \in {0, 16}
      /\ a = d /\ b = e /\ c = f => m = n
  BY <1>1, ModifiersAre
<1>3. KindCode(k) + a + b + c = KindCode(l) + d + e + f
  BY <1>1 DEF EncodeMouse
<1>4. (k[1] = "up") <=> (l[1] = "up")
  BY DEF EncodeMouse
<1>5. PICK p, q: p = KindCode(k) /\ q = KindCode(l)
  OBVIOUS
<1>6. /\ p \in {0, 1, 2, 32, 33, 34, 64, 65, 66, 67}
      /\ q \in {0, 1, 2, 32, 33, 34, 64, 65, 66, 67}
  BY <1>5, KindsAre
<1>7. p + a + b + c = q + d + e + f
  BY <1>3, <1>5
<1>8. p = q /\ a + b + c = d + e + f
  BY <1>2, <1>6, <1>7
<1>9. a = d /\ b = e /\ c = f
  BY <1>2, <1>8
<1>10. k = l
  <2>1. KindCode(k) = KindCode(l)
    BY <1>5, <1>8
  <2>2. \/ /\ k[1] \in {"down", "up", "drag"} /\ k[2] \in MouseButtons
           /\ k = <<k[1], k[2]>>
           /\ KindCode(k) = (IF k[1] = "drag" THEN 32 ELSE 0)
                              + (IF k[2] = "left" THEN 0 ELSE IF k[2] = "middle" THEN 1 ELSE 2)
        \/ k = <<"scroll", "up">> /\ KindCode(k) = 64
        \/ k = <<"scroll", "down">> /\ KindCode(k) = 65
        \/ k = <<"scroll", "left">> /\ KindCode(k) = 66
        \/ k = <<"scroll", "right">> /\ KindCode(k) = 67
    BY KindsAre
  <2>3. \/ /\ l[1] \in {"down", "up", "drag"} /\ l[2] \in MouseButtons
           /\ l = <<l[1], l[2]>>
           /\ KindCode(l) = (IF l[1] = "drag" THEN 32 ELSE 0)
                              + (IF l[2] = "left" THEN 0 ELSE IF l[2] = "middle" THEN 1 ELSE 2)
        \/ l = <<"scroll", "up">> /\ KindCode(l) = 64
        \/ l = <<"scroll", "down">> /\ KindCode(l) = 65
        \/ l = <<"scroll", "left">> /\ KindCode(l) = 66
        \/ l = <<"scroll", "right">> /\ KindCode(l) = 67
    BY KindsAre
  <2>4. CASE KindCode(k) >= 64
    BY <2>1, <2>2, <2>3, <2>4 DEF MouseButtons
  <2>5. CASE ~(KindCode(k) >= 64)
    <3>1. /\ k[1] \in {"down", "up", "drag"} /\ k[2] \in MouseButtons
          /\ k = <<k[1], k[2]>>
          /\ KindCode(k) = (IF k[1] = "drag" THEN 32 ELSE 0)
                             + (IF k[2] = "left" THEN 0 ELSE IF k[2] = "middle" THEN 1 ELSE 2)
      BY <2>2, <2>5
    <3>2. /\ l[1] \in {"down", "up", "drag"} /\ l[2] \in MouseButtons
          /\ l = <<l[1], l[2]>>
          /\ KindCode(l) = (IF l[1] = "drag" THEN 32 ELSE 0)
                             + (IF l[2] = "left" THEN 0 ELSE IF l[2] = "middle" THEN 1 ELSE 2)
      BY <2>1, <2>3, <2>5
    <3>3. k[2] = l[2] /\ (k[1] = "drag" <=> l[1] = "drag")
      <4>1. PICK u, v: u = k[2] /\ v = l[2]
        OBVIOUS
      <4>2. u \in {"left", "middle", "right"} /\ v \in {"left", "middle", "right"}
        BY <3>1, <3>2, <4>1 DEF MouseButtons
      <4>3. (IF k[1] = "drag" THEN 32 ELSE 0)
              + (IF u = "left" THEN 0 ELSE IF u = "middle" THEN 1 ELSE 2)
            = (IF l[1] = "drag" THEN 32 ELSE 0)
              + (IF v = "left" THEN 0 ELSE IF v = "middle" THEN 1 ELSE 2)
        BY <2>1, <3>1, <3>2, <4>1
      <4>4. u = v /\ (k[1] = "drag" <=> l[1] = "drag")
        BY <4>2, <4>3
      <4> QED
        BY <4>1, <4>4
    <3>4. k[1] = l[1]
      BY <1>4, <3>1, <3>2, <3>3
    <3> QED
      BY <3>1, <3>2, <3>3, <3>4
  <2> QED
    BY <2>4, <2>5
<1> QED
  BY <1>2, <1>9, <1>10

-----------------------------------------------------------------------------
\* The steps of the mouse.

Ones == Nat \ {0}
Selections == [side : BothSides, anchor : Ones \X Ones, cursor : Ones \X Ones]
Grids == [rows : Ones, cols : Ones]
Pages == {g \in [depth : 0..Scrollback, off : 0..Scrollback, view : 0..Scrollback] :
            g.view <= g.depth /\ (g.off = 0 => g.view = 0)}
Drawn(a) == \E f \in Frames : a = ComputeLayout(f)

PointerInv ==
  /\ Drawn(areas) /\ rightShown \in BOOLEAN /\ button \in BOOLEAN
  /\ sel = NoSelection \/ sel \in Selections
  /\ wants \in [BothSides -> BOOLEAN] /\ grid \in [BothSides -> Grids]
  /\ page \in Pages /\ watched \in BothSides

LEMMA DrawnAreBoxes ==
  ASSUME NEW a, Drawn(a), NEW d \in BothSides
  PROVE  IsBox(a[d])
<1>1. PICK f \in Frames: a = ComputeLayout(f)
  BY DEF Drawn
<1>2. Fits(a, AreaNames, Window(f))
  BY <1>1, FramesAssumption, FramesAreGood DEF GoodFrame
<1>3. d \in AreaNames
  BY DEF BothSides, AreaNames
<1> QED
  BY <1>2, <1>3 DEF Fits

LEMMA InnerSizeIs ==
  ASSUME NEW r, IsBox(r)
  PROVE  InnerSize(r) \in Grids
<1>1. r.h \in Nat /\ r.w \in Nat
  BY DEF IsBox
<1>2. Within(Less(r.h, 2), 1, r.h) \in Ones /\ Within(Less(r.w, 2), 1, r.w) \in Ones
  BY <1>1 DEF Within, Less, AtMost, Ones
<1> QED
  BY <1>2 DEF InnerSize, Grids

LEMMA SidesAre ==
  ASSUME NEW p
  PROVE  SideAt(p) = "none" \/ SideAt(p) \in BothSides
  BY DEF SideAt, BothSides

LEMMA SpotsAre ==
  ASSUME Drawn(areas), NEW p \in Spots
  PROVE  p[1] \in Int /\ p[2] \in Int
<1>1. CASE p = <<0, 0>>
  BY <1>1
<1>2. ASSUME NEW r \in {areas.left, areas.right},
             p \in {<<r.x + 3, r.y + 1>>, <<r.x + r.w - 1, r.y + r.h - 1>>}
      PROVE  p[1] \in Int /\ p[2] \in Int
  <2>1. IsBox(areas["left"]) /\ IsBox(areas["right"])
    BY DrawnAreBoxes DEF BothSides
  <2>2. r.x \in Nat /\ r.y \in Nat /\ r.w \in Nat /\ r.h \in Nat
    BY <2>1 DEF IsBox
  <2> QED
    BY <1>2, <2>2
<1> QED
  BY <1>1, <1>2 DEF Spots

LEMMA PointsAre ==
  ASSUME Drawn(areas), NEW p \in Spots, SideAt(p) \in BothSides
  PROVE  LocalPoint(p) \in Ones \X Ones
<1>1. PICK r: r = areas[SideAt(p)]
  OBVIOUS
<1>2. r.x \in Nat /\ r.y \in Nat /\ p[1] \in Int /\ p[2] \in Int
  BY <1>1, DrawnAreBoxes, SpotsAre DEF IsBox
<1>3. Less(p[1], r.x + 1) + 1 \in Ones /\ Less(p[2], r.y + 1) + 1 \in Ones
  BY <1>2 DEF Less, Ones
<1> QED
  BY <1>1, <1>3 DEF LocalPoint

LEMMA SelectionsAre ==
  /\ NoSelection.side = "none"
  /\ \A s \in Selections: s # NoSelection /\ s.side \in BothSides /\ s.side # "none"
                          /\ s.anchor \in Ones \X Ones /\ s.cursor \in Ones \X Ones
<1>1. NoSelection.side = "none"
  BY DEF NoSelection
<1>2. ASSUME NEW s \in Selections
      PROVE  /\ s.side \in BothSides /\ s.side # "none"
             /\ s.anchor \in Ones \X Ones /\ s.cursor \in Ones \X Ones
  BY <1>2 DEF Selections, BothSides
<1> QED
  BY <1>1, <1>2

\* A view is live whenever the offset is zero, and no further back than what
\* is kept.
LEMMA PageIs ==
  ASSUME NEW d \in 0..Scrollback, NEW o \in 0..Scrollback, NEW v \in 0..d,
         o = 0 => v = 0
  PROVE  [depth |-> d, off |-> o, view |-> v] \in Pages
  BY ScrollAssumption DEF Pages

LEMMA PageHas ==
  ASSUME NEW g \in Pages
  PROVE  /\ g.depth \in 0..Scrollback /\ g.off \in 0..Scrollback /\ g.view \in 0..Scrollback
         /\ g.view <= g.depth /\ (g.off = 0 => g.view = 0)
         /\ g = [depth |-> g.depth, off |-> g.off, view |-> g.view]
  BY DEF Pages

LEMMA PageChanges ==
  ASSUME NEW g \in Pages, NEW o \in 0..Scrollback, NEW v \in 0..Scrollback
  PROVE  [g EXCEPT !.off = o, !.view = v] = [depth |-> g.depth, off |-> o, view |-> v]
<1>1. PICK S: S = 0..Scrollback
  OBVIOUS
<1>2. g \in [depth : S, off : S, view : S]
  BY <1>1 DEF Pages
<1>3. o \in S /\ v \in S
  BY <1>1
<1>4. PICK h: h = [g EXCEPT !.off = o]
  OBVIOUS
<1>5. h = [depth |-> g.depth, off |-> o, view |-> g.view]
  BY <1>2, <1>3, <1>4
<1>6. h \in [depth : S, off : S, view : S] /\ h.depth = g.depth /\ h.off = o
  BY <1>2, <1>3, <1>5
<1>7. [h EXCEPT !.view = v] = [depth |-> h.depth, off |-> h.off, view |-> v]
  BY <1>3, <1>6
<1>8. [g EXCEPT !.off = o, !.view = v] = [h EXCEPT !.view = v]
  BY <1>4
<1> QED
  BY <1>6, <1>7, <1>8

LEMMA ScrollingIs ==
  ASSUME NEW g \in Pages, NEW n \in Nat
  PROVE  ScrollUp(g, n) \in Pages /\ ScrollDown(g, n) \in Pages /\ ScrollToBottom(g) \in Pages
<1>1. /\ g.depth \in 0..Scrollback /\ g.off \in 0..Scrollback /\ g.view \in 0..Scrollback
      /\ g.view <= g.depth /\ (g.off = 0 => g.view = 0)
      /\ g = [depth |-> g.depth, off |-> g.off, view |-> g.view]
  BY PageHas
<1>2. Scrollback \in Nat
  BY ScrollAssumption
<1>3. ASSUME NEW o \in 0..Scrollback
      PROVE  [g EXCEPT !.off = o, !.view = SeenAt(o, g.depth)] \in Pages
  <2>1. PICK v: v = SeenAt(o, g.depth)
    OBVIOUS
  <2>2. v \in 0..g.depth /\ (o = 0 => v = 0)
    BY <1>1, <1>2, <2>1 DEF SeenAt, AtMost
  <2>3. [g EXCEPT !.off = o, !.view = v] = [depth |-> g.depth, off |-> o, view |-> v]
    <3>1. v \in 0..Scrollback
      BY <1>1, <1>2, <2>2
    <3> QED
      BY <3>1, PageChanges
  <2>4. [depth |-> g.depth, off |-> o, view |-> v] \in Pages
    BY <1>1, <2>2, PageIs
  <2> QED
    BY <2>1, <2>3, <2>4
<1>4. ScrollUp(g, n) \in Pages
  <2>1. AtMost(g.off + n, Scrollback) \in 0..Scrollback
    BY <1>1, <1>2 DEF AtMost
  <2> QED
    BY <1>3, <2>1 DEF ScrollUp
<1>5. ScrollDown(g, n) \in Pages
  <2>1. Less(g.off, n) \in 0..Scrollback
    BY <1>1, <1>2 DEF Less
  <2> QED
    BY <1>3, <2>1 DEF ScrollDown
<1>6. ScrollToBottom(g) \in Pages
  <2>1. [g EXCEPT !.off = 0, !.view = 0] = [depth |-> g.depth, off |-> 0, view |-> 0]
    <3>1. 0 \in 0..Scrollback
      BY <1>2
    <3> QED
      BY <3>1, PageChanges
  <2>2. 0 \in 0..Scrollback /\ 0 \in 0..g.depth
    BY <1>1, <1>2
  <2>3. [depth |-> g.depth, off |-> 0, view |-> 0] \in Pages
    BY <1>1, <2>2, PageIs
  <2> QED
    BY <2>1, <2>3 DEF ScrollToBottom
<1> QED
  BY <1>4, <1>5, <1>6

LEMMA LiveIs == LivePage \in Pages
<1>1. 0 \in 0..Scrollback /\ 0 \in 0..0
  BY ScrollAssumption
<1>2. [depth |-> 0, off |-> 0, view |-> 0] \in Pages
  BY <1>1, PageIs
<1> QED
  BY <1>2 DEF LivePage

LEMMA FedIs ==
  ASSUME NEW g \in Pages, NEW depth, depth = AtMost(g.depth + 1, Scrollback),
         NEW by \in (IF g.view = 0 THEN {0} ELSE {0, 1})
  PROVE  [g EXCEPT !.depth = depth, !.view = AtMost(@ + by, depth)] \in Pages
<1>1. /\ g.depth \in 0..Scrollback /\ g.off \in 0..Scrollback /\ g.view \in 0..Scrollback
      /\ g.view <= g.depth /\ (g.off = 0 => g.view = 0)
      /\ g = [depth |-> g.depth, off |-> g.off, view |-> g.view]
  BY PageHas
<1>2. Scrollback \in Nat /\ depth \in 0..Scrollback
  BY <1>1, ScrollAssumption DEF AtMost
<1>3. PICK v: v = AtMost(g.view + by, depth)
  OBVIOUS
<1>4. v \in 0..depth /\ (g.off = 0 => v = 0)
  BY <1>1, <1>2, <1>3 DEF AtMost
<1>5. [g EXCEPT !.depth = depth, !.view = AtMost(@ + by, depth)]
        = [depth |-> depth, off |-> g.off, view |-> v]
  <2>1. [g EXCEPT !.depth = depth, !.view = AtMost(@ + by, depth)]
          = [g EXCEPT !.depth = depth, !.view = v]
    BY <1>3
  <2>2. v \in 0..Scrollback /\ depth \in 0..Scrollback
    BY <1>2, <1>4
  <2>3. PICK S: S = 0..Scrollback
    OBVIOUS
  <2>4. g \in [depth : S, off : S, view : S] /\ depth \in S /\ v \in S
    BY <2>2, <2>3 DEF Pages
  <2>5. PICK h: h = [g EXCEPT !.depth = depth]
    OBVIOUS
  <2>6. h = [depth |-> depth, off |-> g.off, view |-> g.view]
    BY <2>4, <2>5
  <2>7. h \in [depth : S, off : S, view : S] /\ h.depth = depth /\ h.off = g.off
    BY <2>4, <2>6
  <2>8. [h EXCEPT !.view = v] = [depth |-> h.depth, off |-> h.off, view |-> v]
    BY <2>4, <2>7
  <2>9. [g EXCEPT !.depth = depth, !.view = v] = [h EXCEPT !.view = v]
    BY <2>5
  <2> QED
    BY <2>1, <2>7, <2>8, <2>9
<1> QED
  BY <1>1, <1>2, <1>4, <1>5, PageIs

LEMMA PointerStarts == PointerInit => PointerInv
<1> SUFFICES ASSUME PointerInit PROVE PointerInv
  OBVIOUS
<1>1. Drawn(areas)
  BY DEF PointerInit, Drawn
<1>2. grid \in [BothSides -> Grids]
  <2>1. IsBox(areas["left"])
    BY <1>1, DrawnAreBoxes DEF BothSides
  <2>2. InnerSize(areas.left) \in Grids
    BY <2>1, InnerSizeIs
  <2>3. NewGrid \in Grids
    BY DEF NewGrid, Grids, Ones
  <2> QED
    BY <2>2, <2>3 DEF PointerInit
<1>3. /\ rightShown \in BOOLEAN /\ button \in BOOLEAN /\ sel = NoSelection
      /\ wants \in [BothSides -> BOOLEAN] /\ page = LivePage /\ watched \in BothSides
  BY DEF PointerInit
<1> QED
  BY <1>1, <1>2, <1>3, LiveIs DEF PointerInv

\* The mouse moves only the button and the selection.
LEMMA MouseSteps ==
  ASSUME PointerInv, NEW p \in Spots,
         \/ \E shift \in BOOLEAN : MouseDown(p, shift)
         \/ MouseDrag(p)
         \/ MouseUp(p)
  PROVE  PointerInv'
<1>1. /\ areas' = areas /\ rightShown' = rightShown /\ wants' = wants /\ grid' = grid
      /\ page' = page /\ watched' = watched
  BY DEF MouseDown, MouseDrag, MouseUp
<1>2. button' \in BOOLEAN
  BY DEF MouseDown, MouseDrag, MouseUp, PointerInv
<1>3. sel = NoSelection \/ sel \in Selections
  BY DEF PointerInv
<1>4. ASSUME SideAt(p) \in BothSides
      PROVE  LocalPoint(p) \in Ones \X Ones
  BY <1>4, PointsAre DEF PointerInv
<1>5. sel' = NoSelection \/ sel' \in Selections
  <2>1. ASSUME NEW shift \in BOOLEAN, MouseDown(p, shift)
        PROVE  sel' = NoSelection \/ sel' \in Selections
    <3>1. CASE SideAt(p) # "none" /\ (shift \/ ~wants[SideAt(p)])
      <4>1. sel' = [side |-> SideAt(p), anchor |-> LocalPoint(p), cursor |-> LocalPoint(p)]
        BY <2>1, <3>1 DEF MouseDown
      <4>2. SideAt(p) \in BothSides
        BY <3>1, SidesAre
      <4> QED
        BY <1>4, <4>1, <4>2 DEF Selections
    <3>2. CASE ~(SideAt(p) # "none" /\ (shift \/ ~wants[SideAt(p)]))
      <4>1. sel' = sel
        BY <2>1, <3>2 DEF MouseDown
      <4> QED
        BY <1>3, <4>1
    <3> QED
      BY <3>1, <3>2
  <2>2. CASE MouseDrag(p)
    <3>1. sel # NoSelection /\ sel.side = SideAt(p)
          /\ sel' = [sel EXCEPT !.cursor = LocalPoint(p)]
      BY <2>2 DEF MouseDrag, SelectionTakes
    <3>2. sel \in Selections /\ SideAt(p) \in BothSides
      BY <1>3, <3>1, SelectionsAre
    <3>3. LocalPoint(p) \in Ones \X Ones
      BY <1>4, <3>2
    <3> QED
      BY <3>1, <3>2, <3>3 DEF Selections
  <2>3. CASE MouseUp(p)
    <3>1. sel' = NoSelection \/ sel' = sel
      BY <2>3 DEF MouseUp
    <3> QED
      BY <1>3, <3>1
  <2> QED
    BY <2>1, <2>2, <2>3
<1> QED
  BY <1>1, <1>2, <1>5 DEF PointerInv

LEMMA ScrolledIs ==
  ASSUME PointerInv, NEW d, NEW n \in Nat, Scrolled(d, n)
  PROVE  page' \in Pages /\ watched' = watched
<1>1. page \in Pages
  BY DEF PointerInv
<1>2. watched' = watched /\ (page' = ScrollUp(page, n) \/ page' = ScrollDown(page, n) \/ page' = page)
  BY DEF Scrolled
<1> QED
  BY <1>1, <1>2, ScrollingIs

\* Scrolling moves only the page.
LEMMA WheelSteps ==
  ASSUME PointerInv,
         \/ \E p \in Spots : MouseWheel(p)
         \/ \E d \in BothSides : PageKeys(d) \/ BackToLive(d)
  PROVE  PointerInv'
<1>1. /\ areas' = areas /\ rightShown' = rightShown /\ button' = button /\ sel' = sel
      /\ wants' = wants /\ grid' = grid
  BY DEF MouseWheel, PageKeys, BackToLive
<1>2. page' \in Pages /\ watched' = watched
  <2>1. ASSUME NEW p \in Spots, MouseWheel(p)
        PROVE  page' \in Pages /\ watched' = watched
    <3>1. Scrolled(SideAt(p), WheelLines)
      BY <2>1 DEF MouseWheel
    <3> QED
      BY <3>1, ScrolledIs, ScrollAssumption
  <2>2. ASSUME NEW d \in BothSides, PageKeys(d)
        PROVE  page' \in Pages /\ watched' = watched
    <3>1. Scrolled(d, PageLines)
      BY <2>2 DEF PageKeys
    <3> QED
      BY <3>1, ScrolledIs, ScrollAssumption
  <2>3. ASSUME NEW d \in BothSides, BackToLive(d)
        PROVE  page' \in Pages /\ watched' = watched
    <3>1. watched' = watched /\ (page' = ScrollToBottom(page) \/ page' = page)
      BY <2>3 DEF BackToLive
    <3>2. page \in Pages /\ 0 \in Nat
      BY DEF PointerInv
    <3> QED
      BY <3>1, <3>2, ScrollingIs
  <2> QED
    BY <2>1, <2>2, <2>3
<1> QED
  BY <1>1, <1>2 DEF PointerInv

LEMMA FreshIs ==
  ASSUME PointerInv, NEW d, Fresh(d)
  PROVE  page' \in Pages /\ watched' = watched
  BY LiveIs DEF PointerInv, Fresh

LEMMA ProgramSteps ==
  ASSUME PointerInv,
         \/ \E d \in BothSides : FeedPane(d) \/ ResetPane(d)
         \/ SwapLeft \/ FlipSplit
  PROVE  PointerInv'
<1>1. areas' = areas /\ button' = button /\ sel' = sel
  BY DEF FeedPane, ResetPane, SwapLeft, FlipSplit
<1>2. NewGrid \in Grids
  BY DEF NewGrid, Grids, Ones
<1>3. wants \in [BothSides -> BOOLEAN] /\ grid \in [BothSides -> Grids] /\ page \in Pages
      /\ watched \in BothSides /\ rightShown \in BOOLEAN
  BY DEF PointerInv
<1>4. ASSUME NEW d \in BothSides, FeedPane(d)
      PROVE  /\ rightShown' \in BOOLEAN /\ wants' \in [BothSides -> BOOLEAN]
             /\ grid' \in [BothSides -> Grids] /\ page' \in Pages /\ watched' = watched
  <2>1. rightShown' = rightShown /\ grid' = grid /\ watched' = watched
    BY <1>4 DEF FeedPane
  <2>2. CASE wants' = [wants EXCEPT ![d] = ~@] /\ page' = page
    <3>1. [wants EXCEPT ![d] = ~wants[d]] \in [BothSides -> BOOLEAN]
      BY <1>3, Zenon
    <3> QED
      BY <1>3, <2>1, <2>2, <3>1
  <2>3. CASE wants' = wants
             /\ \E depth : /\ depth = AtMost(page.depth + 1, Scrollback)
                           /\ \E by \in (IF page.view = 0 THEN {0} ELSE {0, 1}) :
                                page' = [page EXCEPT !.depth = depth,
                                                     !.view = AtMost(@ + by, depth)]
    <3>1. PICK depth : /\ depth = AtMost(page.depth + 1, Scrollback)
                       /\ \E by \in (IF page.view = 0 THEN {0} ELSE {0, 1}) :
                            page' = [page EXCEPT !.depth = depth,
                                                 !.view = AtMost(@ + by, depth)]
      BY <2>3
    <3>2. PICK by \in (IF page.view = 0 THEN {0} ELSE {0, 1}) :
            page' = [page EXCEPT !.depth = depth, !.view = AtMost(@ + by, depth)]
      BY <3>1
    <3>3. page' \in Pages
      BY <1>3, <3>1, <3>2, FedIs
    <3> QED
      BY <1>3, <2>1, <2>3, <3>3
  <2>4. \/ wants' = wants
           /\ \E depth : /\ depth = AtMost(page.depth + 1, Scrollback)
                         /\ \E by \in (IF page.view = 0 THEN {0} ELSE {0, 1}) :
                              page' = [page EXCEPT !.depth = depth,
                                                   !.view = AtMost(@ + by, depth)]
        \/ wants' = [wants EXCEPT ![d] = ~@] /\ page' = page
    BY <1>4, Zenon DEF FeedPane
  <2> QED
    BY <2>2, <2>3, <2>4
<1>5. ASSUME NEW d \in BothSides, ResetPane(d)
      PROVE  /\ rightShown' \in BOOLEAN /\ wants' \in [BothSides -> BOOLEAN]
             /\ grid' \in [BothSides -> Grids] /\ page' \in Pages /\ watched' = watched
  <2>1. /\ rightShown' = rightShown /\ grid' = grid /\ wants' = [wants EXCEPT ![d] = FALSE]
        /\ Fresh(d)
    BY <1>5 DEF ResetPane
  <2>2. wants' \in [BothSides -> BOOLEAN]
    BY <1>3, <2>1
  <2>3. page' \in Pages /\ watched' = watched
    BY <2>1, FreshIs
  <2> QED
    BY <1>3, <2>1, <2>2, <2>3
<1>6. CASE SwapLeft \/ FlipSplit
  <2>1. PICK d \in BothSides: /\ wants' = [wants EXCEPT ![d] = FALSE]
                              /\ grid' = [grid EXCEPT ![d] = NewGrid] /\ Fresh(d)
    BY <1>6 DEF SwapLeft, FlipSplit, BothSides
  <2>2. wants' \in [BothSides -> BOOLEAN]
    BY <1>3, <2>1
  <2>3. grid' \in [BothSides -> Grids]
    BY <1>2, <1>3, <2>1
  <2>4. page' \in Pages /\ watched' = watched
    BY <2>1, FreshIs
  <2>5. rightShown' \in BOOLEAN
    BY <1>3, <1>6, Zenon DEF SwapLeft, FlipSplit
  <2> QED
    BY <1>1, <1>3, <2>2, <2>3, <2>4, <2>5 DEF PointerInv
<1> QED
  BY <1>1, <1>3, <1>4, <1>5, <1>6 DEF PointerInv

LEMMA DrawSteps ==
  ASSUME PointerInv, DrawFrame
  PROVE  PointerInv'
<1>1. /\ rightShown' = rightShown /\ button' = button /\ sel' = sel /\ wants' = wants
      /\ page' = page /\ watched' = watched
  BY DEF DrawFrame
<1>2. PICK a: a = areas'
  OBVIOUS
<1>3. Drawn(a)
  BY <1>2 DEF DrawFrame, Drawn
<1>4. ASSUME NEW d \in BothSides
      PROVE  InnerSize(a[d]) \in Grids /\ grid[d] \in Grids
  BY <1>3, DrawnAreBoxes, InnerSizeIs DEF PointerInv
<1>5. grid' = [d \in BothSides |-> IF d \in Shown THEN InnerSize(a[d]) ELSE grid[d]]
  BY <1>2 DEF DrawFrame
<1>6. grid' \in [BothSides -> Grids]
  BY <1>4, <1>5
<1>7. Drawn(areas)'
  BY <1>2, <1>3 DEF Drawn
<1> QED
  BY <1>1, <1>6, <1>7 DEF PointerInv

LEMMA PointerSteps ==
  ASSUME PointerInv, [PointerNext]_pointerVars
  PROVE  PointerInv'
<1>1. CASE UNCHANGED pointerVars
  BY <1>1 DEF pointerVars, PointerInv, Drawn
<1>2. ASSUME NEW p \in Spots, NEW shift \in BOOLEAN, MouseDown(p, shift)
      PROVE  PointerInv'
  BY <1>2, MouseSteps
<1>3. ASSUME NEW p \in Spots, MouseDrag(p) \/ MouseUp(p)
      PROVE  PointerInv'
  BY <1>3, MouseSteps
<1>4. ASSUME NEW p \in Spots, MouseWheel(p)
      PROVE  PointerInv'
  BY <1>4, WheelSteps
<1>5. ASSUME NEW d \in BothSides, PageKeys(d) \/ BackToLive(d)
      PROVE  PointerInv'
  BY <1>5, WheelSteps
<1>6. ASSUME NEW d \in BothSides, FeedPane(d) \/ ResetPane(d)
      PROVE  PointerInv'
  BY <1>6, ProgramSteps
<1>7. CASE SwapLeft \/ FlipSplit
  BY <1>7, ProgramSteps
<1>8. CASE DrawFrame
  BY <1>8, DrawSteps
<1> QED
  BY <1>1, <1>2, <1>3, <1>4, <1>5, <1>6, <1>7, <1>8 DEF PointerNext

\* The end points of a selection are among the cells that are copied.
LEMMA EndsAreCells ==
  ASSUME NEW s \in Selections, NEW g \in Grids, NEW p \in {s.anchor, s.cursor}
  PROVE  <<AtMost(p[2] - 1, g.rows - 1), AtMost(p[1] - 1, g.cols - 1)>> \in Cells(s, g)
<1> DEFINE from == IF Reads(s.anchor, s.cursor) THEN s.anchor ELSE s.cursor
           to == IF Reads(s.anchor, s.cursor) THEN s.cursor ELSE s.anchor
           Row(q) == AtMost(Less(q[2], 1), g.rows - 1)
           Col(q) == AtMost(Less(q[1], 1), g.cols - 1)
<1>1. g.rows \in Ones /\ g.cols \in Ones
  BY DEF Grids
<1>2. /\ s.anchor[1] \in Ones /\ s.anchor[2] \in Ones
      /\ s.cursor[1] \in Ones /\ s.cursor[2] \in Ones
  BY SelectionsAre
<1>3. /\ from[1] \in Ones /\ from[2] \in Ones /\ to[1] \in Ones /\ to[2] \in Ones
      /\ from[2] <= to[2]
  BY <1>2 DEF Reads, Ones
<1>4. p = from \/ p = to
  OBVIOUS
<1>5. PICK rf, rt, cf, ct: rf = Row(from) /\ rt = Row(to) /\ cf = Col(from) /\ ct = Col(to)
  OBVIOUS
<1>6. /\ rf \in 0..(g.rows - 1) /\ rt \in 0..(g.rows - 1) /\ rf <= rt
      /\ cf \in 0..(g.cols - 1) /\ ct \in 0..(g.cols - 1)
      /\ rf = AtMost(from[2] - 1, g.rows - 1) /\ cf = AtMost(from[1] - 1, g.cols - 1)
      /\ rt = AtMost(to[2] - 1, g.rows - 1) /\ ct = AtMost(to[1] - 1, g.cols - 1)
  <2> HIDE DEF from, to
  <2> QED
    BY <1>1, <1>3, <1>5 DEF Ones, AtMost, Less
<1>7. Cells(s, g) =
        IF rf = rt THEN {rf} \X (AtMost(cf, ct) .. (IF cf > ct THEN cf ELSE ct))
        ELSE {c \in (rf .. rt) \X (0 .. g.cols - 1) :
                /\ c[1] = rf => c[2] >= cf
                /\ c[1] = rt => c[2] <= ct}
  BY <1>5, Zenon DEF Cells
<1>8. <<rf, cf>> \in Cells(s, g) /\ <<rt, ct>> \in Cells(s, g)
  <2>1. CASE rf = rt
    <3>1. cf \in AtMost(cf, ct) .. (IF cf > ct THEN cf ELSE ct)
          /\ ct \in AtMost(cf, ct) .. (IF cf > ct THEN cf ELSE ct)
      BY <1>1, <1>6 DEF AtMost, Ones
    <3> QED
      BY <1>7, <2>1, <3>1
  <2>2. CASE rf # rt
    <3>1. rf \in rf .. rt /\ rt \in rf .. rt
      BY <1>1, <1>6 DEF Ones
    <3>2. <<rf, cf>>[1] = rf /\ <<rf, cf>>[2] = cf /\ <<rt, ct>>[1] = rt /\ <<rt, ct>>[2] = ct
          /\ cf >= cf /\ ct <= ct
      BY <1>1, <1>6 DEF Ones
    <3> QED
      BY <1>6, <1>7, <2>2, <3>1, <3>2
  <2> QED
    BY <2>1, <2>2
<1>9. p = from => <<AtMost(p[2] - 1, g.rows - 1), AtMost(p[1] - 1, g.cols - 1)>> = <<rf, cf>>
  BY <1>6
<1>10. p = to => <<AtMost(p[2] - 1, g.rows - 1), AtMost(p[1] - 1, g.cols - 1)>> = <<rt, ct>>
  BY <1>6
<1> HIDE DEF from, to, Row, Col
<1> QED
  BY <1>4, <1>8, <1>9, <1>10

LEMMA PointerSafe ==
  ASSUME PointerInv
  PROVE  PointerTypeOK /\ EndsAreCopied /\ NoBadgeIsLive
<1>1. /\ page.depth \in 0..Scrollback /\ page.off \in 0..Scrollback
      /\ page.view \in 0..page.depth /\ (page.off = 0 => page.view = 0)
  <2>1. /\ page.depth \in 0..Scrollback /\ page.off \in 0..Scrollback
        /\ page.view \in 0..Scrollback /\ page.view <= page.depth
        /\ (page.off = 0 => page.view = 0)
    BY PageHas DEF PointerInv
  <2> QED
    BY <2>1, ScrollAssumption
<1>2. sel = NoSelection \/ sel \in Selections
  BY DEF PointerInv
<1>3. sel.side \in BothSides \cup {"none"}
  BY <1>2, SelectionsAre
<1>4. sel # NoSelection => sel.anchor \in Nat \X Nat /\ sel.cursor \in Nat \X Nat
  BY <1>2, SelectionsAre DEF Ones
<1>5. \A d \in BothSides : grid[d].rows \in Nat \ {0} /\ grid[d].cols \in Nat \ {0}
  BY DEF PointerInv, Grids, Ones
<1>6. areas \in {ComputeLayout(f) : f \in Frames}
  BY DEF PointerInv, Drawn
<1>7. PointerTypeOK
  BY <1>1, <1>3, <1>4, <1>5, <1>6 DEF PointerTypeOK, PointerInv
<1>8. EndsAreCopied
  <2> SUFFICES ASSUME sel # NoSelection, NEW g, g = grid[sel.side],
                      NEW p \in {sel.anchor, sel.cursor}
               PROVE  <<AtMost(p[2] - 1, g.rows - 1), AtMost(p[1] - 1, g.cols - 1)>>
                        \in Cells(sel, g)
    BY Zenon DEF EndsAreCopied
  <2>1. sel \in Selections /\ sel.side \in BothSides
    BY <1>2, SelectionsAre
  <2>2. g \in Grids
    BY <2>1 DEF PointerInv
  <2> QED
    BY <2>1, <2>2, EndsAreCells
<1>9. NoBadgeIsLive
  BY <1>1 DEF NoBadgeIsLive
<1> QED
  BY <1>7, <1>8, <1>9

-------------------------------------------------------------------------------
(* MCTui: one part moves, the others rest.                                 *)

MCInv ==
  /\ ActivityInv /\ PanesInv /\ FormInv /\ LayoutInv /\ PrefInv
  /\ DlgInv /\ TreeInv /\ ClipInv /\ PointerInv

LEMMA MCStarts == MCInit => MCInv
BY ActivityStarts, PanesStart, FormStarts, LayoutStarts, PrefStarts, DlgStarts,
   TreeStarts, ClipStarts, PointerStarts
DEF MCInit, MCInv

\* What a step of the whole is for each part.
PartsMove ==
  /\ [ActivityNext]_activityVars /\ [TuiNext]_paneVars /\ [FormNext]_formVars
  /\ [LayoutNext]_layoutVars /\ [PrefNext]_prefVars /\ [DlgNext]_dlgVars
  /\ [TreeNext]_treeVars /\ [ClipNext]_clipVars /\ [PointerNext]_pointerVars

LEMMA OnlyOneMoves ==
  ASSUME [MCNext]_MCVars
  PROVE  PartsMove
<1>1. CASE part = "activity" /\ ActivityNext /\ Only("activity")
  BY <1>1 DEF Only, PartsMove
<1>2. CASE part = "panes" /\ TuiNext /\ Only("panes")
  BY <1>2 DEF Only, PartsMove
<1>3. CASE part = "forms" /\ FormNext /\ Only("forms")
  BY <1>3 DEF Only, PartsMove
<1>4. CASE part = "layout" /\ LayoutNext /\ Only("layout")
  BY <1>4 DEF Only, PartsMove
<1>5. CASE part = "prefs" /\ PrefNext /\ Only("prefs")
  BY <1>5 DEF Only, PartsMove
<1>6. CASE part = "dialogs" /\ DlgNext /\ Only("dialogs")
  BY <1>6 DEF Only, PartsMove
<1>7. CASE part = "tree" /\ TreeNext /\ Only("tree")
  BY <1>7 DEF Only, PartsMove
<1>8. CASE part = "clip" /\ ClipNext /\ Only("clip")
  BY <1>8 DEF Only, PartsMove
<1>9. CASE part = "pointer" /\ PointerNext /\ Only("pointer")
  BY <1>9 DEF Only, PartsMove
<1>10. CASE UNCHANGED MCVars
  BY <1>10 DEF MCVars, PartsMove
<1> QED
  BY <1>1, <1>2, <1>3, <1>4, <1>5, <1>6, <1>7, <1>8, <1>9, <1>10, Zenon DEF MCNext

LEMMA MCSteps == MCInv /\ [MCNext]_MCVars => MCInv'
<1> SUFFICES ASSUME MCInv, [MCNext]_MCVars PROVE MCInv'
  OBVIOUS
<1>1. /\ ActivityInv /\ PanesInv /\ FormInv /\ LayoutInv /\ PrefInv
      /\ DlgInv /\ TreeInv /\ ClipInv /\ PointerInv
  BY DEF MCInv
<1>2. /\ [ActivityNext]_activityVars /\ [TuiNext]_paneVars /\ [FormNext]_formVars
      /\ [LayoutNext]_layoutVars /\ [PrefNext]_prefVars /\ [DlgNext]_dlgVars
      /\ [TreeNext]_treeVars /\ [ClipNext]_clipVars /\ [PointerNext]_pointerVars
  BY OnlyOneMoves, Zenon DEF PartsMove
<1>3. ActivityInv' /\ PanesInv' /\ FormInv'
  BY <1>1, <1>2, ActivitySteps, PanesSteps, FormSteps, Zenon
<1>4. LayoutInv' /\ PrefInv' /\ DlgInv'
  BY <1>1, <1>2, LayoutSteps, PrefSteps, DlgSteps, Zenon
<1>5. TreeInv' /\ ClipInv' /\ PointerInv'
  BY <1>1, <1>2, TreeSteps, ClipSteps, PointerSteps, Zenon
<1> QED
  BY <1>3, <1>4, <1>5, Zenon DEF MCInv

\* Every variable of the nine parts stays within its types (app.rs, ui.rs,
\* term.rs, prefs.rs, routes/clipboard.rs, routes/events.rs).
THEOREM UiTypesHold == MCSpec => []UiTypeOK
<1>1. MCInit => MCInv
  BY MCStarts
<1>2. MCInv /\ [MCNext]_MCVars => MCInv'
  BY MCSteps
<1>3. MCInv => UiTypeOK
  <2> SUFFICES ASSUME MCInv PROVE UiTypeOK
    OBVIOUS
  <2>1. ActivityTypeOK /\ TuiTypeOK /\ FormTypeOK /\ DlgTypeOK /\ ClipTypeOK /\ PointerTypeOK
    BY ActivitySafe, PanesSafe, FormSafe, DlgSafe, ClipSafe, PointerSafe, Zenon DEF MCInv
  <2>2. LayoutTypeOK /\ PrefTypeOK /\ TreeTypeOK
    BY Zenon DEF MCInv, LayoutInv, PrefInv, TreeInv
  <2> QED
    BY <2>1, <2>2, Zenon DEF UiTypeOK
<1> QED
  BY <1>1, <1>2, <1>3, PTL DEF MCSpec

\* The keys of a pane go to the session selected on its side, except on the
\* left once the session there was killed, and a dot that has caught up shows
\* what the watch task saw last unless a key was typed since, in whatever order
\* keys, refreshes, streams, events and snapshots come (app.rs run_loop,
\* routes/events.rs).
THEOREM PanesStayCurrent == MCSpec => []PanesAreCurrent
<1>1. MCInit => MCInv
  BY MCStarts
<1>2. MCInv /\ [MCNext]_MCVars => MCInv'
  BY MCSteps
<1>3. MCInv => PanesAreCurrent
  BY PanesSafe, ActivitySafe, Zenon DEF MCInv, PanesAreCurrent
<1> QED
  BY <1>1, <1>2, <1>3, PTL DEF MCSpec

\* A form that waits does so for an operation that runs or whose result is on
\* its way, a Ctrl-V request is served by an agent or by the fallback and never
\* by both, and a confirmed action asks for exactly the sessions it named
\* (app.rs, routes/clipboard.rs).
THEOREM AnswersMatch == MCSpec => []AnswersFindTheirRequest
<1>1. MCInit => MCInv
  BY MCStarts
<1>2. MCInv /\ [MCNext]_MCVars => MCInv'
  BY MCSteps
<1>3. MCInv => AnswersFindTheirRequest
  BY FormSafe, ClipSafe, DlgSafe, Zenon DEF MCInv, AnswersFindTheirRequest
<1> QED
  BY <1>1, <1>2, <1>3, PTL DEF MCSpec

\* Keyboard, lazygit, preferences, cursor and mouse fit what is on the screen,
\* and the areas of a frame tile a window of any size, for any saved widths
\* (app.rs, ui.rs compute_layout, term.rs).
THEOREM ScreenStaysCoherent == MCSpec => []ScreenIsCoherent
<1>1. MCInit => MCInv
  BY MCStarts
<1>2. MCInv /\ [MCNext]_MCVars => MCInv'
  BY MCSteps
<1>3. MCInv => ScreenIsCoherent
  <2> SUFFICES ASSUME MCInv PROVE ScreenIsCoherent
    OBVIOUS
  <2>1. KeyboardHasAPane /\ LazygitFollows /\ SettingsStick /\ CursorOnScreen
    BY Zenon DEF MCInv, LayoutInv, PrefInv, TreeInv
  <2>2. EndsAreCopied /\ NoBadgeIsLive
    BY PointerSafe, Zenon DEF MCInv
  <2> QED
    BY <2>1, <2>2, FramesFit, EventsAreTold, Zenon DEF ScreenIsCoherent
<1> QED
  BY <1>1, <1>2, <1>3, PTL DEF MCSpec

\* A refresh leaves the cursor on the selected session when its row is shown,
\* and opens and closes no header that is still listed (app.rs
\* refresh_sessions).
THEOREM RefreshKeepsThePlace == MCSpec => RefreshKeepsPlace
<1>1. MCInit => MCInv
  BY MCStarts
<1>2. MCInv /\ [MCNext]_MCVars => MCInv'
  BY MCSteps
<1>3. MCInv => [PlaceIsKept]_treeVars
  BY RefreshIsKept, Zenon DEF MCInv
<1> QED
  BY <1>1, <1>2, <1>3, PTL DEF MCSpec, RefreshKeepsPlace, PlaceIsKept
===============================================================================
