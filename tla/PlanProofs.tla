------------------------------ MODULE PlanProofs ------------------------------
(***************************************************************************)
(* The plans of the agents: the board with its goals and sessions, and the *)
(* orchestration tables with their tasks and mail, for every number of     *)
(* cards, sessions, requests, tasks and messages.  The requests of both    *)
(* are transactions of several steps, so what holds between them has to    *)
(* say who will still put right what is not right yet.                     *)
(***************************************************************************)
EXTENDS DaemonProofs

-------------------------------------------------------------------------------
(* The board (routes/board.rs, agentum-watchdog).                           *)

\* What a card belongs to, and what it is bound to.
Parents == {NoCard, GoalCard}
Sessions == BoardSessions \cup {NoSession}

\* A row of the cards.
Rows ==
  [live: BOOLEAN, status: Columns, parent: Parents, session: Sessions,
   ready: BOOLEAN, claimed: BOOLEAN, comment: BOOLEAN, gone: BOOLEAN]

\* A PATCH that still has to transfer or write, and one that has written.
Asked ==
  {p \in [pc: {"transfer", "write"}, card: AllCards, to: Columns,
          bind: Sessions \cup AllCards, detach: BOOLEAN, moves: BOOLEAN]:
     p.bind \in Sessions \cup {p.card}}
Written == [pc: {"spawn", "emit"}, card: AllCards, parent: Parents]

\* What the bus carries.
Events == [kind: {"created", "updated", "deleted"}, parent: Parents]

\* The board, with no more on the bus than it holds.
BoardTypes ==
  /\ card \in [AllCards -> Rows]
  /\ sessCard \in [BoardSessions -> AllCards \cup {NoCard}]
  /\ sessState \in [BoardSessions -> {"absent", "idle", "running", "deleted"}]
  /\ patch \in [Patches -> {IdlePatch} \cup Asked \cup Written]
  /\ bus \in Seq(Events) /\ Len(bus) <= BusSlots
  /\ unheard \in BOOLEAN

\* A card's session was created, and while it lives points back.
BindInv ==
  \A c \in AllCards, s \in BoardSessions:
    card[c].live /\ card[c].session = s =>
      /\ sessState[s] # "absent"
      /\ sessState[s] # "deleted" => sessCard[s] = c

\* An event about the goal's children is on the bus.
OnBus == \E i \in 1..Len(bus): bus[i].parent = GoalCard

\* A PATCH of a child has written and not announced it yet.
Telling(r) ==
  /\ patch[r].pc \in {"spawn", "emit"} /\ patch[r].parent = GoalCard
  /\ card[patch[r].card].live /\ card[patch[r].card].parent = GoalCard

\* The goal is where its furthest child is (agentum-watchdog lib.rs).
Follows == StatusRank(card[GoalCard].status) = MaxChildRank

\* A goal that does not follow its children will hear of them; a goal that was
\* not created has none.
GoalInv ==
  /\ card[GoalCard].live /\ ~unheard =>
       OnBus \/ (\E r \in Patches: Telling(r)) \/ Follows
  /\ ~card[GoalCard].live /\ ~card[GoalCard].gone => Children = {}

\* What every request and every event of the board keeps.
BoardInv == BoardTypes /\ BindInv /\ GoalInv

\* The highest rank among the children.
IsMax(n) ==
  /\ n \in 0..2
  /\ Children = {} => n = 0
  /\ Children # {} => \E c \in Children: SqlRank(card[c].status) = n
  /\ \A c \in Children: SqlRank(card[c].status) <= n

\* The query for the highest rank finds it ...
LEMMA RankIsMax == IsMax(MaxChildRank)
<1>1. \A st: SqlRank(st) \in {0, 1, 2}
  BY DEF SqlRank
<1>2. CASE Children = {}
  BY <1>2 DEF IsMax, MaxChildRank
<1>3. CASE Children # {}
  <2>1. \E n \in 0..2: (\E c \in Children: SqlRank(card[c].status) = n)
                       /\ (\A c \in Children: SqlRank(card[c].status) <= n)
    <3>1. CASE \E c \in Children: SqlRank(card[c].status) = 2
      <4>1. \A c \in Children: SqlRank(card[c].status) <= 2
        BY <1>1
      <4> QED
        BY <3>1, <4>1
    <3>2. CASE ~(\E c \in Children: SqlRank(card[c].status) = 2)
               /\ \E c \in Children: SqlRank(card[c].status) = 1
      <4>1. \A c \in Children: SqlRank(card[c].status) <= 1
        BY <1>1, <3>2
      <4> QED
        BY <3>2, <4>1
    <3>3. CASE ~(\E c \in Children: SqlRank(card[c].status) \in {1, 2})
      <4>1. \A c \in Children: SqlRank(card[c].status) = 0
        BY <1>1, <3>3
      <4>2. \A c \in Children: SqlRank(card[c].status) <= 0
        BY <4>1
      <4> QED
        BY <1>3, <4>1, <4>2
    <3> QED
      BY <3>1, <3>2, <3>3
  <2> DEFINE P(n) == (\E c \in Children: SqlRank(card[c].status) = n)
                     /\ (\A c \in Children: SqlRank(card[c].status) <= n)
  <2>2. MaxChildRank = CHOOSE n \in 0..2: P(n)
    BY <1>3 DEF MaxChildRank
  <2>3. MaxChildRank \in 0..2 /\ P(MaxChildRank)
    <3>1. \E n \in 0..2: P(n)
      BY <2>1
    <3> HIDE DEF P
    <3> QED
      BY <2>2, <3>1, Zenon
  <2> QED
    BY <1>3, <2>3 DEF IsMax
<1> QED
  BY <1>2, <1>3

\* ... also after a step ...
LEMMA NextRankIsMax == IsMax(MaxChildRank)'
BY RankIsMax, PTL

\* ... and there is one.
LEMMA MaxIsOne ==
  ASSUME NEW m, NEW n, IsMax(m), IsMax(n)
  PROVE  m = n
<1>1. CASE Children = {}
  BY <1>1 DEF IsMax
<1>2. CASE Children # {}
  <2>1. PICK c \in Children: SqlRank(card[c].status) = m
    BY <1>2 DEF IsMax
  <2>2. PICK d \in Children: SqlRank(card[d].status) = n
    BY <1>2 DEF IsMax
  <2>3. m <= n /\ n <= m /\ m \in 0..2 /\ n \in 0..2
    BY <2>1, <2>2 DEF IsMax
  <2> QED
    BY <2>3
<1> QED
  BY <1>1, <1>2

\* As long as no child comes, goes or moves, neither does the highest rank.
LEMMA ChildrenKept ==
  ASSUME \A c \in FeatureCards:
           /\ card'[c].live /\ card'[c].parent = GoalCard <=> card[c].live /\ card[c].parent = GoalCard
           /\ card[c].live /\ card[c].parent = GoalCard => card'[c].status = card[c].status
  PROVE  Children' = Children /\ MaxChildRank' = MaxChildRank
<1>1. Children' = Children
  BY DEF Children
<1>2. PICK n: n = MaxChildRank'
  OBVIOUS
<1>3. IsMax(MaxChildRank)'
  BY NextRankIsMax
<1>4. /\ n \in 0..2
      /\ Children = {} => n = 0
      /\ Children # {} => \E c \in Children: SqlRank(card'[c].status) = n
      /\ \A c \in Children: SqlRank(card'[c].status) <= n
  BY <1>1, <1>2, <1>3 DEF IsMax, SqlRank
<1>5. \A c \in Children: card'[c].status = card[c].status
  BY DEF Children
<1>6. IsMax(n)
  BY <1>4, <1>5 DEF IsMax
<1> QED
  BY <1>1, <1>2, <1>6, RankIsMax, MaxIsOne

\* A broadcast is on the bus; what it drops is noted.
LEMMA Publishes ==
  ASSUME BoardTypes, NEW ev \in Events, Publish(ev)
  PROVE  /\ bus' \in Seq(Events) /\ Len(bus') <= BusSlots
         /\ OnBus => OnBus' \/ Dropped
         /\ ev.parent = GoalCard => OnBus'
<1>1. bus \in Seq(Events) /\ Len(bus) <= BusSlots /\ BusSlots \in Nat \ {0} /\ Len(bus) \in Nat
  BY BoardAssumption DEF BoardTypes
<1>2. CASE Len(bus) < BusSlots
  <2>1. bus' = Append(bus, ev)
    BY <1>2 DEF Publish
  <2>2. /\ bus' \in Seq(Events) /\ Len(bus') = Len(bus) + 1 /\ bus'[Len(bus) + 1] = ev
        /\ \A i \in 1..Len(bus): bus'[i] = bus[i]
    BY <1>1, <2>1, AppendProperties
  <2>3. OnBus => OnBus'
    BY <1>1, <2>2 DEF OnBus
  <2>4. ev.parent = GoalCard => OnBus'
    BY <1>1, <2>2 DEF OnBus
  <2> QED
    BY <1>1, <1>2, <2>2, <2>3, <2>4
<1>3. CASE Len(bus) = BusSlots
  <2>1. bus' = Append(Tail(bus), ev) /\ bus # <<>>
    BY <1>1, <1>3 DEF Publish
  <2>2. /\ Tail(bus) \in Seq(Events) /\ Len(Tail(bus)) = Len(bus) - 1 /\ bus[1] = Head(bus)
        /\ \A i \in 1..Len(bus) - 1: Tail(bus)[i] = bus[i + 1]
    BY <1>1, <2>1, HeadTailProperties
  <2>3. /\ bus' \in Seq(Events) /\ Len(bus') = Len(bus) /\ bus'[Len(bus)] = ev
        /\ \A i \in 1..Len(bus) - 1: bus'[i] = bus[i + 1]
    BY <1>1, <2>1, <2>2, AppendProperties
  <2>4. ASSUME OnBus, ~Dropped PROVE OnBus'
    <3>1. PICK i \in 1..Len(bus): bus[i].parent = GoalCard
      BY <2>4 DEF OnBus
    <3>2. i # 1
      BY <1>3, <2>2, <2>4, <3>1 DEF Dropped
    <3>3. i - 1 \in 1..Len(bus) - 1 /\ i - 1 + 1 = i /\ i - 1 \in 1..Len(bus)
      BY <1>1, <3>1, <3>2
    <3> QED
      BY <2>3, <3>1, <3>3 DEF OnBus
  <2>5. ev.parent = GoalCard => OnBus'
    BY <1>1, <1>3, <2>3 DEF OnBus
  <2> QED
    BY <1>1, <1>3, <2>3, <2>4, <2>5
<1> QED
  BY <1>1, <1>2, <1>3

\* The children are the same, with the same statuses.
SameChildren ==
  \A c \in FeatureCards:
    /\ card'[c].live /\ card'[c].parent = GoalCard <=> card[c].live /\ card[c].parent = GoalCard
    /\ card[c].live /\ card[c].parent = GoalCard => card'[c].status = card[c].status

\* As long as the goal keeps its status, who was to hear still hears and a
\* change of the children is on the way.
LEMMA GoalKept ==
  ASSUME BoardInv,
         card'[GoalCard].live = card[GoalCard].live, card'[GoalCard].gone = card[GoalCard].gone,
         card'[GoalCard].status = card[GoalCard].status,
         unheard => unheard', OnBus => OnBus' \/ unheard',
         \A r \in Patches: Telling(r) => Telling(r)' \/ OnBus' \/ unheard',
         SameChildren \/ unheard' \/ OnBus' \/ (\E r \in Patches: Telling(r)'),
         ~card[GoalCard].live => Children' \subseteq Children
  PROVE  GoalInv'
<1>1. GoalInv
  BY DEF BoardInv
<1>2. ASSUME card'[GoalCard].live, ~unheard', ~OnBus', ~(\E r \in Patches: Telling(r)')
      PROVE  Follows'
  <2>1. SameChildren /\ Follows
    BY <1>1, <1>2 DEF GoalInv
  <2>2. MaxChildRank' = MaxChildRank
    BY <2>1, ChildrenKept DEF SameChildren
  <2> QED
    BY <2>1, <2>2 DEF Follows, StatusRank, SqlRank
<1>3. ~card'[GoalCard].live /\ ~card'[GoalCard].gone => Children' = {}
  BY <1>1 DEF GoalInv
<1> QED
  BY <1>2, <1>3 DEF GoalInv

\* Rows that keep what the reconciler looks at.
LEMMA GoalQuiet ==
  ASSUME BoardInv,
         \A c \in AllCards: /\ card'[c].live = card[c].live /\ card'[c].status = card[c].status
                            /\ card'[c].parent = card[c].parent /\ card'[c].gone = card[c].gone,
         UNCHANGED <<bus, unheard>>,
         \A r \in Patches: patch[r].pc \in {"spawn", "emit"} => patch'[r] = patch[r]
  PROVE  GoalInv'
<1>1. GoalCard \in AllCards /\ FeatureCards \subseteq AllCards
  BY DEF AllCards
<1>2. \A r \in Patches: patch[r].pc \in {"spawn", "emit"} => patch[r].card \in AllCards
  BY DEF BoardInv, BoardTypes, IdlePatch, Asked, Written
<1>3. OnBus => OnBus'
  BY DEF OnBus
<1>4. \A r \in Patches: Telling(r) => Telling(r)'
  BY <1>2 DEF Telling
<1>5. SameChildren /\ Children' = Children
  BY <1>1 DEF SameChildren, Children
<1> QED
  BY <1>1, <1>3, <1>4, <1>5, GoalKept

\* Rows that keep their session, and sessions that keep their card.
LEMMA BindQuiet ==
  ASSUME BoardInv, UNCHANGED <<sessCard, sessState>>,
         \A c \in AllCards: card'[c].live => card[c].live /\ card'[c].session = card[c].session
  PROVE  BindInv'
BY DEF BoardInv, BindInv

\* A board without cards is in order.
LEMMA BoardStarts == BoardInit => BoardInv
<1> SUFFICES ASSUME BoardInit PROVE BoardInv
  OBVIOUS
<1>1. \A c \in AllCards: card[c] = EmptyRow
  BY DEF BoardInit
<1>2. EmptyRow \in Rows
  BY DEF EmptyRow, Rows, Columns, Parents, Sessions
<1>3. <<>> \in Seq(Events) /\ Len(<<>>) = 0
  OBVIOUS
<1>4. BoardTypes
  <2>1. bus \in Seq(Events) /\ Len(bus) <= BusSlots
    BY <1>3, BoardAssumption DEF BoardInit
  <2>2. card \in [AllCards -> Rows]
    BY <1>2 DEF BoardInit
  <2> QED
    BY <2>1, <2>2 DEF BoardInit, BoardTypes
<1>5. BindInv
  BY <1>1 DEF BindInv, EmptyRow
<1>6. Children = {} /\ GoalCard \in AllCards
  BY <1>1 DEF Children, EmptyRow, AllCards
<1>7. GoalInv
  BY <1>1, <1>6 DEF GoalInv, EmptyRow
<1> QED
  BY <1>4, <1>5, <1>7 DEF BoardInv

\* A row that gets a comment, a claim or a release.
LEMMA RowsTouched ==
  ASSUME BoardInv, NEW c \in AllCards, NEW row \in Rows, card' = [card EXCEPT ![c] = row],
         row.live = card[c].live, row.status = card[c].status, row.parent = card[c].parent,
         row.session = card[c].session, row.gone = card[c].gone,
         UNCHANGED <<sessCard, sessState, patch, bus, unheard>>
  PROVE  BoardInv'
<1>1. BoardTypes'
  BY DEF BoardInv, BoardTypes
<1>2. \A x \in AllCards: card'[x] = IF x = c THEN row ELSE card[x]
  BY DEF BoardInv, BoardTypes
<1>3. GoalInv'
  BY <1>2, GoalQuiet
<1>4. BindInv'
  BY <1>2, BindQuiet
<1> QED
  BY <1>1, <1>3, <1>4 DEF BoardInv

\* A note on a card or a claim moves neither goals nor bindings.
LEMMA TouchSteps ==
  ASSUME BoardInv,
         \/ \E c \in AllCards: Annotate(c) \/ Claim(c) \/ Release(c)
         \/ \E s \in BoardSessions: SystemComment(s)
  PROVE  BoardInv'
<1>1. card \in [AllCards -> Rows]
  BY DEF BoardInv, BoardTypes
<1>2. ASSUME NEW c \in AllCards, NEW b \in BOOLEAN, UNCHANGED <<sessCard, sessState, patch, bus, unheard>>,
             \/ card' = [card EXCEPT ![c].comment = b]
             \/ card' = [card EXCEPT ![c].claimed = b]
      PROVE  BoardInv'
  <2>0. card[c] \in Rows
    BY <1>1
  <2>1. CASE card' = [card EXCEPT ![c].comment = b]
    <3> DEFINE row == [card[c] EXCEPT !.comment = b]
    <3>1. /\ row \in Rows /\ row.live = card[c].live /\ row.status = card[c].status
          /\ row.parent = card[c].parent /\ row.session = card[c].session /\ row.gone = card[c].gone
      BY <2>0 DEF Rows
    <3>2. card' = [card EXCEPT ![c] = row]
      BY <2>1
    <3> HIDE DEF row
    <3> QED
      BY <1>2, <3>1, <3>2, RowsTouched
  <2>2. CASE card' = [card EXCEPT ![c].claimed = b]
    <3> DEFINE row == [card[c] EXCEPT !.claimed = b]
    <3>1. /\ row \in Rows /\ row.live = card[c].live /\ row.status = card[c].status
          /\ row.parent = card[c].parent /\ row.session = card[c].session /\ row.gone = card[c].gone
      BY <2>0 DEF Rows
    <3>2. card' = [card EXCEPT ![c] = row]
      BY <2>2
    <3> HIDE DEF row
    <3> QED
      BY <1>2, <3>1, <3>2, RowsTouched
  <2> QED
    BY <1>2, <2>1, <2>2
<1>3. CASE \E c \in AllCards: Annotate(c) \/ Claim(c) \/ Release(c)
  BY <1>2, <1>3 DEF Annotate, Claim, Release
<1>4. CASE \E s \in BoardSessions: SystemComment(s)
  BY <1>2, <1>4 DEF SystemComment, AllCards
<1> QED
  BY <1>3, <1>4

\* A session is created or deleted: no card names one that is absent, and a
\* deleted one binds nothing.
LEMMA SessionSteps ==
  ASSUME BoardInv, NEW s \in BoardSessions, CreateSession(s) \/ DeleteSession(s)
  PROVE  BoardInv'
<1>1. /\ UNCHANGED <<card, patch, bus, unheard>>
      /\ \/ sessState[s] = "absent" /\ sessState' = [sessState EXCEPT ![s] = "idle"] /\ sessCard' = sessCard
         \/ /\ sessState' = [sessState EXCEPT ![s] = "deleted"]
            /\ sessCard' = [sessCard EXCEPT ![s] = NoCard]
  BY DEF CreateSession, DeleteSession
<1>2. BoardTypes'
  BY <1>1 DEF BoardInv, BoardTypes
<1>3. GoalInv'
  BY <1>1, GoalQuiet
<1>4. BindInv'
  BY <1>1 DEF BoardInv, BoardTypes, BindInv
<1> QED
  BY <1>2, <1>3, <1>4 DEF BoardInv

\* The rules and the gate change nothing that binds.
LEMMA ReadSteps ==
  ASSUME BoardInv,
         \/ \E col \in {"doing", "done"}: SetRule(col)
         \/ \E r \in Patches, c \in AllCards, to \in {"todo", "doing", "done"}, detach \in BOOLEAN:
              \E bind \in BoardSessions \cup {NoSession, c}: PatchReads(r, c, to, bind, detach)
  PROVE  BoardInv'
<1>1. CASE \E col \in {"doing", "done"}: SetRule(col)
  <2>1. UNCHANGED <<card, sessCard, sessState, patch, bus, unheard>>
    BY <1>1 DEF SetRule
  <2> QED
    BY <2>1, GoalQuiet, BindQuiet DEF BoardInv, BoardTypes
<1>2. ASSUME NEW r \in Patches, NEW c \in AllCards, NEW to \in {"todo", "doing", "done"},
             NEW detach \in BOOLEAN, NEW bind \in BoardSessions \cup {NoSession, c},
             PatchReads(r, c, to, bind, detach)
      PROVE  BoardInv'
  <2> DEFINE p == [pc |-> "transfer", card |-> c, to |-> to, bind |-> bind,
                   detach |-> detach, moves |-> card[c].status # to]
  <2>1. /\ patch[r].pc = "idle" /\ patch' = [patch EXCEPT ![r] = p]
        /\ UNCHANGED <<card, sessCard, sessState, bus, unheard>>
    BY <1>2 DEF PatchReads
  <2>2. p \in Asked
    BY DEF Asked, Sessions, Columns
  <2> HIDE DEF p
  <2>3. BoardTypes'
    BY <2>1, <2>2 DEF BoardInv, BoardTypes
  <2>4. GoalInv'
    BY <2>1, GoalQuiet DEF BoardInv, BoardTypes
  <2>5. BindInv'
    BY <2>1, BindQuiet
  <2> QED
    BY <2>3, <2>4, <2>5 DEF BoardInv
<1> QED
  BY <1>1, <1>2

\* The goal is created: no card is its child yet, and no card names the fresh
\* planner session.
LEMMA GoalCreated ==
  ASSUME BoardInv, NEW p \in FreshSession \cup {NoSession}, CreateGoal(p)
  PROVE  BoardInv'
<1> DEFINE row == [EmptyRow EXCEPT !.live = TRUE, !.ready = TRUE]
<1>1. /\ row \in Rows /\ row.session = NoSession /\ row.status = "todo" /\ row.live
      /\ GoalCard \in AllCards
  BY DEF EmptyRow, Rows, Columns, Parents, Sessions, AllCards
<1>2. /\ ~card[GoalCard].live /\ ~card[GoalCard].gone /\ card' = [card EXCEPT ![GoalCard] = row]
      /\ UNCHANGED <<patch, bus, unheard>>
      /\ \/ UNCHANGED <<sessCard, sessState>>
         \/ /\ p \in BoardSessions /\ sessState[p] = "absent"
            /\ sessCard' = [sessCard EXCEPT ![p] = GoalCard]
            /\ sessState' = [sessState EXCEPT ![p] = "running"]
  BY DEF CreateGoal, FreshSession
<1> HIDE DEF row
<1>3. \A x \in AllCards: card'[x] = IF x = GoalCard THEN row ELSE card[x]
  BY <1>2 DEF BoardInv, BoardTypes
<1>4. BoardTypes'
  BY <1>1, <1>2 DEF BoardInv, BoardTypes
<1>5. BindInv'
  BY <1>1, <1>2, <1>3, BoardNames DEF BoardInv, BoardTypes, BindInv
<1>6. GoalInv'
  <2>1. Children = {}
    BY <1>2 DEF BoardInv, GoalInv
  <2>2. Children' = {}
    BY <1>3, <2>1, BoardAssumption DEF Children, AllCards
  <2>3. MaxChildRank' = 0
    BY <2>2 DEF MaxChildRank
  <2>4. StatusRank(card'[GoalCard].status) = 0
    BY <1>1, <1>3 DEF StatusRank, SqlRank
  <2> QED
    BY <1>1, <1>3, <2>3, <2>4 DEF GoalInv, Follows, StatusRank, SqlRank
<1> QED
  BY <1>4, <1>5, <1>6 DEF BoardInv

\* A card arrives: a session it names was free, and the goal hears of it.
LEMMA CardCreated ==
  ASSUME BoardInv, NEW c \in FeatureCards, NEW st \in {"todo", "doing"}, NEW ready \in BOOLEAN,
         NEW parent \in {NoCard, GoalCard}, NEW s \in BoardSessions \cup {NoSession},
         CreateCard(c, st, parent, s, ready)
  PROVE  BoardInv'
<1> DEFINE row == [EmptyRow EXCEPT !.live = TRUE, !.status = st, !.ready = ready,
                                   !.parent = parent, !.session = s]
           ev == BoardEvent("created", parent)
<1>1. /\ row \in Rows /\ row.session = s /\ row.parent = parent /\ row.live /\ c \in AllCards
      /\ ev \in Events /\ ev.parent = parent /\ GoalCard \in AllCards /\ c # GoalCard
  BY BoardAssumption DEF EmptyRow, Rows, Columns, Parents, Sessions, AllCards, BoardEvent, Events
<1>2. /\ InsertCard(c, row) /\ Publish(ev) /\ unheard' = (unheard \/ Dropped)
      /\ UNCHANGED <<sessState, patch>>
  BY DEF CreateCard
<1> HIDE DEF row, ev
<1>3. /\ ~card[c].live /\ card' = [card EXCEPT ![c] = row]
      /\ parent = GoalCard => card[GoalCard].live
      /\ s # NoSession => sessState[s] \in {"idle", "running"} /\ sessCard[s] = NoCard
      /\ sessCard' = [x \in BoardSessions |-> IF x = s THEN c ELSE sessCard[x]]
  BY <1>1, <1>2 DEF InsertCard
<1>4. \A x \in AllCards: card'[x] = IF x = c THEN row ELSE card[x]
  BY <1>3 DEF BoardInv, BoardTypes
<1>5. /\ bus' \in Seq(Events) /\ Len(bus') <= BusSlots
      /\ OnBus => OnBus' \/ Dropped
      /\ parent = GoalCard => OnBus'
  BY <1>1, <1>2, Publishes DEF BoardInv
<1>6. BoardTypes'
  BY <1>1, <1>2, <1>3, <1>5 DEF BoardInv, BoardTypes
<1>7. BindInv'
  BY <1>1, <1>2, <1>3, <1>4, BoardNames DEF BoardInv, BoardTypes, BindInv
<1>8. GoalInv'
  <2>1. \A r \in Patches: Telling(r) => Telling(r)'
    <3>1. \A r \in Patches: patch[r].pc \in {"spawn", "emit"} => patch[r].card \in AllCards
      BY DEF BoardInv, BoardTypes, IdlePatch, Asked, Written
    <3> QED
      BY <1>2, <1>3, <1>4, <3>1 DEF Telling
  <2>2. parent # GoalCard => SameChildren
    BY <1>1, <1>3, <1>4 DEF SameChildren, AllCards
  <2>3. ~card[GoalCard].live => Children' \subseteq Children
    BY <1>1, <1>3, <1>4 DEF Children, AllCards
  <2>4. (unheard => unheard') /\ (Dropped => unheard')
    BY <1>2
  <2> QED
    BY <1>1, <1>4, <1>5, <2>1, <2>2, <2>3, <2>4, GoalKept
<1> QED
  BY <1>6, <1>7, <1>8 DEF BoardInv

\* A card goes: if it was a child, the event says so.
LEMMA CardDeleted ==
  ASSUME BoardInv, NEW c \in AllCards, DeleteCard(c)
  PROVE  BoardInv'
<1> DEFINE row == [EmptyRow EXCEPT !.gone = TRUE]
           ev == BoardEvent("deleted", card[c].parent)
<1>1. /\ row \in Rows /\ ~row.live /\ row.gone /\ GoalCard \in AllCards /\ FeatureCards \subseteq AllCards
      /\ card[c].parent \in Parents
  BY DEF EmptyRow, Rows, Columns, Parents, Sessions, AllCards, BoardInv, BoardTypes
<1>2. ev \in Events /\ ev.parent = card[c].parent
  BY <1>1 DEF BoardEvent, Events
<1>3. /\ card[c].live /\ card' = [card EXCEPT ![c] = row] /\ Publish(ev)
      /\ unheard' = IF c = GoalCard THEN FALSE ELSE unheard \/ Dropped
      /\ UNCHANGED <<sessCard, sessState, patch>>
  BY DEF DeleteCard
<1> HIDE DEF row, ev
<1>4. \A x \in AllCards: card'[x] = IF x = c THEN row ELSE card[x]
  BY <1>3 DEF BoardInv, BoardTypes
<1>5. /\ bus' \in Seq(Events) /\ Len(bus') <= BusSlots
      /\ OnBus => OnBus' \/ Dropped
      /\ card[c].parent = GoalCard => OnBus'
  BY <1>2, <1>3, Publishes DEF BoardInv
<1>6. BoardTypes'
  BY <1>1, <1>3, <1>5 DEF BoardInv, BoardTypes
<1>7. BindInv'
  BY <1>1, <1>3, <1>4, BindQuiet
<1>8. GoalInv'
  <2>1. CASE c = GoalCard
    BY <1>1, <1>4, <2>1 DEF GoalInv
  <2>2. CASE c # GoalCard
    <3>1. \A r \in Patches: Telling(r) => Telling(r)' \/ OnBus'
      <4>1. \A r \in Patches: patch[r].pc \in {"spawn", "emit"} => patch[r].card \in AllCards
        BY DEF BoardInv, BoardTypes, IdlePatch, Asked, Written
      <4> QED
        BY <1>3, <1>4, <1>5, <4>1 DEF Telling
    <3>2. card[c].parent # GoalCard => SameChildren
      BY <1>1, <1>4 DEF SameChildren
    <3>3. Children' \subseteq Children
      BY <1>1, <1>4 DEF Children
    <3>4. (unheard => unheard') /\ (Dropped => unheard')
      BY <1>3, <2>2
    <3> QED
      BY <1>1, <1>4, <1>5, <2>2, <3>1, <3>2, <3>3, <3>4, GoalKept
  <2> QED
    BY <2>1, <2>2
<1> QED
  BY <1>6, <1>7, <1>8 DEF BoardInv

\* The harness moves a card: a child's move is not heard of.
LEMMA TrackerSteps ==
  ASSUME BoardInv, NEW c \in FeatureCards, NEW st \in Columns, TrackerTransition(c, st)
  PROVE  BoardInv'
<1>0. c \in AllCards /\ c # GoalCard /\ GoalCard \in AllCards /\ FeatureCards \subseteq AllCards
  BY BoardAssumption DEF AllCards
<1> DEFINE row == [card[c] EXCEPT !.status = st]
<1>1. /\ row \in Rows /\ row.live = card[c].live /\ row.session = card[c].session
      /\ row.parent = card[c].parent /\ row.gone = card[c].gone
  <2>1. card[c] \in Rows
    BY <1>0 DEF BoardInv, BoardTypes
  <2> QED
    BY <2>1 DEF Rows
<1>2. /\ card' = [card EXCEPT ![c] = row] /\ unheard' = (unheard \/ card[c].parent = GoalCard)
      /\ UNCHANGED <<sessCard, sessState, patch, bus>>
  BY DEF TrackerTransition
<1> HIDE DEF row
<1>3. \A x \in AllCards: card'[x] = IF x = c THEN row ELSE card[x]
  BY <1>0, <1>2 DEF BoardInv, BoardTypes
<1>4. BoardTypes'
  BY <1>0, <1>1, <1>2 DEF BoardInv, BoardTypes
<1>5. BindInv'
  BY <1>1, <1>2, <1>3, BindQuiet
<1>6. GoalInv'
  <2>1. \A r \in Patches: Telling(r) => Telling(r)'
    <3>1. \A r \in Patches: patch[r].pc \in {"spawn", "emit"} => patch[r].card \in AllCards
      BY DEF BoardInv, BoardTypes, IdlePatch, Asked, Written
    <3> QED
      BY <1>1, <1>2, <1>3, <3>1 DEF Telling
  <2>2. SameChildren \/ unheard'
    BY <1>0, <1>1, <1>2, <1>3 DEF SameChildren
  <2>3. Children' \subseteq Children
    BY <1>0, <1>1, <1>3 DEF Children
  <2>4. (unheard => unheard') /\ (OnBus => OnBus')
    BY <1>2 DEF OnBus
  <2> QED
    BY <1>0, <1>3, <2>1, <2>2, <2>3, <2>4, GoalKept
<1> QED
  BY <1>4, <1>5, <1>6 DEF BoardInv

\* What a PATCH in flight has.
LEMMA PatchHas ==
  ASSUME BoardTypes, NEW r \in Patches
  PROVE  /\ patch[r].pc \in {"idle", "transfer", "write", "spawn", "emit"}
         /\ patch[r].pc \in {"transfer", "write"} =>
              /\ patch[r] \in Asked /\ patch[r].card \in AllCards
              /\ [patch[r] EXCEPT !.pc = "write"] \in Asked
              /\ [patch[r] EXCEPT !.pc = "write"].pc = "write"
         /\ patch[r].pc \in {"spawn", "emit"} =>
              /\ patch[r].card \in AllCards /\ patch[r].parent \in Parents
              /\ patch[r] = [pc |-> patch[r].pc, card |-> patch[r].card, parent |-> patch[r].parent]
<1>1. patch[r] \in {IdlePatch} \cup Asked \cup Written
  BY DEF BoardTypes
<1> QED
  BY <1>1 DEF IdlePatch, Asked, Written

\* The binding moves: the session was free or the card's own, and the one the
\* card had is freed.
LEMMA TransferSteps ==
  ASSUME BoardInv, NEW r \in Patches, PatchTransfers(r)
  PROVE  BoardInv'
<1>1. /\ patch[r].pc = "transfer" /\ BoardTypes
      /\ UNCHANGED <<sessState, bus, unheard>>
  BY DEF PatchTransfers, BoardInv
<1>2. PICK c \in AllCards: c = patch[r].card
  BY <1>1, PatchHas
<1>3. PICK s: s = patch[r].bind
  OBVIOUS
<1>4. s \in Sessions \cup {c} /\ [patch[r] EXCEPT !.pc = "write"] \in Asked
  BY <1>1, <1>2, <1>3, PatchHas DEF Asked
<1>5. IdlePatch \in {IdlePatch} \cup Asked \cup Written
  OBVIOUS
<1>6. \/ patch' = [patch EXCEPT ![r].pc = "write"]
      \/ patch' = [patch EXCEPT ![r] = IdlePatch]
  BY DEF PatchTransfers
<1>7. /\ patch' \in [Patches -> {IdlePatch} \cup Asked \cup Written]
      /\ \A x \in Patches: patch[x].pc \in {"spawn", "emit"} => patch'[x] = patch[x]
  BY <1>1, <1>4, <1>5, <1>6 DEF BoardTypes
<1>8. CASE UNCHANGED <<card, sessCard>>
  <2>1. BoardTypes'
    BY <1>1, <1>7, <1>8 DEF BoardTypes
  <2>2. GoalInv'
    BY <1>1, <1>7, <1>8, GoalQuiet
  <2>3. BindInv'
    BY <1>1, <1>8, BindQuiet
  <2> QED
    BY <2>1, <2>2, <2>3 DEF BoardInv
<1>9. CASE ~UNCHANGED <<card, sessCard>>
  <2> DEFINE row == [card[c] EXCEPT !.session = s]
  <2>1. /\ s # c /\ card[c].live
        /\ s \in BoardSessions => sessState[s] \in {"idle", "running"} /\ sessCard[s] \in {NoCard, c}
        /\ sessCard' = [x \in BoardSessions |->
                          IF x = s THEN c ELSE IF x = card[c].session THEN NoCard ELSE sessCard[x]]
        /\ card' = [card EXCEPT ![c] = row]
    BY <1>2, <1>3, <1>9 DEF PatchTransfers
  <2>2. /\ row \in Rows /\ row.live = card[c].live /\ row.status = card[c].status
        /\ row.parent = card[c].parent /\ row.gone = card[c].gone /\ row.session = s
    <3>1. card[c] \in Rows
      BY <1>1 DEF BoardTypes
    <3> QED
      BY <1>4, <2>1, <3>1 DEF Rows
  <2> HIDE DEF row
  <2>3. \A x \in AllCards: card'[x] = IF x = c THEN row ELSE card[x]
    BY <1>1, <2>1 DEF BoardTypes
  <2>4. BoardTypes'
    BY <1>1, <1>7, <2>1, <2>2 DEF BoardTypes
  <2>5. GoalInv'
    BY <1>1, <1>7, <2>2, <2>3, GoalQuiet
  <2>6. ASSUME NEW x \in AllCards, NEW y \in BoardSessions, card'[x].live, card'[x].session = y
        PROVE  sessState'[y] # "absent" /\ (sessState'[y] # "deleted" => sessCard'[y] = x)
    <3>1. CASE x = c
      BY <1>1, <2>1, <2>2, <2>3, <2>6, <3>1
    <3>2. CASE x # c
      <4>1. sessState[y] # "absent" /\ (sessState[y] # "deleted" => sessCard[y] = x)
        BY <2>3, <2>6, <3>2 DEF BoardInv, BindInv
      <4>2. sessState[y] # "deleted" /\ y = s => FALSE
        BY <2>1, <3>2, <4>1, BoardNames
      <4>3. sessState[y] # "deleted" /\ y = card[c].session => FALSE
        BY <2>1, <3>2, <4>1 DEF BoardInv, BindInv
      <4> QED
        BY <1>1, <2>1, <4>1, <4>2, <4>3
    <3> QED
      BY <3>1, <3>2
  <2>7. BindInv'
    BY <2>6 DEF BindInv
  <2> QED
    BY <2>4, <2>5, <2>7 DEF BoardInv
<1> QED
  BY <1>8, <1>9

\* The row is written: a child that stays one is now to be told of.
LEMMA WriteSteps ==
  ASSUME BoardInv, NEW r \in Patches, PatchWrites(r)
  PROVE  BoardInv'
<1>1. /\ patch[r].pc = "write" /\ BoardTypes
      /\ UNCHANGED <<sessCard, sessState, bus>>
  BY DEF PatchWrites, BoardInv
<1>2. PICK c \in AllCards: c = patch[r].card
  BY <1>1, PatchHas
<1>3. patch[r].to \in Columns /\ patch[r].detach \in BOOLEAN
  BY <1>1, PatchHas DEF Asked
<1>4. CASE ~card[c].live
  <2>1. patch' = [patch EXCEPT ![r] = IdlePatch] /\ UNCHANGED <<card, unheard>>
    BY <1>2, <1>4 DEF PatchWrites
  <2>2. BoardTypes'
    BY <1>1, <2>1 DEF BoardTypes
  <2>3. GoalInv'
    BY <1>1, <2>1, GoalQuiet DEF BoardTypes
  <2>4. BindInv'
    BY <1>1, <2>1, BindQuiet
  <2> QED
    BY <2>2, <2>3, <2>4 DEF BoardInv
<1>5. CASE card[c].live
  <2> DEFINE row == [card[c] EXCEPT !.status = patch[r].to,
                                    !.parent = IF patch[r].detach THEN NoCard ELSE @]
  <2>1. /\ card' = [card EXCEPT ![c] = row]
        /\ unheard' = (unheard \/ (patch[r].detach /\ card[c].parent = GoalCard) \/ c = GoalCard)
        /\ \E pc \in {"spawn", "emit"}:
             patch' = [patch EXCEPT ![r] = [pc |-> pc, card |-> c, parent |-> row.parent]]
    BY <1>2, <1>5 DEF PatchWrites
  <2>2. /\ row \in Rows /\ row.live /\ row.session = card[c].session /\ row.gone = card[c].gone
        /\ row.parent = IF patch[r].detach THEN NoCard ELSE card[c].parent
    <3>1. card[c] \in Rows
      BY <1>1 DEF BoardTypes
    <3> QED
      BY <1>3, <1>5, <3>1 DEF Rows, Parents
  <2> HIDE DEF row
  <2>3. row.parent \in Parents
    BY <2>2 DEF Rows
  <2>4. PICK q \in Written: /\ patch' = [patch EXCEPT ![r] = q] /\ q.pc \in {"spawn", "emit"}
                            /\ q.card = c /\ q.parent = row.parent
    <3>1. PICK pc \in {"spawn", "emit"}:
            patch' = [patch EXCEPT ![r] = [pc |-> pc, card |-> c, parent |-> row.parent]]
      BY <2>1
    <3> DEFINE p == [pc |-> pc, card |-> c, parent |-> row.parent]
    <3>2. /\ p \in Written /\ p.pc \in {"spawn", "emit"}
          /\ p.card = c /\ p.parent = row.parent
      BY <2>3 DEF Written
    <3>3. patch' = [patch EXCEPT ![r] = p]
      BY <3>1
    <3> HIDE DEF p
    <3> QED
      BY <3>2, <3>3
  <2>5. /\ \A x \in AllCards: card'[x] = IF x = c THEN row ELSE card[x]
        /\ \A x \in Patches: patch'[x] = IF x = r THEN q ELSE patch[x]
    BY <1>1, <2>1, <2>4 DEF BoardTypes
  <2>6. BoardTypes'
    BY <1>1, <2>1, <2>2, <2>4 DEF BoardTypes
  <2>7. BindInv'
    BY <1>1, <1>5, <2>2, <2>5, BindQuiet
  <2>8. (unheard => unheard') /\ (c = GoalCard => unheard')
        /\ (patch[r].detach /\ card[c].parent = GoalCard => unheard')
    BY <2>1
  <2>9. \A x \in Patches: Telling(x) => Telling(x)' \/ unheard'
    <3>1. \A x \in Patches: patch[x].pc \in {"spawn", "emit"} => patch[x].card \in AllCards
      BY <1>1, PatchHas
    <3> QED
      BY <1>1, <1>3, <2>2, <2>5, <2>8, <3>1 DEF Telling
  <2>10. GoalCard \in AllCards /\ FeatureCards \subseteq AllCards
    BY DEF AllCards
  <2>11. SameChildren \/ unheard' \/ (\E x \in Patches: Telling(x)')
    <3>1. CASE card[c].parent # GoalCard
      BY <1>3, <2>2, <2>5, <2>10, <3>1, BoardNames DEF SameChildren
    <3>2. CASE card[c].parent = GoalCard /\ ~patch[r].detach
      <4>1. patch'[r].pc \in {"spawn", "emit"} /\ patch'[r].parent = GoalCard /\ patch'[r].card = c
        BY <2>2, <2>4, <2>5, <3>2
      <4>2. card'[c].live /\ card'[c].parent = GoalCard
        BY <2>2, <2>5, <3>2
      <4> QED
        BY <4>1, <4>2 DEF Telling
    <3> QED
      BY <1>3, <2>8, <3>1, <3>2
  <2>12. c # GoalCard => GoalInv'
    <3> SUFFICES ASSUME c # GoalCard PROVE GoalInv'
      OBVIOUS
    <3>1. Children' \subseteq Children
      BY <1>3, <1>5, <2>2, <2>5, <2>10, BoardNames DEF Children
    <3>2. OnBus => OnBus'
      BY <1>1 DEF OnBus
    <3> QED
      BY <2>5, <2>8, <2>9, <2>10, <2>11, <3>1, <3>2, GoalKept
  <2>13. c = GoalCard => GoalInv'
    BY <2>2, <2>5, <2>8 DEF GoalInv
  <2> QED
    BY <2>6, <2>7, <2>12, <2>13 DEF BoardInv
<1> QED
  BY <1>4, <1>5

\* The card gets its session, or the request ends unheard.
LEMMA SpawnSteps ==
  ASSUME BoardInv, NEW r \in Patches, PatchSpawns(r)
  PROVE  BoardInv'
<1>1. patch[r].pc = "spawn" /\ BoardTypes /\ UNCHANGED bus
  BY DEF PatchSpawns, BoardInv
<1>2. PICK c \in AllCards: c = patch[r].card
  BY <1>1, PatchHas
<1>3. /\ patch[r] = [pc |-> "spawn", card |-> c, parent |-> patch[r].parent]
      /\ patch[r].parent \in Parents
  BY <1>1, <1>2, PatchHas
<1>4. \A x \in Patches: patch[x].pc \in {"spawn", "emit"} => patch[x].card \in AllCards
  BY <1>1, PatchHas
<1>5. GoalCard \in AllCards /\ FeatureCards \subseteq AllCards
  BY DEF AllCards
<1>6. ASSUME NEW row \in Rows, card' = [card EXCEPT ![c] = row],
             row.live = card[c].live, row.status = card[c].status, row.parent = card[c].parent,
             row.gone = card[c].gone,
             NEW q \in {IdlePatch} \cup Written, patch' = [patch EXCEPT ![r] = q],
             q.pc = "idle" \/ (q.pc = "emit" /\ q.card = c /\ q.parent = patch[r].parent),
             unheard' \in BOOLEAN, unheard => unheard',
             q.pc = "idle" /\ card[c].live /\ card[c].parent = GoalCard => unheard'
      PROVE  GoalInv'
  <2>1. /\ \A x \in AllCards: card'[x] = IF x = c THEN row ELSE card[x]
        /\ \A x \in Patches: patch'[x] = IF x = r THEN q ELSE patch[x]
    BY <1>1, <1>6 DEF BoardTypes
  <2>2. \A x \in Patches: Telling(x) => Telling(x)' \/ unheard'
    BY <1>2, <1>4, <1>6, <2>1 DEF Telling
  <2>3. SameChildren /\ Children' = Children
    BY <1>5, <1>6, <2>1 DEF SameChildren, Children
  <2>4. OnBus => OnBus'
    BY <1>1 DEF OnBus
  <2> QED
    BY <1>5, <1>6, <2>1, <2>2, <2>3, <2>4, GoalKept
<1>7. ASSUME NEW s \in BoardSessions, NEW launched \in BOOLEAN,
             ClaimCard(c, s, IF launched THEN "running" ELSE "idle"),
             patch' = [patch EXCEPT ![r] = IF launched THEN [@ EXCEPT !.pc = "emit"] ELSE IdlePatch],
             unheard' = (unheard \/ (~launched /\ card[c].parent = GoalCard))
      PROVE  BoardInv'
  <2> DEFINE row == [card[c] EXCEPT !.session = s]
  <2>1. /\ card[c].live /\ card[c].session = NoSession /\ sessState[s] = "absent"
        /\ sessState' = [sessState EXCEPT ![s] = IF launched THEN "running" ELSE "idle"]
        /\ sessCard' = [sessCard EXCEPT ![s] = c] /\ card' = [card EXCEPT ![c] = row]
    BY <1>7 DEF ClaimCard, FreshSession
  <2>2. /\ row \in Rows /\ row.live = card[c].live /\ row.status = card[c].status
        /\ row.parent = card[c].parent /\ row.gone = card[c].gone /\ row.session = s
    <3>1. card[c] \in Rows
      BY <1>1 DEF BoardTypes
    <3> QED
      BY <3>1 DEF Rows, Sessions
  <2> HIDE DEF row
  <2>3. PICK q \in {IdlePatch} \cup Written:
          /\ patch' = [patch EXCEPT ![r] = q]
          /\ q.pc = "idle" \/ (q.pc = "emit" /\ q.card = c /\ q.parent = patch[r].parent)
          /\ q.pc = "idle" => ~launched
    <3>1. CASE launched
      <4>1. [patch[r] EXCEPT !.pc = "emit"] = [pc |-> "emit", card |-> c, parent |-> patch[r].parent]
        BY <1>3
      <4> QED
        BY <1>3, <1>7, <3>1, <4>1 DEF Written
    <3>2. CASE ~launched
      BY <1>7, <3>2 DEF IdlePatch
    <3> QED
      BY <3>1, <3>2
  <2>4. /\ unheard' \in BOOLEAN /\ (unheard => unheard')
        /\ (q.pc = "idle" /\ card[c].parent = GoalCard => unheard')
    BY <1>1, <1>7, <2>3 DEF BoardTypes
  <2>5. GoalInv'
    BY <1>6, <2>1, <2>2, <2>3, <2>4
  <2>6. BoardTypes'
    BY <1>1, <2>1, <2>2, <2>3, <2>4 DEF BoardTypes
  <2>7. BindInv'
    <3>1. \A x \in AllCards: card'[x] = IF x = c THEN row ELSE card[x]
      BY <1>1, <2>1 DEF BoardTypes
    <3>2. \A y \in BoardSessions: y # s => sessState'[y] = sessState[y] /\ sessCard'[y] = sessCard[y]
      BY <1>1, <2>1 DEF BoardTypes
    <3>3. sessCard'[s] = c /\ sessState'[s] # "absent"
      BY <1>1, <2>1 DEF BoardTypes
    <3> QED
      BY <2>1, <2>2, <3>1, <3>2, <3>3 DEF BoardInv, BindInv
  <2> QED
    BY <2>5, <2>6, <2>7 DEF BoardInv
<1>8. ASSUME patch' = [patch EXCEPT ![r] = IdlePatch], UNCHANGED <<card, sessCard, sessState>>,
             unheard' = (unheard \/ (card[c].live /\ card[c].parent = GoalCard))
      PROVE  BoardInv'
  <2>1. /\ card[c] \in Rows /\ card' = [card EXCEPT ![c] = card[c]] /\ IdlePatch.pc = "idle"
    BY <1>1, <1>8 DEF BoardTypes, IdlePatch
  <2>2. /\ unheard' \in BOOLEAN /\ (unheard => unheard')
        /\ (card[c].live /\ card[c].parent = GoalCard => unheard')
    BY <1>1, <1>8 DEF BoardTypes
  <2>3. GoalInv'
    BY <1>6, <1>8, <2>1, <2>2
  <2>4. BoardTypes'
    BY <1>1, <1>8, <2>2 DEF BoardTypes
  <2>5. BindInv'
    BY <1>8, BindQuiet
  <2> QED
    BY <2>3, <2>4, <2>5 DEF BoardInv
<1> QED
  BY <1>2, <1>7, <1>8 DEF PatchSpawns

\* The event goes out.
LEMMA EmitSteps ==
  ASSUME BoardInv, NEW r \in Patches, PatchEmits(r)
  PROVE  BoardInv'
<1>1. /\ patch[r].pc = "emit" /\ BoardTypes /\ patch' = [patch EXCEPT ![r] = IdlePatch]
      /\ Publish(BoardEvent("updated", patch[r].parent)) /\ unheard' = (unheard \/ Dropped)
      /\ UNCHANGED <<card, sessCard, sessState>>
  BY DEF PatchEmits, BoardInv
<1>2. BoardEvent("updated", patch[r].parent) \in Events
      /\ BoardEvent("updated", patch[r].parent).parent = patch[r].parent
  BY <1>1, PatchHas DEF BoardEvent, Events
<1>3. /\ bus' \in Seq(Events) /\ Len(bus') <= BusSlots
      /\ OnBus => OnBus' \/ Dropped
      /\ patch[r].parent = GoalCard => OnBus'
  BY <1>1, <1>2, Publishes
<1>4. unheard' \in BOOLEAN /\ (unheard => unheard') /\ (Dropped => unheard')
  BY <1>1 DEF BoardTypes
<1>5. BoardTypes'
  BY <1>1, <1>3, <1>4 DEF BoardTypes
<1>6. BindInv'
  BY <1>1, BindQuiet
<1>7. \A x \in Patches: Telling(x) => Telling(x)' \/ OnBus'
  <2>1. \A x \in Patches: x # r => patch'[x] = patch[x]
    BY <1>1 DEF BoardTypes
  <2> QED
    BY <1>1, <1>3, <2>1 DEF Telling
<1>8. SameChildren /\ Children' = Children
  BY <1>1 DEF SameChildren, Children
<1>9. GoalInv'
  BY <1>1, <1>3, <1>4, <1>7, <1>8, GoalKept
<1> QED
  BY <1>5, <1>6, <1>9 DEF BoardInv

\* The reconciler takes an event: if it is about the goal's children, the goal
\* follows them from here.
LEMMA ReconcileSteps ==
  ASSUME BoardInv, Reconcile
  PROVE  BoardInv'
<1>0. BoardTypes
  BY DEF BoardInv
<1> DEFINE ours == Head(bus).parent = GoalCard /\ card[GoalCard].live
           target == StatusOfRank(MaxChildRank)
<1>1. /\ bus # <<>> /\ bus' = Tail(bus) /\ UNCHANGED <<sessCard, sessState, patch>>
      /\ card' = IF ours /\ StatusRank(card[GoalCard].status) # StatusRank(target)
                 THEN [card EXCEPT ![GoalCard].status = target] ELSE card
      /\ unheard' = IF ours THEN FALSE ELSE unheard
  BY DEF Reconcile
<1>2. GoalCard \in AllCards /\ FeatureCards \subseteq AllCards /\ GoalCard \notin FeatureCards
  BY BoardAssumption DEF AllCards
<1>3. MaxChildRank \in 0..2
  BY RankIsMax DEF IsMax
<1>4. target \in Columns /\ StatusRank(target) = MaxChildRank
  <2>1. MaxChildRank = 0 \/ MaxChildRank = 1 \/ MaxChildRank = 2
    BY <1>3
  <2> QED
    BY <2>1 DEF StatusOfRank, StatusRank, SqlRank, Columns
<1>5. PICK st \in Columns: st = target
  BY <1>4
<1> HIDE DEF target
<1>6. /\ bus' \in Seq(Events) /\ Len(bus') <= BusSlots /\ Len(bus') = Len(bus) - 1 /\ Len(bus) \in Nat
      /\ bus[1] = Head(bus) /\ \A i \in 1..Len(bus) - 1: bus'[i] = bus[i + 1]
  <2>1. bus \in Seq(Events) /\ Len(bus) <= BusSlots /\ BusSlots \in Nat /\ Len(bus) \in Nat
    BY <1>0, BoardAssumption DEF BoardTypes
  <2>2. /\ bus' \in Seq(Events) /\ Len(bus') = Len(bus) - 1 /\ bus[1] = Head(bus)
        /\ \A i \in 1..Len(bus) - 1: bus'[i] = bus[i + 1]
    BY <1>1, <2>1, HeadTailProperties
  <2> QED
    BY <2>1, <2>2
<1> DEFINE row == [card[GoalCard] EXCEPT !.status = st]
<1>7. /\ row \in Rows /\ row.live = card[GoalCard].live /\ row.session = card[GoalCard].session
      /\ row.parent = card[GoalCard].parent /\ row.gone = card[GoalCard].gone /\ row.status = st
  <2>1. card[GoalCard] \in Rows
    BY <1>0, <1>2 DEF BoardTypes
  <2> QED
    BY <2>1 DEF Rows
<1>8. card' = card \/ (ours /\ card' = [card EXCEPT ![GoalCard] = row])
  BY <1>1, <1>5
<1> HIDE DEF row
<1>9. \A x \in AllCards: card'[x] = card[x] \/ (x = GoalCard /\ card'[x] = row)
  BY <1>0, <1>2, <1>8 DEF BoardTypes
<1>10. BoardTypes'
  <2>1. card' \in [AllCards -> Rows]
    BY <1>0, <1>7, <1>8 DEF BoardTypes
  <2>2. unheard' \in BOOLEAN
    BY <1>0, <1>1 DEF BoardTypes
  <2> QED
    BY <1>0, <1>1, <1>6, <2>1, <2>2 DEF BoardTypes
<1>11. BindInv'
  BY <1>1, <1>7, <1>9, BindQuiet
<1>12. SameChildren /\ Children' = Children
  BY <1>2, <1>9 DEF SameChildren, Children
<1>13. MaxChildRank' = MaxChildRank
  BY <1>12, ChildrenKept DEF SameChildren
<1>14. CASE ours
  <2>1. StatusRank(card'[GoalCard].status) = MaxChildRank
    <3>1. CASE StatusRank(card[GoalCard].status) # StatusRank(target)
      <4>1. card' = [card EXCEPT ![GoalCard] = row]
        BY <1>1, <1>5, <1>14, <3>1 DEF row
      <4>2. card'[GoalCard].status = target
        BY <1>0, <1>2, <1>5, <1>7, <4>1 DEF BoardTypes
      <4> QED
        BY <1>4, <4>2
    <3>2. CASE StatusRank(card[GoalCard].status) = StatusRank(target)
      BY <1>1, <1>4, <3>2
    <3> QED
      BY <3>1, <3>2
  <2>2. Follows'
    BY <1>13, <2>1 DEF Follows, StatusRank, SqlRank
  <2>3. card'[GoalCard].live
    BY <1>2, <1>7, <1>9, <1>14
  <2> QED
    BY <1>10, <1>11, <2>2, <2>3 DEF BoardInv, GoalInv
<1>15. CASE ~ours
  <2>1. card' = card /\ unheard' = unheard
    BY <1>1, <1>15
  <2>2. CASE ~card[GoalCard].live
    <3>1. GoalInv'
      BY <1>12, <2>1, <2>2 DEF BoardInv, GoalInv
    <3> QED
      BY <1>10, <1>11, <3>1 DEF BoardInv
  <2>3. CASE Head(bus).parent # GoalCard
    <3>1. ASSUME OnBus PROVE OnBus'
      <4>1. PICK i \in 1..Len(bus): bus[i].parent = GoalCard
        BY <3>1 DEF OnBus
      <4>2. i # 1
        BY <1>6, <2>3, <4>1
      <4>3. i - 1 \in 1..Len(bus) - 1 /\ i - 1 + 1 = i /\ i - 1 \in 1..Len(bus')
        BY <1>6, <4>1, <4>2
      <4> QED
        BY <1>6, <4>1, <4>3 DEF OnBus
    <3>2. \A x \in Patches: Telling(x) => Telling(x)'
      BY <1>1, <2>1 DEF Telling
    <3>3. GoalInv'
      BY <1>12, <2>1, <3>1, <3>2, GoalKept
    <3> QED
      BY <1>10, <1>11, <3>3 DEF BoardInv
  <2> QED
    BY <1>15, <2>2, <2>3
<1> QED
  BY <1>14, <1>15

\* Every step of the board keeps the invariant.
LEMMA BoardSteps == BoardInv /\ [BoardNext]_boardVars => BoardInv'
<1> SUFFICES ASSUME BoardInv, [BoardNext]_boardVars PROVE BoardInv'
  OBVIOUS
<1>1. CASE UNCHANGED boardVars
  <2>1. UNCHANGED <<card, sessCard, sessState, patch, bus, unheard>>
    BY <1>1 DEF boardVars
  <2> QED
    BY <2>1, GoalQuiet, BindQuiet DEF BoardInv, BoardTypes
<1>2. CASE \E p \in FreshSession \cup {NoSession}: CreateGoal(p)
  BY <1>2, GoalCreated
<1>3. CASE \E c \in FeatureCards, st \in {"todo", "doing"}, ready \in BOOLEAN,
              parent \in {NoCard, GoalCard}, s \in BoardSessions \cup {NoSession}:
             CreateCard(c, st, parent, s, ready)
  BY <1>3, CardCreated
<1>4. CASE \E c \in AllCards: DeleteCard(c) \/ Annotate(c) \/ Claim(c) \/ Release(c)
  BY <1>4, CardDeleted, TouchSteps
<1>5. CASE \E s \in BoardSessions: CreateSession(s) \/ DeleteSession(s) \/ SystemComment(s)
  BY <1>5, SessionSteps, TouchSteps
<1>6. CASE \E col \in {"doing", "done"}: SetRule(col)
  BY <1>6, ReadSteps
<1>7. CASE \E c \in FeatureCards, st \in Columns: TrackerTransition(c, st)
  BY <1>7, TrackerSteps
<1>8. ASSUME NEW r \in Patches, Requests(r) PROVE BoardInv'
  <2>1. CASE \E c \in AllCards, to \in {"todo", "doing", "done"}, detach \in BOOLEAN:
               \E bind \in BoardSessions \cup {NoSession, c}: PatchReads(r, c, to, bind, detach)
    BY <1>8, <2>1, ReadSteps
  <2>2. CASE PatchTransfers(r) \/ PatchWrites(r) \/ PatchSpawns(r) \/ PatchEmits(r)
    BY <1>8, <2>2, TransferSteps, WriteSteps, SpawnSteps, EmitSteps
  <2> QED
    BY <1>8, <2>1, <2>2 DEF Requests
<1>9. CASE Reconcile
  BY <1>9, ReconcileSteps
<1> QED
  BY <1>1, <1>2, <1>3, <1>4, <1>5, <1>6, <1>7, <1>8, <1>9 DEF BoardNext

\* What the board promises follows.
LEMMA BoardHolds == BoardInv => BoardTypeOK /\ GoalFollowsChildren /\ BindingIsMutual
<1> SUFFICES ASSUME BoardInv PROVE BoardTypeOK /\ GoalFollowsChildren /\ BindingIsMutual
  OBVIOUS
<1>1. BindingIsMutual
  BY DEF BoardInv, BindInv, BindingIsMutual
<1>2. GoalFollowsChildren
  <2>1. \A r \in Patches: Announced(r) => ~Telling(r)
    BY DEF Announced, Telling
  <2> QED
    BY <2>1 DEF BoardInv, GoalInv, GoalFollowsChildren, OnBus, Follows
<1>3. BoardTypeOK
  <2>1. BoardTypes
    BY DEF BoardInv
  <2> QED
    BY <2>1, PatchHas DEF BoardTypes, BoardTypeOK, Rows, Parents, Sessions
<1> QED
  BY <1>1, <1>2, <1>3

-------------------------------------------------------------------------------
(* Orchestration (store orchestration.rs).                                  *)

\* The next free id is one that is not taken.
LEMMA NextIdIsFree ==
  ASSUME NEW max \in Nat, NEW used \in SUBSET (1..max), used # 1..max
  PROVE  NextId(used, max) \in (1..max) \ used
<1> DEFINE free == (1..max) \ used
<1>1. free # {} /\ free \in SUBSET Nat
  <2>1. \E n \in 1..max: n \notin used
    OBVIOUS
  <2> QED
    BY <2>1
<1>2. PICK n \in free: \A k \in free: n <= k
  BY <1>1, LeastIndex
<1>3. n \in 1..max /\ n \notin used /\ \A k \in 1..n - 1: k \in used
  BY <1>2
<1>4. \E i \in 1..max: i \notin used /\ \A k \in 1..i - 1: k \in used
  BY <1>3
<1>5. NextId(used, max) \in 1..max /\ NextId(used, max) \notin used
  BY <1>4, Zenon DEF NextId
<1> QED
  BY <1>5

\* A handle, or none.
Handles == OrchHandles \cup {"none"}

\* A message.
MailTypes == [to: Handles, from: Handles, read: BOOLEAN]

\* A request, in each place with what it carries from there.
ReqTypes ==
  {NoReq}
  \cup [pc: {"insert"}, deps: SUBSET TaskIds, status: {"ready", "pending"}]
  \cup [pc: {"edges"}, task: TaskIds, deps: SUBSET TaskIds]
  \cup [pc: {"dependents", "dispatched"}, task: TaskIds]
  \cup [pc: {"examine"}, left: SUBSET TaskIds]
  \cup [pc: {"examine", "setReady"}, task: TaskIds, left: SUBSET TaskIds]
  \cup [pc: {"deliver"}, from: Handles, left: SUBSET Handles]
  \cup [pc: {"mark"}, handle: OrchHandles, left: SUBSET MailIds]

\* The tables and the requests.
OrchTypes ==
  /\ tasks \in [TaskIds -> TaskStatuses \cup {"none"}]
  /\ edges \in SUBSET (TaskIds \X TaskIds)
  /\ mail \in [MailIds -> MailTypes]
  /\ returned \in SUBSET MailIds
  /\ creq \in [OrchClients -> ReqTypes]
  /\ undone \in BOOLEAN /\ overlap \in BOOLEAN

\* What a check is about to mark was handed out.
MailInv ==
  /\ ReadMailWasReturned
  /\ \A c \in OrchClients: creq[c].pc = "mark" => creq[c].left \subseteq returned

\* A task has edges once it exists, and one creation at most is adding them.
EdgeInv ==
  /\ \A e \in edges: tasks[e[1]] # "none"
  /\ \A c \in OrchClients: creq[c].pc = "edges" => tasks[creq[c].task] # "none"
  /\ \A c, d \in OrchClients:
       creq[c].pc = "edges" /\ creq[d].pc = "edges" /\ creq[c].task = creq[d].task => c = d

\* A task all of whose listed dependencies are completed.
Free(t) == \A d \in TaskIds: <<t, d>> \in edges => tasks[d] = "completed"

\* Somebody will look at t: its creation goes on, or a completion has it listed.
Attended(t) ==
  \E c \in OrchClients:
    \/ creq[c].pc = "edges" /\ creq[c].task = t /\ ~DepsAllCompleted(creq[c].deps)
    \/ creq[c].pc = "dependents" /\ <<t, creq[c].task>> \in edges
    \/ creq[c].pc \in {"examine", "setReady"} /\ t \in creq[c].left
    \/ creq[c].pc = "setReady" /\ creq[c].task = t

\* A request goes by what is true of the tasks.
ReqTrue(c) ==
  /\ creq[c].pc = "insert" =>
       creq[c].status = IF DepsAllCompleted(creq[c].deps) THEN "ready" ELSE "pending"
  /\ creq[c].pc = "edges" /\ tasks[creq[c].task] = "ready" => DepsAllCompleted(creq[c].deps)
  /\ creq[c].pc = "setReady" => Free(creq[c].task)

\* A task's status goes by its dependencies, or will.
TaskTrue(t) ==
  /\ tasks[t] = "ready" => Free(t)
  /\ tasks[t] = "pending" => ~Free(t) \/ Attended(t)

\* What holds while no completion is taken back or runs beside a creation.
DagInv ==
  ~undone /\ ~overlap =>
    /\ ~(Creating /\ Completing)
    /\ \A c \in OrchClients: ReqTrue(c)
    /\ \A t \in TaskIds: TaskTrue(t)

\* What every request keeps, whatever it overlaps with.
OrchInv == OrchTypes /\ MailInv /\ EdgeInv /\ DagInv

\* A request has what its step needs.
LEMMA ReqHas ==
  ASSUME OrchTypes, NEW c \in OrchClients
  PROVE  /\ creq[c] \in ReqTypes
         /\ creq[c].pc \in {"idle", "insert", "edges", "dependents", "dispatched", "examine",
                            "setReady", "deliver", "mark"}
         /\ creq[c].pc = "insert" =>
              /\ creq[c].deps \in SUBSET TaskIds /\ creq[c].status \in {"ready", "pending"}
         /\ creq[c].pc = "edges" =>
              /\ creq[c].task \in TaskIds /\ creq[c].deps \in SUBSET TaskIds
              /\ creq[c] = [pc |-> "edges", task |-> creq[c].task, deps |-> creq[c].deps]
         /\ creq[c].pc \in {"dependents", "dispatched", "setReady"} => creq[c].task \in TaskIds
         /\ creq[c].pc \in {"examine", "setReady"} => creq[c].left \in SUBSET TaskIds
         /\ creq[c].pc = "deliver" =>
              /\ creq[c].from \in Handles /\ creq[c].left \in SUBSET Handles
              /\ creq[c] = [pc |-> "deliver", from |-> creq[c].from, left |-> creq[c].left]
         /\ creq[c].pc = "mark" => creq[c].left \in SUBSET MailIds
<1>1. creq[c] \in ReqTypes
  BY DEF OrchTypes
<1> QED
  BY <1>1 DEF ReqTypes, NoReq

\* The dependencies of a task are where its edges lead.
LEMMA UnblockedIsFree ==
  ASSUME OrchTypes, NEW t \in TaskIds
  PROVE  Unblocked(t) <=> Free(t)
<1>1. \A e \in edges: e = <<e[1], e[2]>> /\ e[1] \in TaskIds /\ e[2] \in TaskIds
  BY DEF OrchTypes
<1>2. \A d: d \in TaskDeps(t) <=> d \in TaskIds /\ <<t, d>> \in edges
  BY <1>1 DEF TaskDeps
<1> QED
  BY <1>2 DEF Unblocked, DepsAllCompleted, Free

\* Empty tables are in order.
LEMMA OrchStarts == OrchInit => OrchInv
<1> SUFFICES ASSUME OrchInit PROVE OrchInv
  OBVIOUS
<1>1. OrchTypes
  BY DEF OrchInit, OrchTypes, ReqTypes, NoReq, NoMail, MailTypes, Handles, TaskStatuses
<1>2. \A c \in OrchClients: creq[c].pc = "idle"
  BY DEF OrchInit, NoReq
<1>3. \A m \in MailIds: ~mail[m].read
  BY DEF OrchInit, NoMail
<1>4. \A t \in TaskIds: tasks[t] = "none"
  BY DEF OrchInit
<1>5. MailInv /\ EdgeInv
  BY <1>2, <1>3 DEF MailInv, EdgeInv, ReadMailWasReturned, OrchInit
<1>6. DagInv
  BY <1>2, <1>4 DEF DagInv, Creating, Completing, ReqTrue, TaskTrue
<1> QED
  BY <1>1, <1>5, <1>6 DEF OrchInv

\* What a step of client c makes of the requests.
ReqPCs == {"insert", "edges", "dependents", "examine", "setReady"}

\* A request that has to do with mail, or a task request that begins or ends
\* without one of its steps, leaves the plan as it is.
LEMMA PlanStands ==
  ASSUME OrchInv, NEW c \in OrchClients, NEW r \in ReqTypes,
         creq' = [creq EXCEPT ![c] = r], r.pc \notin ReqPCs,
         creq[c].pc \in ReqPCs => creq[c].pc \in {"insert", "edges", "examine"} /\ UNCHANGED tasks,
         creq[c].pc = "edges" => creq[c].deps = {},
         creq[c].pc = "examine" => creq[c].left = {},
         UNCHANGED edges, tasks' \in [TaskIds -> TaskStatuses \cup {"none"}],
         undone' \in BOOLEAN, overlap' \in BOOLEAN, undone => undone', overlap => overlap',
         \A t \in TaskIds: /\ tasks'[t] # tasks[t] => tasks'[t] \notin {"none", "ready", "pending", "completed"}
                           /\ tasks'[t] # tasks[t] /\ tasks[t] = "completed" => undone'
  PROVE  EdgeInv' /\ DagInv'
<1>1. OrchTypes
  BY DEF OrchInv
<1>2. \A x \in OrchClients: creq'[x] = IF x = c THEN r ELSE creq[x]
  BY <1>1 DEF OrchTypes
<1>3. \A x \in OrchClients: creq[x].pc = "edges" => creq[x].task \in TaskIds /\ creq[x].deps \in SUBSET TaskIds
  BY <1>1, ReqHas
<1>3a. \A x \in OrchClients: creq[x].pc = "insert" => creq[x].deps \in SUBSET TaskIds
  BY <1>1, ReqHas
<1>3b. \A x \in OrchClients: creq[x].pc = "setReady" => creq[x].task \in TaskIds
  BY <1>1, ReqHas
<1>4. EdgeInv'
  <2>1. \A e \in edges: e[1] \in TaskIds
    BY <1>1 DEF OrchTypes
  <2>2. \A t \in TaskIds: tasks[t] # "none" => tasks'[t] # "none"
    OBVIOUS
  <2> QED
    BY <1>2, <1>3, <2>1, <2>2 DEF EdgeInv, OrchInv, ReqPCs
<1>5. DagInv'
  <2> SUFFICES ASSUME ~undone', ~overlap' PROVE
        /\ ~(Creating /\ Completing)'
        /\ \A x \in OrchClients: ReqTrue(x)'
        /\ \A t \in TaskIds: TaskTrue(t)'
    BY DEF DagInv
  <2>0. /\ ~(Creating /\ Completing)
        /\ \A x \in OrchClients: ReqTrue(x)
        /\ \A t \in TaskIds: TaskTrue(t)
    BY DEF OrchInv, DagInv
  <2>1. \A t \in TaskIds: tasks'[t] = "completed" <=> tasks[t] = "completed"
    OBVIOUS
  <2>2. \A S \in SUBSET TaskIds: DepsAllCompleted(S)' <=> DepsAllCompleted(S)
    BY <2>1 DEF DepsAllCompleted
  <2>3. \A t \in TaskIds: Free(t)' <=> Free(t)
    BY <2>1 DEF Free
  <2>4. ~(Creating /\ Completing)'
    BY <1>2, <2>0 DEF Creating, Completing, ReqPCs
  <2>5. ASSUME NEW x \in OrchClients PROVE ReqTrue(x)'
    <3>1. CASE x = c
      BY <1>2, <3>1 DEF ReqTrue, ReqPCs
    <3>2. CASE x # c
      <4>1. creq'[x] = creq[x] /\ ReqTrue(x)
        BY <1>2, <2>0, <3>2
      <4>2. creq[x].pc = "insert" => (DepsAllCompleted(creq[x].deps)' <=> DepsAllCompleted(creq[x].deps))
        BY <1>3a, <2>2, <4>1
      <4>3. creq[x].pc = "edges" => (DepsAllCompleted(creq[x].deps)' <=> DepsAllCompleted(creq[x].deps))
        BY <1>3, <2>2, <4>1
      <4>4. creq[x].pc = "setReady" => (Free(creq[x].task)' <=> Free(creq[x].task))
        BY <1>3b, <2>3, <4>1
      <4>5. creq[x].pc = "edges" /\ tasks'[creq[x].task] = "ready" => tasks[creq[x].task] = "ready"
        BY <1>3
      <4> QED
        BY <4>1, <4>2, <4>3, <4>4, <4>5 DEF ReqTrue
    <3> QED
      BY <3>1, <3>2
  <2>6. ASSUME NEW t \in TaskIds PROVE TaskTrue(t)'
    <3>1. tasks'[t] = "ready" => Free(t)'
      BY <2>0, <2>3 DEF TaskTrue
    <3>2. ASSUME tasks'[t] = "pending", Attended(t) PROVE Attended(t)'
      <4>1. PICK x \in OrchClients:
              \/ creq[x].pc = "edges" /\ creq[x].task = t /\ ~DepsAllCompleted(creq[x].deps)
              \/ creq[x].pc = "dependents" /\ <<t, creq[x].task>> \in edges
              \/ creq[x].pc \in {"examine", "setReady"} /\ t \in creq[x].left
              \/ creq[x].pc = "setReady" /\ creq[x].task = t
        BY <3>2 DEF Attended
      <4>2. x # c
        BY <4>1 DEF DepsAllCompleted, ReqPCs
      <4>3. creq'[x] = creq[x]
        BY <1>2, <4>2
      <4>4. creq[x].pc = "edges" /\ ~DepsAllCompleted(creq[x].deps) => ~DepsAllCompleted(creq[x].deps)'
        BY <1>3, <2>2, <4>3
      <4>5. \/ creq'[x].pc = "edges" /\ creq'[x].task = t /\ ~DepsAllCompleted(creq[x].deps)'
            \/ creq'[x].pc = "dependents" /\ <<t, creq'[x].task>> \in edges'
            \/ creq'[x].pc \in {"examine", "setReady"} /\ t \in creq'[x].left
            \/ creq'[x].pc = "setReady" /\ creq'[x].task = t
        BY <4>1, <4>3, <4>4
      <4> QED
        BY <4>5 DEF Attended
    <3>3. tasks'[t] = "pending" => tasks[t] = "pending"
      OBVIOUS
    <3> QED
      BY <2>0, <2>3, <3>1, <3>2, <3>3 DEF TaskTrue
  <2> QED
    BY <2>4, <2>5, <2>6
<1> QED
  BY <1>4, <1>5

\* Requests go on; what was handed out stays so.
LEMMA MailKept ==
  ASSUME OrchInv, NEW c \in OrchClients, NEW r \in ReqTypes,
         creq' = [creq EXCEPT ![c] = r], returned \subseteq returned',
         r.pc = "mark" => r.left \subseteq returned',
         \A m \in MailIds: mail'[m].read => mail[m].read \/ m \in returned'
  PROVE  MailInv'
<1>1. \A x \in OrchClients: creq'[x] = IF x = c THEN r ELSE creq[x]
  BY DEF OrchInv, OrchTypes
<1>2. \A x \in OrchClients: creq[x].pc = "mark" => creq[x].left \subseteq returned
  BY DEF OrchInv, MailInv
<1>3. ReadMailWasReturned'
  BY DEF OrchInv, MailInv, ReadMailWasReturned
<1> QED
  BY <1>1, <1>2, <1>3 DEF MailInv

\* A request that only touches the mail or begins and ends there.
LEMMA MailSteps ==
  ASSUME OrchInv, NEW c \in OrchClients, MailRequests(c)
  PROVE  OrchInv'
<1>1. OrchTypes /\ UNCHANGED <<tasks, edges, undone, overlap>>
  BY DEF OrchInv, MailRequests, Send, Reply, Deliver, CheckReads, CheckMarks
<1>2. ASSUME NEW r \in ReqTypes, creq' = [creq EXCEPT ![c] = r], r.pc \notin ReqPCs,
             creq[c].pc \notin ReqPCs,
             mail' \in [MailIds -> MailTypes],
             returned' \in SUBSET MailIds, returned \subseteq returned',
             r.pc = "mark" => r.left \subseteq returned',
             \A m \in MailIds: mail'[m].read => mail[m].read \/ m \in returned'
      PROVE  OrchInv'
  <2>1. MailInv'
    BY <1>2, MailKept
  <2>2. EdgeInv' /\ DagInv'
    <3>1. /\ creq[c].pc = "edges" => creq[c].deps = {}
          /\ creq[c].pc = "examine" => creq[c].left = {}
          /\ creq[c].pc \in ReqPCs => creq[c].pc \in {"insert", "edges", "examine"} /\ UNCHANGED tasks
          /\ (undone => undone') /\ (overlap => overlap')
          /\ tasks' \in [TaskIds -> TaskStatuses \cup {"none"}]
          /\ undone' \in BOOLEAN /\ overlap' \in BOOLEAN
          /\ UNCHANGED edges
          /\ \A t \in TaskIds:
               /\ tasks'[t] # tasks[t] => tasks'[t] \notin {"none", "ready", "pending", "completed"}
               /\ tasks'[t] # tasks[t] /\ tasks[t] = "completed" => undone'
      BY <1>1, <1>2 DEF ReqPCs, OrchTypes
    <3> QED
      BY <1>2, <3>1, PlanStands
  <2>3. OrchTypes'
    BY <1>1, <1>2 DEF OrchTypes
  <2> QED
    BY <2>1, <2>2, <2>3 DEF OrchInv
<1>3. NoReq \in ReqTypes /\ NoReq.pc \notin ReqPCs /\ NoReq.pc # "mark"
  BY DEF ReqTypes, NoReq, ReqPCs
<1>4. ASSUME NEW from \in Handles, NEW left \in SUBSET Handles
      PROVE  /\ [pc |-> "deliver", from |-> from, left |-> left] \in ReqTypes
             /\ [pc |-> "deliver", from |-> from, left |-> left].pc \notin ReqPCs \cup {"mark"}
  BY DEF ReqTypes, ReqPCs
<1>5. CASE \E to \in OrchHandles \cup {"@all"}, from \in OrchHandles: Send(c, to, from)
  <2>1. PICK to \in OrchHandles \cup {"@all"}, from \in OrchHandles: Send(c, to, from)
    BY <1>5
  <2>2. creq[c].pc \notin ReqPCs /\ UNCHANGED <<mail, returned>>
    BY <2>1 DEF Send, Asks, ReqPCs
  <2>3. ResolveRecipients(to, from) \in SUBSET Handles /\ from \in Handles
    BY <2>1 DEF ResolveRecipients, Handles
  <2>4. \/ creq' = [creq EXCEPT ![c] = NoReq]
        \/ creq' = [creq EXCEPT ![c] = [pc |-> "deliver", from |-> from,
                                        left |-> ResolveRecipients(to, from)]]
    BY <2>1 DEF Send, Now, Answered
  <2>5. PICK r \in ReqTypes: creq' = [creq EXCEPT ![c] = r] /\ r.pc \notin ReqPCs /\ r.pc # "mark"
    BY <1>3, <1>4, <2>1, <2>3, <2>4
  <2> QED
    BY <1>1, <1>2, <2>2, <2>5 DEF OrchTypes
<1>6. CASE \E m \in MailIds: Reply(c, m)
  <2>1. PICK m \in MailIds: Reply(c, m)
    BY <1>6
  <2>2. creq[c].pc \notin ReqPCs /\ UNCHANGED <<mail, returned>> /\ mail[m].to # "none"
    BY <2>1 DEF Reply, Asks, ReqPCs, Mailed
  <2>3. mail[m].to \in Handles /\ mail[m].from \in Handles
    BY <1>1, <2>2 DEF OrchTypes, MailTypes
  <2> DEFINE r == [pc |-> "deliver", from |-> mail[m].to, left |-> {mail[m].from}]
  <2>4. r \in ReqTypes /\ r.pc \notin ReqPCs \cup {"mark"}
    BY <1>4, <2>3
  <2>5. creq' = [creq EXCEPT ![c] = r]
    BY <2>1 DEF Reply, Now
  <2> HIDE DEF r
  <2> QED
    BY <1>1, <1>2, <2>2, <2>4, <2>5 DEF OrchTypes
<1>7. CASE Deliver(c)
  <2>1. /\ creq[c].pc = "deliver" /\ creq[c].pc \notin ReqPCs /\ UNCHANGED returned
        /\ creq[c].from \in Handles /\ creq[c].left \in SUBSET Handles
        /\ creq[c] = [pc |-> "deliver", from |-> creq[c].from, left |-> creq[c].left]
    BY <1>1, <1>7, ReqHas DEF Deliver, ReqAt, ReqPCs
  <2>2. CASE creq' = [creq EXCEPT ![c] = NoReq] /\ UNCHANGED mail
    BY <1>1, <1>2, <1>3, <2>1, <2>2 DEF OrchTypes
  <2>3. CASE ~(creq[c].left = {} \/ Mailed = MailIds)
    <3>1. PICK h \in creq[c].left:
            /\ mail' = [mail EXCEPT ![NextId(Mailed, MaxMail)] =
                          [to |-> h, from |-> creq[c].from, read |-> FALSE]]
            /\ creq' = [creq EXCEPT ![c].left = @ \ {h}]
      BY <1>7, <2>3 DEF Deliver
    <3> DEFINE r == [pc |-> "deliver", from |-> creq[c].from, left |-> creq[c].left \ {h}]
    <3>2. creq' = [creq EXCEPT ![c] = r]
      <4>1. creq' = [creq EXCEPT ![c] = [creq[c] EXCEPT !.left = creq[c].left \ {h}]]
        BY <3>1
      <4>2. [creq[c] EXCEPT !.left = creq[c].left \ {h}] = r
        BY <2>1
      <4> QED
        BY <4>1, <4>2
    <3>3. r \in ReqTypes /\ r.pc \notin ReqPCs \cup {"mark"}
      BY <1>4, <2>1
    <3>4. NextId(Mailed, MaxMail) \in MailIds
      BY <2>3, NextIdIsFree, OrchAssumption DEF MailIds, Mailed
    <3>5. \A m \in MailIds: mail'[m] = IF m = NextId(Mailed, MaxMail)
                                       THEN [to |-> h, from |-> creq[c].from, read |-> FALSE]
                                       ELSE mail[m]
      BY <1>1, <3>1 DEF OrchTypes
    <3>6. /\ mail' \in [MailIds -> MailTypes]
          /\ \A m \in MailIds: mail'[m].read => mail[m].read
      BY <1>1, <2>1, <3>1, <3>5 DEF OrchTypes, MailTypes
    <3> HIDE DEF r
    <3> QED
      BY <1>1, <1>2, <2>1, <3>2, <3>3, <3>6 DEF OrchTypes
  <2> QED
    BY <1>7, <2>2, <2>3 DEF Deliver, Answered
<1>8. CASE \E h \in OrchHandles, marks \in BOOLEAN: CheckReads(c, h, marks)
  <2>1. PICK h \in OrchHandles, marks \in BOOLEAN: CheckReads(c, h, marks)
    BY <1>8
  <2> DEFINE found == {m \in Mailed: mail[m].to = h /\ ~mail[m].read}
             r == [pc |-> "mark", handle |-> h, left |-> found]
  <2>2. /\ creq[c].pc \notin ReqPCs /\ UNCHANGED mail /\ returned' = returned \cup found
        /\ creq' = [creq EXCEPT ![c] = NoReq] \/ creq' = [creq EXCEPT ![c] = r]
    BY <2>1 DEF CheckReads, Asks, Now, Answered, ReqPCs
  <2>3. found \in SUBSET MailIds
    BY DEF Mailed
  <2> HIDE DEF found
  <2>4. r \in ReqTypes /\ r.pc \notin ReqPCs /\ r.left = found
    BY <2>1, <2>3 DEF ReqTypes, ReqPCs
  <2> HIDE DEF r
  <2>5. PICK s \in ReqTypes: creq' = [creq EXCEPT ![c] = s] /\ s.pc \notin ReqPCs
                             /\ (s.pc = "mark" => s.left \subseteq returned')
    BY <1>3, <2>2, <2>4
  <2>6. returned' \in SUBSET MailIds /\ returned \subseteq returned'
    BY <1>1, <2>2, <2>3 DEF OrchTypes
  <2> QED
    BY <1>1, <1>2, <2>2, <2>5, <2>6 DEF OrchTypes
<1>9. CASE CheckMarks(c)
  <2>1. /\ creq[c].pc = "mark" /\ creq[c].pc \notin ReqPCs /\ UNCHANGED returned
        /\ creq' = [creq EXCEPT ![c] = NoReq] /\ creq[c].left \subseteq returned
    BY <1>9 DEF CheckMarks, ReqAt, Answered, ReqPCs, OrchInv, MailInv
  <2>2. mail' = [m \in MailIds |-> IF m \in creq[c].left THEN [mail[m] EXCEPT !.read = TRUE]
                                   ELSE mail[m]]
    BY <1>9 DEF CheckMarks
  <2>3. \A m \in MailIds: /\ mail'[m] \in MailTypes
                          /\ mail'[m].read => mail[m].read \/ m \in returned'
    BY <1>1, <2>1, <2>2 DEF OrchTypes, MailTypes
  <2>4. mail' \in [MailIds -> MailTypes] /\ returned' \in SUBSET MailIds
    BY <1>1, <2>1, <2>2, <2>3 DEF OrchTypes
  <2> QED
    BY <1>2, <1>3, <2>1, <2>3, <2>4
<1> QED
  BY <1>5, <1>6, <1>7, <1>8, <1>9 DEF MailRequests

\* What a request does to the others: nothing.
LEMMA OneMoves ==
  ASSUME OrchTypes, NEW c \in OrchClients, NEW r, creq' = [creq EXCEPT ![c] = r]
  PROVE  \A x \in OrchClients: creq'[x] = IF x = c THEN r ELSE creq[x]
BY DEF OrchTypes

\* A creation begins: it reads the statuses, and the completions that are under
\* way are noted.
LEMMA CreationBegins ==
  ASSUME OrchInv, NEW c \in OrchClients, NEW deps \in SUBSET Existing, CreateChecks(c, deps)
  PROVE  OrchInv'
<1> DEFINE r == [pc |-> "insert", deps |-> deps,
                 status |-> IF DepsAllCompleted(deps) THEN "ready" ELSE "pending"]
<1>1. /\ creq[c].pc = "idle" /\ creq' = [creq EXCEPT ![c] = r]
      /\ overlap' = (overlap \/ Completing)
      /\ UNCHANGED <<tasks, edges, dispatches, mail, returned, undone>>
  BY DEF CreateChecks, Asks, Now
<1>2. /\ r.pc = "insert" /\ r.deps = deps /\ deps \in SUBSET TaskIds
      /\ r.status = IF DepsAllCompleted(deps) THEN "ready" ELSE "pending"
      /\ r \in ReqTypes
  BY DEF ReqTypes, Existing
<1> HIDE DEF r
<1>3. OrchTypes /\ OrchTypes'
  BY <1>1, <1>2 DEF OrchInv, OrchTypes
<1>4. \A x \in OrchClients: creq'[x] = IF x = c THEN r ELSE creq[x]
  BY <1>1, <1>3, OneMoves
<1>5. MailInv'
  BY <1>1, <1>2, MailKept DEF OrchInv, MailInv, ReadMailWasReturned
<1>6. EdgeInv'
  BY <1>1, <1>2, <1>4 DEF OrchInv, EdgeInv
<1>7. DagInv'
  <2> SUFFICES ASSUME ~undone', ~overlap' PROVE
        /\ ~(Creating /\ Completing)'
        /\ \A x \in OrchClients: ReqTrue(x)'
        /\ \A t \in TaskIds: TaskTrue(t)'
    BY DEF DagInv
  <2>0. /\ ~Completing
        /\ \A x \in OrchClients: ReqTrue(x)
        /\ \A t \in TaskIds: TaskTrue(t)
    BY <1>1 DEF OrchInv, DagInv
  <2>1. ~Completing'
    BY <1>2, <1>4, <2>0 DEF Completing
  <2>2. ASSUME NEW x \in OrchClients PROVE ReqTrue(x)'
    BY <1>1, <1>2, <1>4, <2>0 DEF ReqTrue, DepsAllCompleted, Free
  <2>3. ASSUME NEW t \in TaskIds PROVE TaskTrue(t)'
    <3>1. Free(t)' <=> Free(t)
      BY <1>1 DEF Free
    <3>2. Attended(t) => Attended(t)'
      BY <1>1, <1>4 DEF Attended, DepsAllCompleted
    <3> QED
      BY <1>1, <2>0, <3>1, <3>2 DEF TaskTrue
  <2> QED
    BY <2>1, <2>2, <2>3
<1> QED
  BY <1>3, <1>5, <1>6, <1>7 DEF OrchInv

\* A new row has no edges yet: its status goes by what its creation found.
LEMMA CreationInserts ==
  ASSUME OrchInv, NEW c \in OrchClients, CreateInserts(c), Existing # TaskIds
  PROVE  OrchInv'
<1>0. NextId(Existing, MaxTasks) \in TaskIds /\ tasks[NextId(Existing, MaxTasks)] = "none"
  BY NextIdIsFree, OrchAssumption DEF Existing, TaskIds
<1>2. PICK t \in TaskIds: t = NextId(Existing, MaxTasks) /\ tasks[t] = "none"
  BY <1>0
<1> DEFINE r == [pc |-> "edges", task |-> t, deps |-> creq[c].deps]
<1>1. /\ creq[c].pc = "insert" /\ tasks' = [tasks EXCEPT ![t] = creq[c].status]
      /\ creq' = [creq EXCEPT ![c] = r]
      /\ UNCHANGED <<edges, dispatches, mail, returned, undone, overlap>>
  BY <1>2 DEF CreateInserts, ReqAt, Now
<1>3. creq[c].deps \in SUBSET TaskIds /\ creq[c].status \in {"ready", "pending"}
  BY <1>1, ReqHas DEF OrchInv
<1>4. /\ r.pc = "edges" /\ r.task = t /\ r.deps = creq[c].deps /\ r \in ReqTypes
  BY <1>2, <1>3 DEF ReqTypes
<1> HIDE DEF r
<1>5. OrchTypes /\ OrchTypes'
  BY <1>1, <1>2, <1>3, <1>4 DEF OrchInv, OrchTypes, TaskStatuses
<1>6. \A x \in OrchClients: creq'[x] = IF x = c THEN r ELSE creq[x]
  BY <1>1, <1>5, OneMoves
<1>7. \A s \in TaskIds: tasks'[s] = IF s = t THEN creq[c].status ELSE tasks[s]
  BY <1>1, <1>5 DEF OrchTypes
<1>8. MailInv'
  BY <1>1, <1>4, MailKept DEF OrchInv, MailInv, ReadMailWasReturned
<1>9. \A e \in edges: e[1] # t /\ e[1] \in TaskIds
  BY <1>2, <1>5 DEF OrchInv, EdgeInv, OrchTypes
<1>10. \A x \in OrchClients: creq[x].pc = "edges" => creq[x].task # t /\ creq[x].task \in TaskIds
                                                     /\ creq[x].deps \in SUBSET TaskIds
  BY <1>2, <1>5, ReqHas DEF OrchInv, EdgeInv
<1>11. EdgeInv'
  <2>1. \A e \in edges': tasks'[e[1]] # "none"
    BY <1>1, <1>7, <1>9 DEF OrchInv, EdgeInv
  <2>2. \A x \in OrchClients: creq'[x].pc = "edges" => tasks'[creq'[x].task] # "none"
    BY <1>2, <1>3, <1>4, <1>6, <1>7, <1>10 DEF OrchInv, EdgeInv
  <2>3. \A x, y \in OrchClients:
          creq'[x].pc = "edges" /\ creq'[y].pc = "edges" /\ creq'[x].task = creq'[y].task => x = y
    BY <1>4, <1>6, <1>10 DEF OrchInv, EdgeInv
  <2> QED
    BY <2>1, <2>2, <2>3 DEF EdgeInv
<1>12. DagInv'
  <2> SUFFICES ASSUME ~undone', ~overlap' PROVE
        /\ ~(Creating /\ Completing)'
        /\ \A x \in OrchClients: ReqTrue(x)'
        /\ \A s \in TaskIds: TaskTrue(s)'
    BY DEF DagInv
  <2>0. /\ ~Completing
        /\ \A x \in OrchClients: ReqTrue(x)
        /\ \A s \in TaskIds: TaskTrue(s)
    BY <1>1 DEF OrchInv, DagInv, Creating
  <2>1. ~Completing'
    BY <1>4, <1>6, <2>0 DEF Completing
  <2>1a. creq[c].status = IF DepsAllCompleted(creq[c].deps) THEN "ready" ELSE "pending"
    BY <1>1, <2>0 DEF ReqTrue
  <2>2. \A s \in TaskIds: tasks'[s] = "completed" <=> tasks[s] = "completed"
    BY <1>2, <1>3, <1>7
  <2>3. \A S \in SUBSET TaskIds: DepsAllCompleted(S)' <=> DepsAllCompleted(S)
    BY <2>2 DEF DepsAllCompleted
  <2>4. \A s \in TaskIds: Free(s)' <=> Free(s)
    BY <1>1, <2>2 DEF Free
  <2>5. ASSUME NEW x \in OrchClients PROVE ReqTrue(x)'
    <3>1. CASE x = c
      BY <1>3, <1>4, <1>6, <1>7, <1>2, <2>1a, <2>3, <3>1 DEF ReqTrue
    <3>2. CASE x # c
      <4>1. creq'[x] = creq[x] /\ ReqTrue(x) /\ creq[x].pc # "setReady"
        BY <1>6, <2>0, <3>2 DEF Completing
      <4>2. creq[x].pc = "insert" => (DepsAllCompleted(creq[x].deps)' <=> DepsAllCompleted(creq[x].deps))
        BY <1>5, <2>3, <4>1, ReqHas
      <4>3. creq[x].pc = "edges" => /\ DepsAllCompleted(creq[x].deps)' <=> DepsAllCompleted(creq[x].deps)
                                    /\ tasks'[creq[x].task] = tasks[creq[x].task]
        BY <1>7, <1>10, <2>3, <4>1
      <4> QED
        BY <4>1, <4>2, <4>3 DEF ReqTrue
    <3> QED
      BY <3>1, <3>2
  <2>6. ASSUME NEW s \in TaskIds PROVE TaskTrue(s)'
    <3>1. CASE s = t
      <4>1. Free(t)'
        BY <1>1, <1>9 DEF Free
      <4>2. tasks'[t] = "pending" => Attended(t)'
        <5>1. tasks'[t] = "pending" => ~DepsAllCompleted(creq[c].deps)
          BY <1>2, <1>3, <1>7, <2>1a
        <5>2. creq'[c].pc = "edges" /\ creq'[c].task = t /\ creq'[c].deps = creq[c].deps
          BY <1>4, <1>6
        <5>3. tasks'[t] = "pending" => ~(\A d \in creq'[c].deps: tasks'[d] = "completed")
          BY <1>3, <2>2, <5>1, <5>2 DEF DepsAllCompleted
        <5>4. tasks'[t] = "pending" =>
                (\E x \in OrchClients: creq'[x].pc = "edges" /\ creq'[x].task = t
                                       /\ ~(\A d \in creq'[x].deps: tasks'[d] = "completed"))
          BY <5>2, <5>3
        <5> QED
          BY <5>4 DEF Attended, DepsAllCompleted
      <4> QED
        BY <3>1, <4>1, <4>2 DEF TaskTrue
    <3>2. CASE s # t
      <4>1. tasks'[s] = tasks[s] /\ TaskTrue(s)
        BY <1>7, <2>0, <3>2
      <4>2. Attended(s) => Attended(s)'
        <5> SUFFICES ASSUME Attended(s) PROVE Attended(s)'
          OBVIOUS
        <5>1. PICK x \in OrchClients:
                creq[x].pc = "edges" /\ creq[x].task = s /\ ~DepsAllCompleted(creq[x].deps)
          BY <2>0 DEF Attended, Completing
        <5>2. creq'[x] = creq[x] /\ ~DepsAllCompleted(creq[x].deps)'
          BY <1>1, <1>6, <1>10, <2>3, <5>1
        <5> QED
          BY <5>1, <5>2 DEF Attended, DepsAllCompleted
      <4> QED
        BY <2>4, <4>1, <4>2 DEF TaskTrue
    <3> QED
      BY <3>1, <3>2
  <2> QED
    BY <2>1, <2>5, <2>6
<1> QED
  BY <1>5, <1>8, <1>11, <1>12 DEF OrchInv

\* One edge more: what the creation had still to look at becomes what the task
\* waits for.
LEMMA CreationAddsEdge ==
  ASSUME OrchInv, NEW c \in OrchClients, CreateAddsEdge(c), creq[c].deps # {}
  PROVE  OrchInv'
<1>1. PICK d \in creq[c].deps: /\ edges' = edges \cup {<<creq[c].task, d>>}
                               /\ creq' = [creq EXCEPT ![c].deps = @ \ {d}]
  BY DEF CreateAddsEdge
<1>2. /\ creq[c].pc = "edges" /\ UNCHANGED <<tasks, dispatches, mail, returned, undone, overlap>>
      /\ OrchTypes
  BY DEF CreateAddsEdge, ReqAt, OrchInv
<1>3. /\ creq[c].task \in TaskIds /\ creq[c].deps \in SUBSET TaskIds /\ d \in TaskIds
      /\ creq[c] = [pc |-> "edges", task |-> creq[c].task, deps |-> creq[c].deps]
  BY <1>1, <1>2, ReqHas
<1>4. PICK t \in TaskIds: t = creq[c].task
  BY <1>3
<1> DEFINE r == [pc |-> "edges", task |-> t, deps |-> creq[c].deps \ {d}]
<1>5. creq' = [creq EXCEPT ![c] = r]
  <2>1. creq' = [creq EXCEPT ![c] = [creq[c] EXCEPT !.deps = creq[c].deps \ {d}]]
    BY <1>1
  <2>2. [creq[c] EXCEPT !.deps = creq[c].deps \ {d}] = r
    BY <1>3, <1>4
  <2> QED
    BY <2>1, <2>2
<1>6. /\ r.pc = "edges" /\ r.task = t /\ r.deps = creq[c].deps \ {d} /\ r \in ReqTypes
  BY <1>3 DEF ReqTypes
<1> HIDE DEF r
<1>7. OrchTypes'
  BY <1>1, <1>2, <1>3, <1>5, <1>6 DEF OrchTypes
<1>8. \A x \in OrchClients: creq'[x] = IF x = c THEN r ELSE creq[x]
  BY <1>2, <1>5, OneMoves
<1>9. MailInv'
  BY <1>2, <1>5, <1>6, MailKept DEF OrchInv, MailInv, ReadMailWasReturned
<1>10. EdgeInv'
  BY <1>1, <1>2, <1>4, <1>6, <1>8 DEF OrchInv, EdgeInv
<1>11. \A x \in OrchClients: creq[x].pc = "edges" /\ creq[x].task = t => x = c
  BY <1>2, <1>4 DEF OrchInv, EdgeInv
<1>12. DagInv'
  <2> SUFFICES ASSUME ~undone', ~overlap' PROVE
        /\ ~(Creating /\ Completing)'
        /\ \A x \in OrchClients: ReqTrue(x)'
        /\ \A s \in TaskIds: TaskTrue(s)'
    BY DEF DagInv
  <2>0. /\ ~Completing
        /\ \A x \in OrchClients: ReqTrue(x)
        /\ \A s \in TaskIds: TaskTrue(s)
    BY <1>2 DEF OrchInv, DagInv, Creating
  <2>1. ~Completing'
    BY <1>6, <1>8, <2>0 DEF Completing
  <2>2. ASSUME NEW x \in OrchClients PROVE ReqTrue(x)'
    <3>1. CASE x = c
      <4>1. tasks[t] = "ready" => \A e \in creq[c].deps: tasks[e] = "completed"
        BY <1>2, <1>4, <2>0 DEF ReqTrue, DepsAllCompleted
      <4> QED
        BY <1>2, <1>6, <1>8, <3>1, <4>1 DEF ReqTrue, DepsAllCompleted
    <3>2. CASE x # c
      BY <1>2, <1>8, <2>0, <3>2 DEF ReqTrue, DepsAllCompleted, Completing
    <3> QED
      BY <3>1, <3>2
  <2>3. ASSUME NEW s \in TaskIds PROVE TaskTrue(s)'
    <3>1. CASE s = t
      <4>1. tasks[t] = "ready" => Free(t) /\ DepsAllCompleted(creq[c].deps)
        BY <1>2, <1>4, <2>0 DEF TaskTrue, ReqTrue
      <4>2. tasks'[t] = "ready" => Free(t)'
        BY <1>1, <1>2, <1>4, <4>1 DEF Free, DepsAllCompleted
      <4>3. ASSUME tasks'[t] = "pending", Free(t)' PROVE Attended(t)'
        <5>1. Free(t) /\ tasks[d] = "completed"
          BY <1>1, <1>2, <1>3, <1>4, <4>3 DEF Free
        <5>2. Attended(t)
          BY <1>2, <2>0, <4>3, <5>1 DEF TaskTrue
        <5>3. ~DepsAllCompleted(creq[c].deps)
          BY <1>11, <2>0, <5>2 DEF Attended, Completing
        <5>4. \E e \in creq'[c].deps: tasks'[e] # "completed"
          BY <1>2, <1>6, <1>8, <5>1, <5>3 DEF DepsAllCompleted
        <5>5. creq'[c].pc = "edges" /\ creq'[c].task = t
          BY <1>6, <1>8
        <5> QED
          BY <5>4, <5>5 DEF Attended, DepsAllCompleted
      <4> QED
        BY <3>1, <4>2, <4>3 DEF TaskTrue
    <3>2. CASE s # t
      <4>1. Free(s)' <=> Free(s)
        BY <1>1, <1>2, <1>4, <3>2 DEF Free
      <4>2. Attended(s) => Attended(s)'
        BY <1>2, <1>4, <1>8, <2>0, <3>2 DEF Attended, Completing, DepsAllCompleted
      <4> QED
        BY <1>2, <2>0, <4>1, <4>2 DEF TaskTrue
    <3> QED
      BY <3>1, <3>2
  <2> QED
    BY <2>1, <2>2, <2>3
<1> QED
  BY <1>7, <1>9, <1>10, <1>12 DEF OrchInv

\* A completion goes one step further.
LEMMA CompletionMoves ==
  ASSUME OrchInv, NEW c \in OrchClients, NEW r \in ReqTypes,
         creq' = [creq EXCEPT ![c] = r], UNCHANGED <<edges, mail, returned>>,
         r.pc \in {"dependents", "examine", "setReady"},
         creq[c].pc \in {"idle", "dependents", "examine", "setReady"},
         tasks' \in [TaskIds -> TaskStatuses \cup {"none"}],
         undone' \in BOOLEAN, overlap' \in BOOLEAN, undone => undone', overlap => overlap',
         \A s \in TaskIds: tasks[s] # "none" => tasks'[s] # "none",
         ~undone' /\ ~overlap' =>
           /\ ~Creating
           /\ \A s \in TaskIds: tasks[s] = "completed" => tasks'[s] = "completed"
           /\ r.pc = "setReady" =>
                \A e \in TaskIds: <<r.task, e>> \in edges => tasks'[e] = "completed"
           /\ \A s \in TaskIds: TaskTrue(s)'
  PROVE  OrchInv'
<1>1. OrchTypes /\ OrchTypes'
  BY DEF OrchInv, OrchTypes
<1>1a. creq' = [creq EXCEPT ![c] = r] /\ creq \in [OrchClients -> ReqTypes]
  BY <1>1 DEF OrchTypes
<1>2. \A x \in OrchClients: creq'[x] = IF x = c THEN r ELSE creq[x]
  BY ONLY <1>1a
<1>3. MailInv'
  BY MailKept DEF OrchInv, MailInv, ReadMailWasReturned
<1>4. EdgeInv'
  <2>1. \A e \in edges: e[1] \in TaskIds
    BY <1>1 DEF OrchTypes
  <2>2. \A x \in OrchClients: creq[x].pc = "edges" => creq[x].task \in TaskIds
    BY <1>1, ReqHas
  <2> QED
    BY <1>2, <2>1, <2>2 DEF OrchInv, EdgeInv
<1>5. DagInv'
  <2> SUFFICES ASSUME ~undone', ~overlap' PROVE
        /\ ~(Creating /\ Completing)'
        /\ \A x \in OrchClients: ReqTrue(x)'
        /\ \A s \in TaskIds: TaskTrue(s)'
    BY DEF DagInv
  <2>1. ~Creating'
    BY <1>2 DEF Creating
  <2>2. ASSUME NEW x \in OrchClients PROVE ReqTrue(x)'
    <3>1. creq'[x].pc \notin {"insert", "edges"}
      BY <2>1 DEF Creating
    <3>2. creq'[x].pc = "setReady" =>
            \A e \in TaskIds: <<creq'[x].task, e>> \in edges => tasks'[e] = "completed"
      <4>1. CASE x = c
        BY <1>2, <4>1
      <4>2. CASE x # c
        <5>1. creq'[x] = creq[x] /\ ReqTrue(x)
          BY <1>2, <4>2 DEF OrchInv, DagInv
        <5> QED
          BY <5>1 DEF ReqTrue, Free
      <4> QED
        BY <4>1, <4>2
    <3> QED
      BY <3>1, <3>2 DEF ReqTrue, Free
  <2> QED
    BY <2>1, <2>2
<1> QED
  BY <1>1, <1>3, <1>4, <1>5 DEF OrchInv

\* A task is completed: who waited for it alone is now on a list.
LEMMA CompletionBegins ==
  ASSUME OrchInv, NEW c \in OrchClients, NEW t \in TaskIds, UpdateTask(c, t, "completed")
  PROVE  OrchInv'
<1> DEFINE r == [pc |-> "dependents", task |-> t]
<1>1. /\ creq[c].pc = "idle" /\ tasks[t] # "none" /\ tasks' = [tasks EXCEPT ![t] = "completed"]
      /\ creq' = [creq EXCEPT ![c] = r] /\ undone' = undone
      /\ overlap' = (overlap \/ Creating)
      /\ UNCHANGED <<edges, mail, returned>> /\ OrchTypes
  BY DEF UpdateTask, Asks, Now, OrchInv, OrchTypes
<1>2. r \in ReqTypes /\ r.pc = "dependents" /\ r.task = t
  BY DEF ReqTypes
<1> HIDE DEF r
<1>3. \A x \in OrchClients: creq'[x] = IF x = c THEN r ELSE creq[x]
  BY <1>1, OneMoves
<1>4. \A s \in TaskIds: tasks'[s] = IF s = t THEN "completed" ELSE tasks[s]
  BY <1>1 DEF OrchTypes
<1>5. /\ tasks' \in [TaskIds -> TaskStatuses \cup {"none"}]
      /\ undone' \in BOOLEAN /\ overlap' \in BOOLEAN
  BY <1>1 DEF OrchTypes, TaskStatuses
<1>6. ASSUME ~undone', ~overlap', NEW s \in TaskIds PROVE TaskTrue(s)'
  <2>0. ~overlap /\ ~Creating /\ ~undone
    BY <1>1, <1>6
  <2>1. TaskTrue(s)
    BY <2>0 DEF OrchInv, DagInv
  <2>2. tasks'[s] = "ready" => Free(s)'
    BY <1>1, <1>4, <2>1 DEF TaskTrue, Free
  <2>3. ASSUME tasks'[s] = "pending", Free(s)' PROVE Attended(s)'
    <3>1. CASE Free(s)
      <4>1. Attended(s)
        BY <1>4, <2>1, <2>3, <3>1 DEF TaskTrue
      <4>2. PICK x \in OrchClients:
              \/ creq[x].pc = "dependents" /\ <<s, creq[x].task>> \in edges
              \/ creq[x].pc \in {"examine", "setReady"} /\ s \in creq[x].left
              \/ creq[x].pc = "setReady" /\ creq[x].task = s
        BY <2>0, <4>1 DEF Attended, Creating
      <4>3. creq'[x] = creq[x]
        BY <1>1, <1>3, <4>2
      <4>4. \/ creq'[x].pc = "dependents" /\ <<s, creq'[x].task>> \in edges'
            \/ creq'[x].pc \in {"examine", "setReady"} /\ s \in creq'[x].left
            \/ creq'[x].pc = "setReady" /\ creq'[x].task = s
        BY <1>1, <4>2, <4>3
      <4> QED
        BY <4>4 DEF Attended
    <3>2. CASE ~Free(s)
      <4>1. <<s, t>> \in edges
        BY <1>1, <1>4, <2>3, <3>2 DEF Free
      <4>2. creq'[c].pc = "dependents" /\ <<s, creq'[c].task>> \in edges'
        BY <1>1, <1>2, <1>3, <4>1
      <4> QED
        BY <4>2 DEF Attended
    <3> QED
      BY <3>1, <3>2
  <2> QED
    BY <2>2, <2>3 DEF TaskTrue
<1>7. \A s \in TaskIds: (tasks[s] # "none" => tasks'[s] # "none")
                        /\ (tasks[s] = "completed" => tasks'[s] = "completed")
  BY <1>4
<1>8. (undone => undone') /\ (overlap => overlap') /\ (~overlap' => ~Creating)
  BY <1>1
<1> QED
  BY <1>1, <1>2, <1>5, <1>6, <1>7, <1>8, CompletionMoves

\* The dependents of the completed task are the list.
LEMMA CompletionLists ==
  ASSUME OrchInv, NEW c \in OrchClients, ListDependents(c)
  PROVE  OrchInv'
<1> DEFINE left == {e[1] : e \in {x \in edges: x[2] = creq[c].task}}
           r == [pc |-> "examine", left |-> left]
<1>1. /\ creq[c].pc = "dependents" /\ creq' = [creq EXCEPT ![c] = r]
      /\ UNCHANGED <<tasks, edges, mail, returned, undone, overlap>> /\ OrchTypes
  BY DEF ListDependents, ReqAt, Now, OrchInv
<1>2. \A e \in edges: e = <<e[1], e[2]>> /\ e[1] \in TaskIds
  BY <1>1 DEF OrchTypes
<1>3. left \in SUBSET TaskIds /\ \A s: <<s, creq[c].task>> \in edges => s \in left
  BY <1>2
<1> HIDE DEF left
<1>4. r \in ReqTypes /\ r.pc = "examine" /\ r.left = left
  BY <1>3 DEF ReqTypes
<1> HIDE DEF r
<1>5. \A x \in OrchClients: creq'[x] = IF x = c THEN r ELSE creq[x]
  BY <1>1, OneMoves
<1>6. ASSUME ~undone', ~overlap' PROVE ~Creating /\ \A s \in TaskIds: TaskTrue(s)'
  <2>1. ~Creating /\ \A s \in TaskIds: TaskTrue(s)
    BY <1>1, <1>6 DEF OrchInv, DagInv, Completing
  <2>2. ASSUME NEW s \in TaskIds PROVE TaskTrue(s)'
    <3>1. Free(s)' <=> Free(s)
      BY <1>1 DEF Free
    <3>2. ASSUME Attended(s) PROVE Attended(s)'
      <4>1. PICK x \in OrchClients:
              \/ creq[x].pc = "dependents" /\ <<s, creq[x].task>> \in edges
              \/ creq[x].pc \in {"examine", "setReady"} /\ s \in creq[x].left
              \/ creq[x].pc = "setReady" /\ creq[x].task = s
        BY <2>1, <3>2 DEF Attended, Creating
      <4>2. CASE x # c
        BY <1>1, <1>5, <4>1, <4>2 DEF Attended
      <4>3. CASE x = c
        <5>1. creq'[c].pc = "examine" /\ s \in creq'[c].left
          BY <1>1, <1>3, <1>4, <1>5, <4>1, <4>3
        <5> QED
          BY <5>1 DEF Attended
      <4> QED
        BY <4>2, <4>3
    <3> QED
      BY <1>1, <2>1, <3>1, <3>2 DEF TaskTrue
  <2> QED
    BY <2>1, <2>2
<1>7. /\ tasks' \in [TaskIds -> TaskStatuses \cup {"none"}]
      /\ undone' \in BOOLEAN /\ overlap' \in BOOLEAN
      /\ (undone => undone') /\ (overlap => overlap')
      /\ \A s \in TaskIds: (tasks[s] # "none" => tasks'[s] # "none")
                           /\ (tasks[s] = "completed" => tasks'[s] = "completed")
  BY <1>1 DEF OrchTypes
<1> QED
  BY <1>1, <1>4, <1>6, <1>7, CompletionMoves

\* A dependent is examined: it is promoted, or it still waits.
LEMMA CompletionExamines ==
  ASSUME OrchInv, NEW c \in OrchClients, ExamineDependent(c), creq[c].left # {}
  PROVE  OrchInv'
<1>1. /\ creq[c].pc = "examine" /\ OrchTypes
      /\ UNCHANGED <<tasks, edges, mail, returned, undone, overlap>>
  BY DEF ExamineDependent, ReqAt, OrchInv
<1>2. creq[c].left \in SUBSET TaskIds
  BY <1>1, ReqHas
<1> DEFINE r(d) == [pc |-> IF tasks[d] = "pending" /\ DepsAllCompleted(TaskDeps(d))
                           THEN "setReady" ELSE "examine",
                    task |-> d, left |-> creq[c].left \ {d}]
<1>3. PICK d \in creq[c].left: creq' = [creq EXCEPT ![c] = r(d)]
  BY DEF ExamineDependent, Now
<1>4. d \in TaskIds
  BY <1>2
<1>5. DepsAllCompleted(TaskDeps(d)) <=> Free(d)
  BY <1>1, <1>4, UnblockedIsFree DEF Unblocked
<1>6. PICK q: q = r(d)
  OBVIOUS
<1>7. /\ q.pc = IF tasks[d] = "pending" /\ Free(d) THEN "setReady" ELSE "examine"
      /\ q.task = d /\ q.left = creq[c].left \ {d} /\ q \in ReqTypes
      /\ creq' = [creq EXCEPT ![c] = q]
  BY <1>2, <1>3, <1>4, <1>5, <1>6 DEF ReqTypes
<1> HIDE DEF r
<1>8. \A x \in OrchClients: creq'[x] = IF x = c THEN q ELSE creq[x]
  BY <1>1, <1>7, OneMoves
<1>9. ASSUME ~undone', ~overlap' PROVE ~Creating /\ \A s \in TaskIds: TaskTrue(s)'
  <2>1. ~Creating /\ \A s \in TaskIds: TaskTrue(s)
    BY <1>1, <1>9 DEF OrchInv, DagInv, Completing
  <2>2. ASSUME NEW s \in TaskIds PROVE TaskTrue(s)'
    <3>1. Free(s)' <=> Free(s)
      BY <1>1 DEF Free
    <3>2. ASSUME Attended(s), tasks[s] = "pending", Free(s) PROVE Attended(s)'
      <4>1. PICK x \in OrchClients:
              \/ creq[x].pc = "dependents" /\ <<s, creq[x].task>> \in edges
              \/ creq[x].pc \in {"examine", "setReady"} /\ s \in creq[x].left
              \/ creq[x].pc = "setReady" /\ creq[x].task = s
        BY <2>1, <3>2 DEF Attended, Creating
      <4>2. CASE x # c
        BY <1>1, <1>8, <4>1, <4>2 DEF Attended
      <4>3. CASE x = c /\ s # d
        <5>1. creq'[c].pc \in {"examine", "setReady"} /\ s \in creq'[c].left
          BY <1>1, <1>7, <1>8, <4>1, <4>3
        <5> QED
          BY <5>1 DEF Attended
      <4>4. CASE x = c /\ s = d
        <5>1. creq'[c].pc = "setReady" /\ creq'[c].task = s
          BY <1>7, <1>8, <3>2, <4>4
        <5> QED
          BY <5>1 DEF Attended
      <4> QED
        BY <4>2, <4>3, <4>4
    <3> QED
      BY <1>1, <2>1, <3>1, <3>2 DEF TaskTrue
  <2> QED
    BY <2>1, <2>2
<1>10. /\ tasks' \in [TaskIds -> TaskStatuses \cup {"none"}]
       /\ undone' \in BOOLEAN /\ overlap' \in BOOLEAN
       /\ (undone => undone') /\ (overlap => overlap')
       /\ \A s \in TaskIds: (tasks[s] # "none" => tasks'[s] # "none")
                            /\ (tasks[s] = "completed" => tasks'[s] = "completed")
       /\ (q.pc = "setReady" => \A e \in TaskIds: <<q.task, e>> \in edges => tasks'[e] = "completed")
       /\ q.pc \in {"examine", "setReady"}
  BY <1>1, <1>7 DEF OrchTypes, Free
<1> QED
  BY <1>1, <1>7, <1>9, <1>10, CompletionMoves

\* The promotion writes what the examination found: nobody took a completed
\* task back in between.
LEMMA CompletionPromotes ==
  ASSUME OrchInv, NEW c \in OrchClients, SetReady(c)
  PROVE  OrchInv'
<1>0. creq[c].pc = "setReady" /\ OrchTypes
  BY DEF SetReady, ReqAt, OrchInv
<1>2. creq[c].task \in TaskIds /\ creq[c].left \in SUBSET TaskIds
  BY <1>0, ReqHas
<1>3. PICK t \in TaskIds: t = creq[c].task
  BY <1>2
<1> DEFINE r == [pc |-> "examine", left |-> creq[c].left]
<1>4. /\ tasks' = [tasks EXCEPT ![t] = "ready"]
      /\ undone' = (undone \/ tasks[t] = "completed")
      /\ creq' = [creq EXCEPT ![c] = r]
      /\ UNCHANGED <<edges, mail, returned, overlap>>
  BY <1>3 DEF SetReady, Now
<1>5. r \in ReqTypes /\ r.pc = "examine" /\ r.left = creq[c].left
  BY <1>2 DEF ReqTypes
<1> HIDE DEF r
<1>6. \A x \in OrchClients: creq'[x] = IF x = c THEN r ELSE creq[x]
  BY <1>0, <1>4, OneMoves
<1>7. \A s \in TaskIds: tasks'[s] = IF s = t THEN "ready" ELSE tasks[s]
  BY <1>0, <1>4 DEF OrchTypes
<1>8. ASSUME ~undone', ~overlap'
      PROVE  /\ ~Creating /\ \A s \in TaskIds: TaskTrue(s)'
             /\ \A s \in TaskIds: tasks[s] = "completed" => tasks'[s] = "completed"
  <2>1. ~Creating /\ (\A s \in TaskIds: TaskTrue(s)) /\ ReqTrue(c)
    BY <1>0, <1>4, <1>8 DEF OrchInv, DagInv, Completing
  <2>2. \A s \in TaskIds: tasks'[s] = "completed" <=> tasks[s] = "completed"
    <3>1. tasks[t] # "completed"
      BY ONLY <1>4, <1>8
    <3> QED
      BY <1>7, <3>1
  <2>3. ASSUME NEW s \in TaskIds PROVE TaskTrue(s)'
    <3>1. Free(s)' <=> Free(s)
      BY <1>4, <2>2 DEF Free
    <3>2. CASE s = t
      <4>1. Free(t)
        BY <1>0, <1>3, <2>1 DEF ReqTrue
      <4> QED
        BY <1>7, <3>1, <3>2, <4>1 DEF TaskTrue
    <3>3. CASE s # t
      <4>1. ASSUME Attended(s) PROVE Attended(s)'
        <5>1. PICK x \in OrchClients:
                \/ creq[x].pc = "dependents" /\ <<s, creq[x].task>> \in edges
                \/ creq[x].pc \in {"examine", "setReady"} /\ s \in creq[x].left
                \/ creq[x].pc = "setReady" /\ creq[x].task = s
          BY <2>1, <4>1 DEF Attended, Creating
        <5>2. CASE x # c
          <6>1. creq'[x] = creq[x] /\ edges' = edges
            BY <1>4, <1>6, <5>2
          <6>2. \/ creq'[x].pc = "dependents" /\ <<s, creq'[x].task>> \in edges'
                \/ creq'[x].pc \in {"examine", "setReady"} /\ s \in creq'[x].left
                \/ creq'[x].pc = "setReady" /\ creq'[x].task = s
            BY <5>1, <6>1
          <6> QED
            BY <6>2 DEF Attended
        <5>3. CASE x = c
          <6>1. creq'[c].pc = "examine" /\ s \in creq'[c].left
            BY <1>0, <1>3, <1>5, <1>6, <3>3, <5>1, <5>3
          <6> QED
            BY <6>1 DEF Attended
        <5> QED
          BY <5>2, <5>3
      <4> QED
        BY <1>7, <2>1, <3>1, <3>3, <4>1 DEF TaskTrue
    <3> QED
      BY <3>2, <3>3
  <2> QED
    BY <2>1, <2>2, <2>3
<1>9. /\ tasks' \in [TaskIds -> TaskStatuses \cup {"none"}]
      /\ undone' \in BOOLEAN /\ overlap' \in BOOLEAN
      /\ (undone => undone') /\ (overlap => overlap')
      /\ \A s \in TaskIds: tasks[s] # "none" => tasks'[s] # "none"
  BY <1>0, <1>4, <1>7 DEF OrchTypes, TaskStatuses
<1> QED
  BY <1>0, <1>4, <1>5, <1>8, <1>9, CompletionMoves

\* The other steps of a task request: one is answered, a dispatch begins or is
\* marked, a task fails.
LEMMA RestOfTasks ==
  ASSUME OrchInv, NEW c \in OrchClients,
         \/ CreateInserts(c) /\ Existing = TaskIds
         \/ CreateAddsEdge(c) /\ creq[c].deps = {}
         \/ ExamineDependent(c) /\ creq[c].left = {}
         \/ \E t \in TaskIds: UpdateTask(c, t, "failed")
         \/ \E t \in TaskIds: Dispatch(c, t)
         \/ DispatchMarks(c)
  PROVE  OrchInv'
<1>1. OrchTypes
  BY DEF OrchInv
<1>2. NoReq \in ReqTypes /\ NoReq.pc = "idle"
  BY DEF ReqTypes, NoReq
<1>3. ASSUME NEW r \in ReqTypes, creq' = [creq EXCEPT ![c] = r], r.pc \in {"idle", "dispatched"},
             creq[c].pc \in ReqPCs => creq[c].pc \in {"insert", "edges", "examine"} /\ UNCHANGED tasks,
             creq[c].pc = "edges" => creq[c].deps = {},
             creq[c].pc = "examine" => creq[c].left = {},
             UNCHANGED <<edges, mail, returned, overlap>>,
             \/ tasks' = tasks /\ undone' = undone
             \/ \E t \in TaskIds, st \in {"failed", "dispatched"}:
                  /\ tasks' = [tasks EXCEPT ![t] = st]
                  /\ undone' = (undone \/ tasks[t] = "completed")
      PROVE  OrchInv'
  <2>1. /\ tasks' \in [TaskIds -> TaskStatuses \cup {"none"}]
        /\ undone' \in BOOLEAN /\ overlap' \in BOOLEAN
        /\ (undone => undone') /\ (overlap => overlap')
        /\ \A t \in TaskIds:
             /\ tasks'[t] # tasks[t] => tasks'[t] \notin {"none", "ready", "pending", "completed"}
             /\ tasks'[t] # tasks[t] /\ tasks[t] = "completed" => undone'
    <3>1. CASE tasks' = tasks /\ undone' = undone
      BY <1>1, <1>3, <3>1 DEF OrchTypes
    <3>2. ASSUME NEW t \in TaskIds, NEW st \in {"failed", "dispatched"},
                 tasks' = [tasks EXCEPT ![t] = st], undone' = (undone \/ tasks[t] = "completed")
          PROVE  /\ tasks' \in [TaskIds -> TaskStatuses \cup {"none"}]
                 /\ undone' \in BOOLEAN /\ (undone => undone')
                 /\ \A s \in TaskIds:
                      /\ tasks'[s] # tasks[s] => s = t /\ tasks'[s] = st
                      /\ tasks'[s] # tasks[s] /\ tasks[s] = "completed" => undone'
      <4>1. \A s \in TaskIds: tasks'[s] = IF s = t THEN st ELSE tasks[s]
        BY <1>1, <3>2 DEF OrchTypes
      <4>2. tasks' \in [TaskIds -> TaskStatuses \cup {"none"}]
        BY <1>1, <3>2 DEF OrchTypes, TaskStatuses
      <4>3. undone' \in BOOLEAN /\ (undone => undone') /\ (tasks[t] = "completed" => undone')
        BY <3>2
      <4> QED
        BY <4>1, <4>2, <4>3
    <3>3. overlap' \in BOOLEAN /\ (overlap => overlap')
      BY <1>1, <1>3 DEF OrchTypes
    <3> QED
      BY <1>3, <3>1, <3>2, <3>3
  <2>2. OrchTypes'
    BY <1>1, <1>3, <2>1 DEF OrchTypes
  <2>3. MailInv'
    BY <1>3, MailKept DEF OrchInv, MailInv, ReadMailWasReturned
  <2>4. r.pc \notin ReqPCs
    BY <1>3 DEF ReqPCs
  <2>5. EdgeInv' /\ DagInv'
    BY <1>3, <2>1, <2>4, PlanStands
  <2> QED
    BY <2>2, <2>3, <2>5 DEF OrchInv
<1>4. CASE CreateInserts(c) /\ Existing = TaskIds
  BY <1>2, <1>3, <1>4 DEF CreateInserts, ReqAt, Answered
<1>5. CASE CreateAddsEdge(c) /\ creq[c].deps = {}
  BY <1>2, <1>3, <1>5 DEF CreateAddsEdge, ReqAt, Answered
<1>6. CASE ExamineDependent(c) /\ creq[c].left = {}
  BY <1>2, <1>3, <1>6 DEF ExamineDependent, ReqAt, Answered
<1>7. CASE \E t \in TaskIds: UpdateTask(c, t, "failed")
  <2>1. PICK t \in TaskIds: UpdateTask(c, t, "failed")
    BY <1>7
  <2>2. /\ creq[c].pc = "idle" /\ tasks' = [tasks EXCEPT ![t] = "failed"]
        /\ undone' = (undone \/ tasks[t] = "completed")
        /\ creq' = [creq EXCEPT ![c] = NoReq] /\ UNCHANGED <<edges, mail, returned, overlap>>
    BY <1>1, <2>1 DEF UpdateTask, Asks, Answered, OrchTypes
  <2> QED
    BY <1>2, <1>3, <2>2 DEF ReqPCs
<1>8. CASE \E t \in TaskIds: Dispatch(c, t)
  <2>1. PICK t \in TaskIds: Dispatch(c, t)
    BY <1>8
  <2> DEFINE r == [pc |-> "dispatched", task |-> t]
  <2>2. r \in ReqTypes /\ r.pc = "dispatched"
    BY DEF ReqTypes
  <2>3. /\ creq[c].pc = "idle" /\ creq' = [creq EXCEPT ![c] = r]
        /\ UNCHANGED <<tasks, edges, mail, returned, undone, overlap>>
    BY <2>1 DEF Dispatch, Asks, Now
  <2> HIDE DEF r
  <2> QED
    BY <1>3, <2>2, <2>3 DEF ReqPCs
<1>9. CASE DispatchMarks(c)
  <2>1. /\ creq[c].pc = "dispatched" /\ tasks' = [tasks EXCEPT ![creq[c].task] = "dispatched"]
        /\ undone' = (undone \/ tasks[creq[c].task] = "completed")
        /\ creq' = [creq EXCEPT ![c] = NoReq] /\ UNCHANGED <<edges, mail, returned, overlap>>
    BY <1>9 DEF DispatchMarks, ReqAt, Answered
  <2>2. creq[c].task \in TaskIds
    BY <1>1, <2>1, ReqHas
  <2> QED
    BY <1>2, <1>3, <2>1, <2>2 DEF ReqPCs
<1> QED
  BY <1>4, <1>5, <1>6, <1>7, <1>8, <1>9

\* Every step of a request keeps the invariant.
LEMMA OrchSteps == OrchInv /\ [OrchNext]_orchVars => OrchInv'
<1> SUFFICES ASSUME OrchInv, [OrchNext]_orchVars PROVE OrchInv'
  OBVIOUS
<1>1. CASE UNCHANGED orchVars
  BY <1>1 DEF orchVars, OrchInv, OrchTypes, MailInv, ReadMailWasReturned, EdgeInv, DagInv, Creating,
              Completing, ReqTrue, TaskTrue, Free, Attended, DepsAllCompleted
<1>2. ASSUME NEW c \in OrchClients, TaskRequests(c) PROVE OrchInv'
  <2>1. CASE \E deps \in SUBSET Existing: CreateChecks(c, deps)
    BY <1>2, <2>1, CreationBegins
  <2>2. CASE CreateInserts(c)
    BY <1>2, <2>2, CreationInserts, RestOfTasks
  <2>3. CASE CreateAddsEdge(c)
    BY <1>2, <2>3, CreationAddsEdge, RestOfTasks
  <2>4. CASE \E t \in TaskIds, st \in {"completed", "failed"}: UpdateTask(c, t, st)
    BY <1>2, <2>4, CompletionBegins, RestOfTasks
  <2>5. CASE ListDependents(c)
    BY <1>2, <2>5, CompletionLists
  <2>6. CASE ExamineDependent(c)
    BY <1>2, <2>6, CompletionExamines, RestOfTasks
  <2>7. CASE SetReady(c)
    BY <1>2, <2>7, CompletionPromotes
  <2>8. CASE (\E t \in TaskIds: Dispatch(c, t)) \/ DispatchMarks(c)
    BY <1>2, <2>8, RestOfTasks
  <2> QED
    BY <1>2, <2>1, <2>2, <2>3, <2>4, <2>5, <2>6, <2>7, <2>8 DEF TaskRequests
<1> QED
  BY <1>1, <1>2, MailSteps DEF OrchNext

\* The invariant says what the dependency graph promises.
LEMMA OrchHolds == OrchInv => OrchTypeOK /\ DagResolves /\ ReadMailWasReturned
<1> SUFFICES ASSUME OrchInv PROVE OrchTypeOK /\ DagResolves /\ ReadMailWasReturned
  OBVIOUS
<1>0. OrchTypeOK
  <2>1. OrchTypes
    BY DEF OrchInv
  <2> QED
    BY <2>1 DEF OrchTypes, OrchTypeOK
<1>1. ASSUME ~undone, ~overlap, NEW t \in TaskIds
      PROVE  /\ tasks[t] = "ready" => Unblocked(t)
             /\ AtRest /\ tasks[t] = "pending" => ~Unblocked(t)
  <2>1. TaskTrue(t) /\ (Unblocked(t) <=> Free(t))
    BY <1>1, UnblockedIsFree DEF OrchInv, DagInv
  <2>2. AtRest => ~Attended(t)
    BY DEF AtRest, Attended
  <2> QED
    BY <2>1, <2>2 DEF TaskTrue
<1> QED
  BY <1>0, <1>1 DEF DagResolves, OrchInv, MailInv

-------------------------------------------------------------------------------
(* Both together.                                                          *)

\* However requests, the watchdog and finished steps overlap: a goal stands
\* where its furthest child does unless it is about to hear, cards and sessions
\* point at each other, tasks are ready exactly when nothing blocks them, and
\* no mail is marked read that a check did not hand out (routes/board.rs,
\* agentum-watchdog, store orchestration.rs).
THEOREM PlansAgree == MCSpec => []PlansResolve
<1>1. MCInit => BoardInv /\ OrchInv
  BY BoardStarts, OrchStarts DEF MCInit
<1>2. BoardInv /\ OrchInv /\ [MCNext]_MCVars => (BoardInv /\ OrchInv)'
  <2> SUFFICES ASSUME BoardInv, OrchInv, [MCNext]_MCVars
               PROVE  BoardInv' /\ OrchInv'
    OBVIOUS
  <2>1. [BoardNext]_boardVars
    BY DEF MCNext, MCVars, Only
  <2>2. [OrchNext]_orchVars
    BY DEF MCNext, MCVars, Only
  <2> QED
    BY <2>1, <2>2, BoardSteps, OrchSteps
<1>3. BoardInv /\ OrchInv => PlansResolve
  BY BoardHolds, OrchHolds DEF PlansResolve
<1> QED
  BY <1>1, <1>2, <1>3, PTL DEF MCSpec

\* Every part of the daemon that MCDaemon runs stays within its types.
THEOREM DaemonTypes == MCSpec => []DaemonTypeOK
<1> DEFINE Inv == KeptInOrder /\ BoardInv /\ OrchInv
<1>1. MCInit => Inv
  BY KeptStarts, BoardStarts, OrchStarts DEF MCInit
<1>2. Inv /\ [MCNext]_MCVars => Inv'
  <2>1. [MCNext]_MCVars => [BoardNext]_boardVars /\ [OrchNext]_orchVars
    BY DEF MCNext, MCVars, Only
  <2> QED
    BY <2>1, KeptSteps, BoardSteps, OrchSteps
<1>3. Inv => DaemonTypeOK
  BY KeptHolds, BoardHolds, OrchHolds DEF DaemonTypeOK
<1> QED
  BY <1>1, <1>2, <1>3, PTL DEF MCSpec
===============================================================================
