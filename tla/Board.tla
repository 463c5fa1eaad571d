-------------------------------- MODULE Board --------------------------------
(***************************************************************************)
(* The task board, its goals, and the reconciler that derives a goal's     *)
(* status from its children.                                               *)
(*                                                                         *)
(* Cards and sessions point at each other from two tables.  A PATCH is not *)
(* one transaction: it checks the column's required fields against the row *)
(* it read, moves the binding, writes the row, may spawn a session for the *)
(* card, and only then announces the change on the broadcast bus, from     *)
(* which the reconciler lives.  The bus overwrites its oldest event when   *)
(* it is full.                                                             *)
(***************************************************************************)
EXTENDS Integers, Sequences, FiniteSets

CONSTANTS
  GoalCard,      \* the card with lbl = goal
  FeatureCards,  \* the other cards
  BoardSessions, \* session ids, used once each
  Patches,       \* PATCH requests that may be in flight together
  BusSlots,      \* capacity of the broadcast bus
  MaxCalls       \* bound: API calls

ASSUME BoardAssumption ==
  /\ GoalCard \notin FeatureCards
  /\ BusSlots \in Nat \ {0} /\ MaxCalls \in Nat

VARIABLES
  card,       \* each card's row; ids are not used again once gone
  sessCard,   \* sessions.card_id
  sessState,  \* "absent", "idle", "running" or "deleted"
  ruleOff,    \* columns whose rule was overridden with []
  patch,      \* the PATCH requests in flight
  bus,        \* events the reconciler has not taken yet
  plannerSeen,\* goals whose first child the reconciler has handled
  stopAsked,  \* tmux targets the reconciler asked to stop
  unheard,    \* the goal's children changed and no event says so
  calls       \* API calls made so far

boardVars == <<card, sessCard, sessState, ruleOff, patch, bus, plannerSeen,
               stopAsked, unheard, calls>>

NoCard == "noCard"
NoSession == "noSession"
AllCards == FeatureCards \cup {GoalCard}
Columns == {"todo", "doing", "review", "done"}

\* Ids are never the column's NULL.
ASSUME BoardNames == NoCard \notin AllCards /\ NoSession \notin BoardSessions

EmptyRow ==
  [live |-> FALSE, status |-> "todo", parent |-> NoCard, session |-> NoSession,
   ready |-> FALSE, claimed |-> FALSE, comment |-> FALSE, gone |-> FALSE]
IdlePatch == [pc |-> "idle"]

BoardInit ==
  /\ card = [c \in AllCards |-> EmptyRow]
  /\ sessCard = [s \in BoardSessions |-> NoCard]
  /\ sessState = [s \in BoardSessions |-> "absent"]
  /\ ruleOff = {}
  /\ patch = [r \in Patches |-> IdlePatch]
  /\ bus = <<>>
  /\ plannerSeen = FALSE /\ stopAsked = {} /\ unheard = FALSE /\ calls = 0

-----------------------------------------------------------------------------
(* Helpers                                                                 *)

Call == calls < MaxCalls /\ calls' = calls + 1

\* Fault: the bus takes one event more than it has room for.
PublishOneMore(ev) ==
  LET q == IF Len(bus) <= BusSlots THEN bus ELSE Tail(bus)
  IN bus' = Append(q, ev)

\* A broadcast to a full bus drops the oldest event.
Publish(ev) ==
  LET q == IF Len(bus) < BusSlots THEN bus ELSE Tail(bus)
  IN bus' = Append(q, ev)

\* The reconciler loses what the bus drops.
Dropped == Len(bus) = BusSlots /\ Head(bus).parent = GoalCard

BoardEvent(kind, parent) == [kind |-> kind, parent |-> parent]

\* required_fields_for, and validate_against over the merged row.
MayMove(row, target) ==
  \/ target \in ruleOff
  \/ target \in {"todo", "review"}
  \/ target = "doing" /\ row.ready /\ row.claimed
  \/ target = "done" /\ (row.session # NoSession \/ row.comment)

FreshSession == {s \in BoardSessions: sessState[s] = "absent"}

Children == {c \in FeatureCards: card[c].live /\ card[c].parent = GoalCard}

\* The store's rank of a status (an unknown one counts as todo).
SqlRank(st) ==
  CASE st = "todo" -> 0 [] st = "doing" -> 1 [] st = "done" -> 2 [] OTHER -> 0

\* The watchdog's rank (an unknown one is negative).
StatusRank(st) == IF st \in {"todo", "doing", "done"} THEN SqlRank(st) ELSE -1

MaxChildRank ==
  IF Children = {} THEN 0
  ELSE CHOOSE n \in 0..2:
         /\ \E c \in Children: SqlRank(card[c].status) = n
         /\ \A c \in Children: SqlRank(card[c].status) <= n

StatusOfRank(n) == <<"todo", "doing", "done">>[n + 1]

\* A session's pane carries its name and id; the reconciler derives a target
\* from the name alone.
ManagedTarget(s) == [name |-> "planner", id |-> s]
NameTarget == [name |-> "planner", id |-> NoSession]

-----------------------------------------------------------------------------
(* Creating and deleting                                                   *)

CreateGoal(planner) ==
  /\ Call /\ ~card[GoalCard].live /\ ~card[GoalCard].gone
  /\ card' = [card EXCEPT ![GoalCard] =
                [EmptyRow EXCEPT !.live = TRUE, !.ready = TRUE]]
  /\ IF planner = NoSession
     THEN UNCHANGED <<sessCard, sessState>>
     ELSE /\ planner \in FreshSession
          /\ sessCard' = [sessCard EXCEPT ![planner] = GoalCard]
          /\ sessState' = [sessState EXCEPT ![planner] = "running"]
  /\ UNCHANGED <<ruleOff, patch, bus, plannerSeen, stopAsked, unheard>>

\* create_board_item, one transaction: a session named in the body must be
\* unbound.
InsertCard(c, row) ==
  /\ ~card[c].live /\ ~card[c].gone
  /\ row.parent = GoalCard => card[GoalCard].live
  /\ row.session # NoSession => /\ sessState[row.session] \in {"idle", "running"}
                               /\ sessCard[row.session] = NoCard
  /\ card' = [card EXCEPT ![c] = row]
  /\ sessCard' = [s \in BoardSessions |->
                    IF s = row.session THEN c ELSE sessCard[s]]

\* POST /api/board
CreateCard(c, st, parent, s, ready) ==
  /\ Call
  /\ LET row == [EmptyRow EXCEPT !.live = TRUE, !.status = st, !.ready = ready,
                                 !.parent = parent, !.session = s]
     IN MayMove(row, st) /\ InsertCard(c, row)
  /\ Publish(BoardEvent("created", parent))
  /\ unheard' = (unheard \/ Dropped)
  /\ UNCHANGED <<sessState, ruleOff, patch, plannerSeen, stopAsked>>

\* The parent is read before the row goes, and travels with the event.
DeleteCard(c) ==
  /\ Call /\ card[c].live
  /\ card' = [card EXCEPT ![c] = [EmptyRow EXCEPT !.gone = TRUE]]
  /\ Publish(BoardEvent("deleted", card[c].parent))
  /\ unheard' = IF c = GoalCard THEN FALSE ELSE unheard \/ Dropped
  /\ UNCHANGED <<sessCard, sessState, ruleOff, patch, plannerSeen, stopAsked>>

\* A plain session, bound to nothing.
CreateSession(s) ==
  /\ Call /\ sessState[s] = "absent"
  /\ sessState' = [sessState EXCEPT ![s] = "idle"]
  /\ UNCHANGED <<card, sessCard, ruleOff, patch, bus, plannerSeen, stopAsked,
                 unheard>>

\* Nothing clears the card that points at it.
DeleteSession(s) ==
  /\ Call /\ sessState[s] \in {"idle", "running"}
  /\ sessState' = [sessState EXCEPT ![s] = "deleted"]
  /\ sessCard' = [sessCard EXCEPT ![s] = NoCard]
  /\ UNCHANGED <<card, ruleOff, patch, bus, plannerSeen, stopAsked, unheard>>

Annotate(c) ==
  /\ Call /\ card[c].live
  /\ card' = [card EXCEPT ![c].comment = TRUE]
  /\ UNCHANGED <<sessCard, sessState, ruleOff, patch, bus, plannerSeen,
                 stopAsked, unheard>>

\* The comment bridge: an agent's event becomes a comment on the card of its
\* session, goals excepted.  Whether it comes through is the bus's matter.
SystemComment(s) ==
  /\ sessState[s] \in {"idle", "running"} /\ sessCard[s] \in FeatureCards
  /\ card[sessCard[s]].live
  /\ card' = [card EXCEPT ![sessCard[s]].comment = TRUE]
  /\ UNCHANGED <<sessCard, sessState, ruleOff, patch, bus, plannerSeen,
                 stopAsked, unheard, calls>>

Claim(c) ==
  /\ Call /\ card[c].live /\ ~card[c].claimed
  /\ card' = [card EXCEPT ![c].claimed = TRUE]
  /\ UNCHANGED <<sessCard, sessState, ruleOff, patch, bus, plannerSeen,
                 stopAsked, unheard>>

Release(c) ==
  /\ Call /\ card[c].live /\ card[c].claimed
  /\ card' = [card EXCEPT ![c].claimed = FALSE]
  /\ UNCHANGED <<sessCard, sessState, ruleOff, patch, bus, plannerSeen,
                 stopAsked, unheard>>

SetRule(col) ==
  /\ Call
  /\ ruleOff' = IF col \in ruleOff THEN ruleOff \ {col} ELSE ruleOff \cup {col}
  /\ UNCHANGED <<card, sessCard, sessState, patch, bus, plannerSeen, stopAsked,
                 unheard>>

\* The harness moves a board card: a write without an event.
TrackerTransition(c, st) ==
  /\ Call /\ card[c].live
  /\ card' = [card EXCEPT ![c].status = st]
  /\ unheard' = (unheard \/ card[c].parent = GoalCard)
  /\ UNCHANGED <<sessCard, sessState, ruleOff, patch, bus, plannerSeen,
                 stopAsked>>

-----------------------------------------------------------------------------
(* PATCH /api/board/{id}                                                   *)

\* Read the row and check the gate on the merged view of it.  `to` is the new
\* status, `bind` the new session (the card itself: leave it), `detach` drops
\* the parent.
PatchReads(r, c, to, bind, detach) ==
  /\ Call /\ patch[r].pc = "idle" /\ card[c].live
  /\ LET row == [card[c] EXCEPT !.session = IF bind = c THEN @ ELSE bind]
     IN card[c].status = to \/ MayMove(row, to)
  /\ patch' = [patch EXCEPT ![r] =
                 [pc |-> "transfer", card |-> c, to |-> to, bind |-> bind,
                  detach |-> detach, moves |-> card[c].status # to]]
  /\ UNCHANGED <<card, sessCard, sessState, ruleOff, bus, plannerSeen,
                 stopAsked, unheard>>

\* transfer_card_binding, one transaction.
PatchTransfers(r) ==
  /\ patch[r].pc = "transfer"
  /\ LET c == patch[r].card
         s == patch[r].bind
         old == card[c].session
     IN \/ /\ s = c
           /\ patch' = [patch EXCEPT ![r].pc = "write"]
           /\ UNCHANGED <<card, sessCard>>
        \/ /\ s # c /\ card[c].live
           /\ s \in BoardSessions => /\ sessState[s] \in {"idle", "running"}
                                     /\ sessCard[s] \in {NoCard, c}
           /\ sessCard' = [x \in BoardSessions |->
                             IF x = s THEN c
                             ELSE IF x = old THEN NoCard ELSE sessCard[x]]
           /\ card' = [card EXCEPT ![c].session = s]
           /\ patch' = [patch EXCEPT ![r].pc = "write"]
        \/ /\ s # c
           /\ \/ ~card[c].live
              \/ /\ s \in BoardSessions
                 /\ \/ sessState[s] \notin {"idle", "running"}
                    \/ sessCard[s] \notin {NoCard, c}
           /\ patch' = [patch EXCEPT ![r] = IdlePatch]
           /\ UNCHANGED <<card, sessCard>>
  /\ UNCHANGED <<sessState, ruleOff, bus, plannerSeen, stopAsked, unheard,
                 calls>>

\* patch_board_item; then the card may need a session.
PatchWrites(r) ==
  /\ patch[r].pc = "write"
  /\ LET c == patch[r].card
         row == [card[c] EXCEPT !.status = patch[r].to,
                                !.parent = IF patch[r].detach THEN NoCard
                                                              ELSE @]
         spawn == /\ patch[r].moves /\ patch[r].to = "doing"
                  /\ card[c].session = NoSession
     IN IF card[c].live
        THEN /\ card' = [card EXCEPT ![c] = row]
             /\ patch' = [patch EXCEPT ![r] =
                            [pc |-> IF spawn THEN "spawn" ELSE "emit",
                             card |-> c, parent |-> row.parent]]
             /\ unheard' = \/ unheard
                           \/ patch[r].detach /\ card[c].parent = GoalCard
                           \/ c = GoalCard
        ELSE /\ patch' = [patch EXCEPT ![r] = IdlePatch]
             /\ UNCHANGED <<card, unheard>>
  /\ UNCHANGED <<sessCard, sessState, ruleOff, bus, plannerSeen, stopAsked,
                 calls>>

\* claim_card inserts the session and binds it in one transaction, unless the
\* card went away or got a session meanwhile.
ClaimCard(c, s, status) ==
  /\ card[c].live /\ card[c].session = NoSession
  /\ s \in FreshSession
  /\ sessState' = [sessState EXCEPT ![s] = status]
  /\ sessCard' = [sessCard EXCEPT ![s] = c]
  /\ card' = [card EXCEPT ![c].session = s]

\* An error (no workdir, conflict, failed launch) ends the request without an
\* event.
PatchSpawns(r) ==
  /\ patch[r].pc = "spawn"
  /\ LET c == patch[r].card
     IN \/ /\ card[c].ready
           /\ \E s \in BoardSessions, launched \in BOOLEAN:
                /\ ClaimCard(c, s, IF launched THEN "running" ELSE "idle")
                /\ patch' = [patch EXCEPT ![r] =
                               IF launched THEN [@ EXCEPT !.pc = "emit"]
                                           ELSE IdlePatch]
                /\ unheard' = (unheard \/ (~launched /\ card[c].parent = GoalCard))
        \/ /\ ~card[c].live \/ card[c].session # NoSession \/ ~card[c].ready
           /\ patch' = [patch EXCEPT ![r] = IdlePatch]
           /\ unheard' = (unheard \/ (card[c].live /\ card[c].parent = GoalCard))
           /\ UNCHANGED <<card, sessCard, sessState>>
  /\ UNCHANGED <<ruleOff, bus, plannerSeen, stopAsked, calls>>

PatchEmits(r) ==
  /\ patch[r].pc = "emit"
  /\ patch' = [patch EXCEPT ![r] = IdlePatch]
  /\ Publish(BoardEvent("updated", patch[r].parent))
  /\ unheard' = (unheard \/ Dropped)
  /\ UNCHANGED <<card, sessCard, sessState, ruleOff, plannerSeen, stopAsked,
                 calls>>

-----------------------------------------------------------------------------
(* The goal reconciler                                                     *)

Reconcile ==
  /\ bus # <<>>
  /\ bus' = Tail(bus)
  /\ LET ev == Head(bus)
         ours == ev.parent = GoalCard /\ card[GoalCard].live
         first == ours /\ ev.kind = "created" /\ ~plannerSeen
         target == StatusOfRank(MaxChildRank)
     IN /\ plannerSeen' = (plannerSeen \/ first)
        /\ stopAsked' =
             IF first /\ \E s \in BoardSessions: sessCard[s] = GoalCard
                                                 /\ sessState[s] = "running"
             THEN stopAsked \cup {NameTarget} ELSE stopAsked
        /\ card' = IF ours /\ StatusRank(card[GoalCard].status)
                                # StatusRank(target)
                   THEN [card EXCEPT ![GoalCard].status = target] ELSE card
        /\ unheard' = IF ours THEN FALSE ELSE unheard
  /\ UNCHANGED <<sessCard, sessState, ruleOff, patch, calls>>

Requests(r) ==
  \/ \E c \in AllCards, to \in {"todo", "doing", "done"}, detach \in BOOLEAN:
       \E bind \in BoardSessions \cup {NoSession, c}:
         PatchReads(r, c, to, bind, detach)
  \/ PatchTransfers(r) \/ PatchWrites(r) \/ PatchSpawns(r) \/ PatchEmits(r)

BoardNext ==
  \/ \E p \in FreshSession \cup {NoSession}: CreateGoal(p)
  \/ \E c \in FeatureCards, st \in {"todo", "doing"}, ready \in BOOLEAN,
        parent \in {NoCard, GoalCard}, s \in BoardSessions \cup {NoSession}:
       CreateCard(c, st, parent, s, ready)
  \/ \E c \in AllCards: DeleteCard(c) \/ Annotate(c) \/ Claim(c) \/ Release(c)
  \/ \E s \in BoardSessions:
       CreateSession(s) \/ DeleteSession(s) \/ SystemComment(s)
  \/ \E col \in {"doing", "done"}: SetRule(col)
  \/ \E c \in FeatureCards, st \in Columns: TrackerTransition(c, st)
  \/ \E r \in Patches: Requests(r)
  \/ Reconcile

BoardSpec == BoardInit /\ [][BoardNext]_boardVars

-----------------------------------------------------------------------------
(* Properties                                                              *)

\* The variables stay within their types.
BoardTypeOK ==
  /\ \A c \in AllCards:
       /\ card[c].status \in Columns
       /\ card[c].parent \in {NoCard, GoalCard}
       /\ card[c].session \in BoardSessions \cup {NoSession}
  /\ \A s \in BoardSessions:
       /\ sessCard[s] \in AllCards \cup {NoCard}
       /\ sessState[s] \in {"absent", "idle", "running", "deleted"}
  /\ \A r \in Patches:
       patch[r].pc \in {"idle", "transfer", "write", "spawn", "emit"}
  /\ Len(bus) <= BusSlots

\* A card that names a session is the card that session names, so no session
\* serves two cards, however requests that create, rebind and auto-spawn
\* interleave.
BindingIsMutual ==
  \A c \in AllCards, s \in BoardSessions:
    (card[c].live /\ card[c].session = s /\ sessState[s] # "deleted")
      => sessCard[s] = c

\* Once the reconciler has taken every event, a goal's status is the highest
\* of its children's, unless the last change was one that is never announced
\* (a dropped event, a failed auto-spawn, a tracker write, a move of the goal
\* itself or away from it).
Announced(r) == patch[r].pc \notin {"spawn", "emit"}

GoalFollowsChildren ==
  (/\ card[GoalCard].live /\ ~unheard
   /\ \A i \in 1..Len(bus): bus[i].parent # GoalCard
   /\ \A r \in Patches: Announced(r))
    => StatusRank(card[GoalCard].status) = MaxChildRank

-----------------------------------------------------------------------------
(* Statements the code does not keep: TLC refutes each of them, see the    *)
(* README, "What does not hold".                                           *)

\* When the first child of a goal arrives the planner's own pane is asked to
\* stop ("calls graceful_stop on the planner session bound via session.card_id
\* = goal.id", agentum-watchdog lib.rs).
PlannerIsStopped ==
  \A s \in BoardSessions:
    (stopAsked # {} /\ sessCard[s] = GoalCard /\ sessState[s] = "running")
      => ManagedTarget(s) \in stopAsked
=============================================================================
