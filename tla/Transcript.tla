---------------------------- MODULE Transcript ----------------------------
(***************************************************************************)
(* The task panel of a claude session: the JSONL transcript is parsed into *)
(* todos, sub-agent tasks and a plan (agentum-core/transcript.rs).  A      *)
(* local session keeps a slot with a byte cursor, fed by file events and   *)
(* by every poll (transcript_store.rs); an SSH session is read whole at    *)
(* every poll and only remembers where the last reset was.                 *)
(*                                                                         *)
(* A line of the file is two bytes: its head and its tail, which carries   *)
(* the newline.  The writer may stop between them.                         *)
(***************************************************************************)
EXTENDS Integers, Sequences, FiniteSets, SequencesExt

CONSTANTS Polls,      \* requests for the panel
          Blocks,     \* the content blocks a line may hold, see TranscriptBlock
          MaxLines,   \* bound: lines of one file
          MaxInodes,  \* bound: files the agent creates at the path
          MaxResets,  \* bound: resets of the panel
          MaxPolls    \* bound: polls that are started

ASSUME TranscriptAssumption ==
    {MaxLines, MaxInodes} \subseteq Nat \ {0} /\ {MaxResets, MaxPolls} \subseteq Nat

VARIABLES
    where,      \* "local" or "ssh": where the session runs
    file,       \* the transcript: inode (0: none yet) and bytes
    slot,       \* the local slot of the session
    remoteCursor,     \* the RemoteCursor of the session
    poll,       \* the requests in flight
    resets,     \* counts resets
    polls,      \* counts polls
    cleared,    \* history: end of what a reset has consumed in this file
    raced       \* history: the cursor and the identity of the slot come from
                \* different reads: of two starters, or around a replacement

transcriptVars ==
    <<where, file, slot, remoteCursor, poll, resets, polls, cleared, raced>>

TranscriptBlock ==
    [kind : {"create", "result", "update", "agent", "plan", "clear"},
     id : Nat]

NoTasks == [todos |-> <<>>, tasks |-> <<>>, plan |-> FALSE]
NoFile == [ino |-> 0, bytes |-> <<>>]
NoSlot == [on |-> FALSE, state |-> NoTasks, cursor |-> 0, base |-> 0,
           ino |-> 0]
NoPoll == [pc |-> "idle", state |-> NoTasks, cursor |-> 0, bytes |-> <<>>]

(***************************************************************************)
(* apply_line: what one content block does to the panel.  An update names  *)
(* the number that the result of a create bound to the todo.               *)
(***************************************************************************)
ApplyToolUse(st, b) ==
    CASE b.kind = "create" ->
            IF \E i \in DOMAIN st.todos : st.todos[i].tool = b.id
              THEN st
              ELSE [st EXCEPT !.todos = Append(@,
                      [tool |-> b.id, task |-> 0, done |-> FALSE])]
      [] b.kind = "update" ->
            LET hit == {i \in DOMAIN st.todos : st.todos[i].task = b.id}
            IN  IF hit = {}
                  THEN st
                  ELSE [st EXCEPT !.todos[CHOOSE i \in hit :
                                   \A j \in hit : i <= j].done = TRUE]
      [] b.kind = "plan" -> [st EXCEPT !.plan = TRUE]
      [] b.kind = "agent" ->
            IF \E i \in DOMAIN st.tasks : st.tasks[i].id = b.id
              THEN st
              ELSE [st EXCEPT !.tasks =
                      Append(@, [id |-> b.id, running |-> TRUE])]
      [] OTHER -> st

(***************************************************************************)
(* A result belongs to the todo that waits for its number, and only        *)
(* otherwise to a sub-agent.                                               *)
(***************************************************************************)
ApplyToolResult(st, b) ==
    LET todo == {i \in DOMAIN st.todos : st.todos[i].tool = b.id}
        task == {i \in DOMAIN st.tasks : st.tasks[i].id = b.id}
    IN  IF todo # {}
          THEN [st EXCEPT !.todos[CHOOSE i \in todo : TRUE] =
                   [@ EXCEPT !.task = b.id, !.tool = 0]]
          ELSE IF task # {}
                 THEN [st EXCEPT !.tasks[CHOOSE i \in task : TRUE].running =
                          FALSE]
                 ELSE st

ApplyText(st, b) == IF b.kind = "clear" THEN NoTasks ELSE st

ApplyLine(st, b) ==
    CASE b.kind = "result" -> ApplyToolResult(st, b)
      [] b.kind = "clear" -> ApplyText(st, b)
      [] OTHER -> ApplyToolUse(st, b)

---------------------------------------------------------------------------
(* Reading the file.                                                       *)

Whole(bytes) ==
    {i \in 1 .. Len(bytes) - 1 :
        bytes[i].half = "head" /\ bytes[i + 1].half = "tail"}

(***************************************************************************)
(* The bytes up to the last newline.                                       *)
(***************************************************************************)
CompleteLen(bytes) ==
    IF bytes # <<>> /\ Last(bytes).half = "head"
      THEN Len(bytes) - 1
      ELSE Len(bytes)

(***************************************************************************)
(* The lines that lie wholly behind byte from, applied to st.  A line cut  *)
(* in half does not parse and is ignored.                                  *)
(***************************************************************************)
ParseFrom(st, bytes, from) ==
    LET parsed[i \in 0 .. Len(bytes)] ==
          IF i = 0 THEN st
          ELSE IF i - 1 > from /\ i - 1 \in Whole(bytes)
                 THEN ApplyLine(parsed[i - 1], bytes[i - 1].block)
                 ELSE parsed[i - 1]
    IN  parsed[Len(bytes)]

\* Fault: the cursor of a fresh slot is put behind a line that is still being
\* written.
ParseFullToEnd(bytes) ==
    [state |-> ParseFrom(NoTasks, bytes, 0), cursor |-> Len(bytes)]

ParseFull(bytes) ==
    [state |-> ParseFrom(NoTasks, bytes, 0), cursor |-> CompleteLen(bytes)]

---------------------------------------------------------------------------
\* The variables stay within their types.
TranscriptTypeOK ==
    /\ where \in {"local", "ssh"}
    /\ file.ino \in 0 .. MaxInodes
    /\ Len(file.bytes) <= 2 * MaxLines
    /\ slot.on \in BOOLEAN /\ slot.cursor \in 0 .. 2 * MaxLines
    /\ slot.base <= slot.cursor
    /\ remoteCursor.resetAt <= 2 * MaxLines
    /\ \A p \in Polls :
          poll[p].pc \in {"idle", "parse", "insert", "reconcile", "read",
                          "start"}
    /\ resets \in 0 .. MaxResets
    /\ polls \in 0 .. MaxPolls
    /\ cleared \in 0 .. 2 * MaxLines
    /\ raced \in BOOLEAN

TranscriptInit ==
    /\ where \in {"local", "ssh"}
    /\ file = NoFile
    /\ slot = NoSlot
    /\ remoteCursor = [seen |-> <<>>, resetAt |-> 0, known |-> FALSE]
    /\ poll = [p \in Polls |-> NoPoll]
    /\ resets = 0
    /\ polls = 0
    /\ cleared = 0
    /\ raced = FALSE

SetPoll(p, r) == poll' = [poll EXCEPT ![p] = r]

(***************************************************************************)
(* The agent writes half a line: the head of a new one or the rest of the  *)
(* last.                                                                   *)
(***************************************************************************)
AgentWrites ==
    /\ \/ /\ CompleteLen(file.bytes) = Len(file.bytes)
          /\ Len(file.bytes) < 2 * MaxLines
          /\ \E b \in Blocks :
                file' = [ino |-> IF file.ino = 0 THEN 1 ELSE file.ino,
                         bytes |-> Append(file.bytes,
                                      [half |-> "head", block |-> b])]
       \/ /\ CompleteLen(file.bytes) < Len(file.bytes)
          /\ file' = [file EXCEPT !.bytes =
                         Append(@, [half |-> "tail", block |-> Last(@).block])]
    /\ UNCHANGED <<where, slot, remoteCursor, poll, resets, polls, cleared,
                   raced>>

(***************************************************************************)
(* The agent replaces the file by another one, of whole lines.  What a     *)
(* starter read of the old one is then stale.                              *)
(***************************************************************************)
AgentReplaces ==
    /\ file.ino \in 1 .. MaxInodes - 1
    /\ \E b \in Blocks, n \in 0 .. 1 :
          file' = [ino |-> file.ino + 1,
                   bytes |-> IF n = 0 THEN <<>>
                             ELSE <<[half |-> "head", block |-> b],
                                    [half |-> "tail", block |-> b]>>]
    /\ cleared' = 0
    /\ raced' = (raced \/ \E p \in Polls : poll[p].pc = "insert")
    /\ UNCHANGED <<where, slot, remoteCursor, poll, resets, polls>>

(***************************************************************************)
(* refresh: a replaced or shrunk file starts over; of the rest, only what  *)
(* lies behind the cursor and before the last newline is applied.          *)
(***************************************************************************)
StartOver(s) == [s EXCEPT !.cursor = 0, !.base = 0, !.state = NoTasks]

SameFile(s) ==
    LET t == IF s.ino # 0 /\ s.ino # file.ino THEN StartOver(s) ELSE s
        u == IF Len(file.bytes) < t.cursor THEN StartOver(t) ELSE t
    IN  [u EXCEPT !.ino = file.ino]

Refreshed(s) ==
    LET u == SameFile(s)
        end == CompleteLen(file.bytes)
    IN  IF ~s.on \/ file.ino = 0
          THEN s
          ELSE IF end <= u.cursor
                 THEN u
                 ELSE [u EXCEPT !.state = ParseFrom(@, file.bytes, u.cursor),
                                !.cursor = end]

(***************************************************************************)
(* A file event reaches the thread of the watcher.                         *)
(***************************************************************************)
WatcherRefresh ==
    /\ slot.on
    /\ slot' = Refreshed(slot)
    /\ UNCHANGED <<where, file, remoteCursor, poll, resets, polls, cleared,
                   raced>>

---------------------------------------------------------------------------
(* get_agent_tasks for a local session.                                    *)

PollStarts(p) ==
    /\ poll[p].pc = "idle"
    /\ polls < MaxPolls
    /\ polls' = polls + 1
    /\ SetPoll(p, [NoPoll EXCEPT !.pc = IF where = "ssh" THEN "read"
                                     ELSE IF slot.on THEN "reconcile"
                                     ELSE "parse"])
    /\ UNCHANGED <<where, file, slot, remoteCursor, resets, cleared, raced>>

(***************************************************************************)
(* ensure_started found no slot: without the lock, it watches the          *)
(* directory and parses the whole file ...                                 *)
(***************************************************************************)
StartParses(p) ==
    /\ poll[p].pc = "parse"
    /\ LET full == ParseFull(file.bytes)
       IN  SetPoll(p, [poll[p] EXCEPT !.pc = "insert", !.state = full.state,
                                   !.cursor = full.cursor])
    /\ UNCHANGED <<where, file, slot, remoteCursor, resets, polls, cleared,
                   raced>>

(***************************************************************************)
(* ... and inserts the slot, over one that another starter has inserted,   *)
(* with the identity the file has by now.                                  *)
(***************************************************************************)
StartInserts(p) ==
    /\ poll[p].pc = "insert"
    /\ slot' = [on |-> TRUE, state |-> poll[p].state, base |-> 0,
                cursor |-> poll[p].cursor, ino |-> file.ino]
    /\ raced' = (raced \/ slot.on)
    /\ SetPoll(p, [poll[p] EXCEPT !.pc = "reconcile"])
    /\ UNCHANGED <<where, file, remoteCursor, resets, polls, cleared>>

(***************************************************************************)
(* reconcile makes up for lost file events before the answer is taken.     *)
(***************************************************************************)
ReconcileSlot(p) ==
    /\ poll[p].pc = "reconcile"
    /\ slot' = Refreshed(slot)
    /\ SetPoll(p, NoPoll)
    /\ UNCHANGED <<where, file, remoteCursor, resets, polls, cleared, raced>>

---------------------------------------------------------------------------
(* get_agent_tasks for an SSH session: the whole file is read, and         *)
(* remote_parse_start says how much of it a reset has consumed.            *)

RemoteRead(p) ==
    /\ poll[p].pc = "read"
    /\ \/ /\ file.ino # 0
          /\ SetPoll(p, [poll[p] EXCEPT !.pc = "start",
                                     !.bytes = file.bytes])
       \/ SetPoll(p, NoPoll)         \* no file yet, or the host is unavailable
    /\ UNCHANGED <<where, file, slot, remoteCursor, resets, polls, cleared,
                   raced>>

Replaced(bytes) == ~IsPrefix(remoteCursor.seen, bytes)

RemoteAnswer(p) ==
    /\ poll[p].pc = "start"
    /\ remoteCursor' = [seen |-> poll[p].bytes, known |-> TRUE,
                  resetAt |-> IF Replaced(poll[p].bytes) THEN 0
                              ELSE remoteCursor.resetAt]
    /\ SetPoll(p, NoPoll)
    /\ UNCHANGED <<where, file, slot, resets, polls, cleared, raced>>

(***************************************************************************)
(* reset, for a /clear in the pane: the slot is emptied and its cursor     *)
(* moved to the end of the file; for an SSH session the last length seen   *)
(* counts as the end.                                                      *)
(***************************************************************************)
ResetPanel ==
    /\ resets < MaxResets
    /\ resets' = resets + 1
    /\ IF slot.on
         THEN LET end == IF file.ino = 0 THEN slot.cursor
                         ELSE Len(file.bytes)
              IN  slot' = [slot EXCEPT !.state = NoTasks, !.cursor = end,
                                       !.base = end]
         ELSE UNCHANGED slot
    /\ IF remoteCursor.known
         THEN remoteCursor' = [remoteCursor EXCEPT !.resetAt = Len(remoteCursor.seen)]
         ELSE UNCHANGED remoteCursor
    /\ cleared' = IF slot.on
                    THEN Len(file.bytes)
                    ELSE IF remoteCursor.known /\ IsPrefix(remoteCursor.seen, file.bytes)
                           THEN Len(remoteCursor.seen)
                           ELSE cleared
    /\ raced' = (raced \/ (slot.on /\ slot.ino # file.ino))
    /\ UNCHANGED <<where, file, poll, polls>>

TranscriptNext ==
    \/ AgentWrites \/ AgentReplaces \/ WatcherRefresh \/ ResetPanel
    \/ \E p \in Polls :
          \/ PollStarts(p) \/ StartParses(p) \/ StartInserts(p)
          \/ ReconcileSlot(p) \/ RemoteRead(p) \/ RemoteAnswer(p)

TranscriptSpec == TranscriptInit /\ [][TranscriptNext]_transcriptVars

---------------------------------------------------------------------------
(***************************************************************************)
(* The panel of a local session shows what its file says: however the      *)
(* file events, polls, resets and replacements fell, the todos and tasks   *)
(* are the ones a parse of the consumed part of the current file, from the *)
(* last reset on, gives.  Excepted are slots whose start overlapped with   *)
(* another start or a replacement, or that were reset before they had seen *)
(* the current file (raced).                                               *)
(***************************************************************************)
PanelShowsFile ==
    slot.on /\ ~raced /\ slot.ino = file.ino
        => slot.state =
             ParseFrom(NoTasks, SubSeq(file.bytes, 1, slot.cursor), cleared)

----------------------------------------------------------------------------
(* Statements the code does not keep: TLC refutes each of them, see the    *)
(* README, "What does not hold".                                           *)

(***************************************************************************)
(* What a reset of the panel has consumed is never shown again while the   *)
(* file stays the same one ("anything already in the transcript is treated *)
(* as consumed").                                                          *)
(***************************************************************************)
ClearedStaysCleared ==
    /\ slot.on /\ slot.ino = file.ino => slot.base >= cleared
    /\ remoteCursor.known /\ IsPrefix(remoteCursor.seen, file.bytes)
          => remoteCursor.resetAt >= cleared
============================================================================
