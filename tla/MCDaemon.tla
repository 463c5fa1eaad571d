------------------------------- MODULE MCDaemon -------------------------------
(***************************************************************************)
(* Small instances of the components that keep what agents produce: streams, *)
(* the board, orchestration, the task panel, worktrees and git.  They share *)
(* no state in the code beyond the rows each of them models itself, so one *)
(* behaviour is a behaviour of one component, picked at the start; the others *)
(* rest in an initial state of theirs.                                     *)
(***************************************************************************)
EXTENDS PaneStream, Board, Orchestration, Transcript, Worktrees, GitOps, TLC

VARIABLE part

Parts == {"stream", "board", "orch", "panel", "trees", "git"}

\* A todo that is created, and the result that numbers it.
MCBlocks == {[kind |-> "create", id |-> 1], [kind |-> "result", id |-> 1]}

MCVars ==
  <<part, streamVars, boardVars, orchVars, transcriptVars, wtVars, gitVars>>

\* A resting component with several initial states is in one of them.
Pinned ==
  /\ part = "panel" \/ where = "local"
  /\ part = "git" \/ head = [p \in Files |-> 0]

MCInit ==
  /\ part \in Parts /\ Pinned
  /\ StreamInit
  /\ BoardInit
  /\ OrchInit
  /\ TranscriptInit
  /\ WorktreeInit
  /\ GitInit

Only(q) ==
  /\ UNCHANGED part
  /\ IF q = "stream" THEN TRUE ELSE UNCHANGED streamVars
  /\ IF q = "board" THEN TRUE ELSE UNCHANGED boardVars
  /\ IF q = "orch" THEN TRUE ELSE UNCHANGED orchVars
  /\ IF q = "panel" THEN TRUE ELSE UNCHANGED transcriptVars
  /\ IF q = "trees" THEN TRUE ELSE UNCHANGED wtVars
  /\ IF q = "git" THEN TRUE ELSE UNCHANGED gitVars

MCNext ==
  \/ part = "stream" /\ StreamNext /\ Only("stream")
  \/ part = "board" /\ BoardNext /\ Only("board")
  \/ part = "orch" /\ OrchNext /\ Only("orch")
  \/ part = "panel" /\ TranscriptNext /\ Only("panel")
  \/ part = "trees" /\ WorktreeNext /\ Only("trees")
  \/ part = "git" /\ GitNext /\ Only("git")

MCSpec == MCInit /\ [][MCNext]_MCVars

-------------------------------------------------------------------------------
\* Every component stays within its types.
DaemonTypeOK ==
  /\ StreamTypeOK /\ BoardTypeOK /\ OrchTypeOK /\ TranscriptTypeOK
  /\ WorktreeTypeOK /\ GitTypeOK

\* A client sees what is in the file behind its view: a terminal painted from
\* a snapshot is not fed what it shows already (routes/sessions.rs
\* stream_session), the task panel is that of the transcript
\* (transcript_store.rs).
ShowsWhatIsThere ==
  /\ NoReplayOverSnapshot
  /\ PanelShowsFile

\* The board and the orchestration tables agree with themselves when requests
\* overlap: goals with their cards, cards with their sessions, ready tasks
\* with their dependencies, read mail with what was handed out
\* (agentum-watchdog, routes/board.rs, store orchestration.rs).
PlansResolve ==
  /\ GoalFollowsChildren
  /\ BindingIsMutual
  /\ DagResolves
  /\ ReadMailWasReturned

\* What an agent has written is kept and shown as it is: uncommitted work
\* outlives every request that did not force its removal, a session opened on
\* a desktop tree can be started, the status shows the tree and a commit holds
\* the picked files and nothing else (routes/worktrees.rs, routes/sessions.rs
\* worktree_prune and recreate_worktree, routes/git.rs).
WorkIsKept ==
  /\ [](UnforcedKeepsWork /\ OpenedAlwaysStarts)
  /\ StatusIsFaithful
  /\ CommitIsThePick
===============================================================================
