----------------------------- MODULE Worktrees -----------------------------
(***************************************************************************)
(* Git worktrees of one local repository: the metadata registry            *)
(* (~/.agentum/worktrees.json) and the git commands of                     *)
(* routes/worktrees.rs, the isolated trees of sessions (git.rs,            *)
(* routes/sessions.rs) and the two ways of pruning.                        *)
(*                                                                         *)
(* A tree is named by its path; its branch has the same name.  dir says    *)
(* what is on disk, admin which trees git has a record of, branches which  *)
(* branches exist.  Desktop trees live under .claude/worktrees and are    *)
(* registered; session trees live under <repo>-worktrees.  The agent that  *)
(* works in a tree writes and commits whenever it likes.                   *)
(***************************************************************************)
EXTENDS Naturals, FiniteSets

CONSTANTS DeskTrees,    \* trees the desktop creates
          SessTrees,    \* trees sessions are isolated in
          WtClients,    \* requests that can be in flight
          MaxWtCalls,   \* bound on requests
          MaxWrites     \* bound on what agents and users do to trees

Trees == DeskTrees \cup SessTrees

VARIABLES dir,        \* tree -> what is on disk
          admin,      \* trees git has a record of
          branches,   \* branches that exist
          meta,       \* the registry file: torn, and the ids it lists (nothing
                      \* asks how often or in which order)
          treeLock,   \* holder of the host's lifecycle lock
          wt,         \* request -> where its handler is
          wtSess,     \* a session that works in a tree
          discarded,  \* how uncommitted work was destroyed
          wtCalls, writes

wtVars == <<dir, admin, branches, meta, treeLock, wt, wtSess, discarded,
            wtCalls, writes>>

NoTree == "none"

\* A path is never the column's NULL.
ASSUME WorktreeNames == NoTree \notin Trees

FreeLock == "free"
WtIdle == [pc |-> "idle", op |-> "none", tree |-> NoTree, force |-> FALSE,
           todo |-> {}, stale |-> {}, gone |-> {}, ids |-> {}]
NoSess == [tree |-> NoTree, status |-> "stopped", refused |-> FALSE]

WorktreeInit ==
  /\ dir = [t \in Trees |-> "absent"]
  /\ admin = {}
  /\ branches = {}
  /\ meta = [torn |-> FALSE, ids |-> {}]
  /\ treeLock = FreeLock
  /\ wt = [c \in WtClients |-> WtIdle]
  /\ wtSess = NoSess
  /\ discarded = {}
  /\ wtCalls = 0
  /\ writes = 0

-----------------------------------------------------------------------------
(* Git.  `worktree add` refuses a path that exists, a path with a record   *)
(* whose directory is missing and a new branch whose name is taken;        *)
(* `worktree remove` refuses uncommitted work unless forced and drops the  *)
(* record of a missing directory; `worktree prune` drops the records of    *)
(* missing directories.                                                    *)
Vacant(t) == dir[t] = "absent" /\ t \notin admin

AddTo(t) ==
  /\ dir' = [dir EXCEPT ![t] = "clean"]
  /\ admin' = admin \cup {t}
  /\ branches' = branches \cup {t}

Removable(t, force) == t \in admin /\ (force \/ dir[t] # "dirty")

RemoveTree(t, how) ==
  /\ dir' = [dir EXCEPT ![t] = "absent"]
  /\ discarded' = discarded \cup (IF dir[t] = "dirty" THEN {how} ELSE {})

Present(rec, d) == {t \in rec : d[t] # "absent"}

(* What agents and users do to a tree by themselves.                       *)
AgentWorks ==
  /\ writes < MaxWrites
  /\ \E t \in Trees :
       \/ dir[t] = "clean" /\ dir' = [dir EXCEPT ![t] = "dirty"]
       \/ dir[t] = "dirty" /\ dir' = [dir EXCEPT ![t] = "clean"]
       \/ dir[t] = "clean" /\ dir' = [dir EXCEPT ![t] = "absent"]
  /\ writes' = writes + 1
  /\ UNCHANGED <<admin, branches, meta, treeLock, wt, wtSess, discarded,
                 wtCalls>>

-----------------------------------------------------------------------------
(* The handlers.  All but update-meta take the lifecycle lock of the       *)
(* repository's host first.                                                *)
Go(c, pc) == wt' = [wt EXCEPT ![c].pc = pc]

CallWorktrees(c, op, t, force) ==
  /\ wt[c].pc = "idle"
  /\ wtCalls < MaxWtCalls
  /\ wtCalls' = wtCalls + 1
  /\ wt' = [wt EXCEPT ![c] = [WtIdle EXCEPT !.pc = "lock", !.op = op,
                                            !.tree = t, !.force = force]]
  /\ UNCHANGED <<dir, admin, branches, meta, treeLock, wtSess, discarded,
                 writes>>

CallAny(c) ==
  \/ \E t \in DeskTrees :
       \/ CallWorktrees(c, "create", t, FALSE)
       \/ CallWorktrees(c, "update_meta", t, FALSE)
       \/ \E f \in BOOLEAN : CallWorktrees(c, "remove", t, f)
  \/ \E f \in BOOLEAN : CallWorktrees(c, "prune", NoTree, f)
  \/ /\ wtSess.tree \in SessTrees
     /\ \E f \in BOOLEAN : CallWorktrees(c, "session", wtSess.tree, f)

(* update_meta goes straight to the registry; worktree_prune of a session  *)
(* takes no lock and first looks at the session's status; the others wait  *)
(* for the lock.                                                           *)
LoadHost(c) ==
  /\ wt[c].pc = "lock"
  /\ CASE wt[c].op = "update_meta" ->
            treeLock' = treeLock /\ Go(c, "read")
       [] wt[c].op = "session" ->
            /\ treeLock' = treeLock
            /\ Go(c, IF wtSess.tree # wt[c].tree \/ wtSess.status = "running"
                     THEN "idle"
                     ELSE IF wt[c].force THEN "git" ELSE "check")
       [] OTHER ->
            /\ treeLock = FreeLock
            /\ treeLock' = c
            /\ IF wt[c].op = "prune"
               THEN wt' = [wt EXCEPT ![c].pc = "sweep", ![c].todo = admin,
                                     ![c].stale = admin \ Present(admin, dir)]
               ELSE Go(c, "git")
  /\ UNCHANGED <<dir, admin, branches, meta, wtSess, discarded, wtCalls,
                 writes>>

(* create: a new branch, or the existing one; a failure ends the request.  *)
CreateTree(c) ==
  LET t == wt[c].tree IN
  /\ wt[c].pc = "git" /\ wt[c].op = "create"
  /\ IF Vacant(t)
     THEN AddTo(t) /\ Go(c, "read") /\ UNCHANGED treeLock
     ELSE /\ Go(c, "idle")
          /\ treeLock' = FreeLock
          /\ UNCHANGED <<dir, admin, branches>>
  /\ UNCHANGED <<meta, wtSess, discarded, wtCalls, writes>>

(* remove: a refusal for uncommitted work is an error; a tree git does not *)
(* know is deregistered after a `worktree prune`.                          *)
RemoveWorktree(c) ==
  LET t == wt[c].tree IN
  /\ wt[c].pc = "git" /\ wt[c].op = "remove"
  /\ CASE Removable(t, wt[c].force) ->
            /\ RemoveTree(t, IF wt[c].force THEN "force" ELSE "asked")
            /\ admin' = admin \ {t}
            /\ Go(c, "read") /\ UNCHANGED treeLock
       [] t \in admin /\ ~Removable(t, wt[c].force) ->
            /\ Go(c, "idle") /\ treeLock' = FreeLock
            /\ UNCHANGED <<dir, admin, discarded>>
       [] OTHER ->
            /\ admin' = Present(admin, dir)
            /\ Go(c, "read") /\ UNCHANGED <<dir, discarded, treeLock>>
  /\ UNCHANGED <<branches, meta, wtSess, wtCalls, writes>>

(* prune: a tree the listing calls prunable is gone; any other is          *)
(* classified by `git status`, and one that cannot be read counts as dirty.*)
ClassifyWorktree(prunable, d) ==
  CASE prunable                  -> "gone"
    [] ~prunable /\ d = "clean"  -> "clean"
    [] OTHER                     -> "dirty"

ShouldPrune(class, includeClean) ==
  class = "gone" \/ (includeClean /\ class = "clean")

SweepCheck(c) ==
  /\ wt[c].pc = "sweep"
  /\ \E t \in wt[c].todo :
       wt' = [wt EXCEPT
              ![c].todo = @ \ {t},
              ![c].tree = t,
              ![c].pc = IF ShouldPrune(ClassifyWorktree(t \in wt[c].stale,
                                                        dir[t]),
                                       wt[c].force)
                        THEN "drop" ELSE "sweep"]
  /\ UNCHANGED <<dir, admin, branches, meta, treeLock, wtSess, discarded,
                 wtCalls, writes>>

SweepRemove(c) ==
  LET t == wt[c].tree IN
  /\ wt[c].pc = "drop"
  /\ IF Removable(t, TRUE) THEN RemoveTree(t, "sweep")
                           ELSE UNCHANGED <<dir, discarded>>
  /\ admin' = Present(admin \ {t}, dir')
  /\ wt' = [wt EXCEPT ![c].pc = "sweep", ![c].gone = @ \cup {t}]
  /\ UNCHANGED <<branches, meta, treeLock, wtSess, wtCalls, writes>>

SweepDone(c) ==
  /\ wt[c].pc = "sweep" /\ wt[c].todo = {}
  /\ treeLock' = FreeLock
  /\ Go(c, IF wt[c].gone = {} THEN "idle" ELSE "read")
  /\ UNCHANGED <<dir, admin, branches, meta, wtSess, discarded, wtCalls,
                 writes>>

-----------------------------------------------------------------------------
(* The registry is read whole, changed and written back: the write first   *)
(* empties the file, and a file that does not parse reads as no entries.   *)
ReadWorktrees(c) ==
  /\ wt[c].pc = "read"
  /\ wt' = [wt EXCEPT ![c].ids = IF meta.torn THEN {} ELSE meta.ids,
                      ![c].pc = "open"]
  /\ UNCHANGED <<dir, admin, branches, meta, treeLock, wtSess, discarded,
                 wtCalls, writes>>

Retained(c) ==
  LET drop == IF wt[c].op = "prune" THEN wt[c].gone ELSE {wt[c].tree} IN
  IF wt[c].op \in {"create", "update_meta"}
  THEN wt[c].ids \cup {wt[c].tree} ELSE wt[c].ids \ drop

WriteOpens(c) ==
  /\ wt[c].pc = "open"
  /\ meta' = [torn |-> TRUE, ids |-> {}]
  /\ Go(c, "write")
  /\ UNCHANGED <<dir, admin, branches, treeLock, wtSess, discarded, wtCalls,
                 writes>>

WriteWorktrees(c) ==
  /\ wt[c].pc = "write"
  /\ meta' = [torn |-> FALSE, ids |-> Retained(c)]
  /\ wt' = [wt EXCEPT ![c] = WtIdle]
  /\ treeLock' = IF treeLock = c THEN FreeLock ELSE treeLock
  /\ UNCHANGED <<dir, admin, branches, wtSess, discarded, wtCalls, writes>>

-----------------------------------------------------------------------------
(* Sessions.  Creating one isolates it in a new tree, or opens an existing *)
(* tree of the desktop; a missing desktop tree is recreated when the       *)
(* session is created or started, any other missing directory is an error. *)
CreateIsolated ==
  /\ wtSess.tree = NoTree /\ treeLock = FreeLock /\ wtCalls < MaxWtCalls
  /\ \E t \in SessTrees :
       /\ Vacant(t) /\ t \notin branches
       /\ AddTo(t)
       /\ wtSess' = [NoSess EXCEPT !.tree = t]
  /\ wtCalls' = wtCalls + 1
  /\ UNCHANGED <<meta, treeLock, wt, discarded, writes>>

(* recreate_worktree: stale records are pruned first, then the branch of   *)
(* that name is attached or made.                                          *)
Recreate(t) ==
  LET known == Present(admin, dir) IN
  IF t \notin known
  THEN /\ admin' = known \cup {t}
       /\ dir' = [dir EXCEPT ![t] = "clean"]
       /\ branches' = branches \cup {t}
       /\ wtSess' = [wtSess EXCEPT !.status = "running"]
  ELSE /\ admin' = known
       /\ wtSess' = [wtSess EXCEPT !.refused = TRUE]
       /\ UNCHANGED <<dir, branches>>

OpenTree ==
  /\ wtSess.tree = NoTree /\ wtCalls < MaxWtCalls
  /\ \E t \in DeskTrees : wtSess' = [NoSess EXCEPT !.tree = t]
  /\ wtCalls' = wtCalls + 1
  /\ UNCHANGED <<dir, admin, branches, meta, treeLock, wt, discarded, writes>>

StartInTree ==
  LET t == wtSess.tree IN
  /\ t # NoTree /\ wtSess.status = "stopped" /\ treeLock = FreeLock
  /\ CASE dir[t] # "absent" ->
            /\ wtSess' = [wtSess EXCEPT !.status = "running"]
            /\ UNCHANGED <<dir, admin, branches>>
       [] dir[t] = "absent" /\ t \in DeskTrees -> Recreate(t)
       [] OTHER ->
            /\ wtSess' = [wtSess EXCEPT !.refused = TRUE]
            /\ UNCHANGED <<dir, admin, branches>>
  /\ UNCHANGED <<meta, treeLock, wt, discarded, wtCalls, writes>>

StopInTree ==
  /\ wtSess.status = "running"
  /\ wtSess' = [wtSess EXCEPT !.status = "stopped"]
  /\ UNCHANGED <<dir, admin, branches, meta, treeLock, wt, discarded,
                 wtCalls, writes>>

(* worktree_prune of a session: refuse uncommitted work, then let git      *)
(* remove the tree (and the branch when it has nothing of its own), then   *)
(* clear the session's tree.                                               *)
PruneChecks(c) ==
  /\ wt[c].pc = "check"
  /\ Go(c, IF dir[wt[c].tree] = "dirty" THEN "idle" ELSE "git")
  /\ UNCHANGED <<dir, admin, branches, meta, treeLock, wtSess, discarded,
                 wtCalls, writes>>

PruneWorktree(c) ==
  LET t == wt[c].tree IN
  /\ wt[c].pc = "git" /\ wt[c].op = "session"
  /\ IF Removable(t, wt[c].force)
     THEN /\ RemoveTree(t, IF wt[c].force THEN "force" ELSE "asked")
          /\ admin' = admin \ {t}
          /\ \/ branches' = branches \ {t}
             \/ branches' = branches
          /\ Go(c, "clear")
     ELSE Go(c, "idle") /\ UNCHANGED <<dir, admin, branches, discarded>>
  /\ UNCHANGED <<meta, treeLock, wtSess, wtCalls, writes>>

ClearSessionWorktree(c) ==
  /\ wt[c].pc = "clear"
  /\ wtSess' = IF wtSess.tree = wt[c].tree
               THEN [wtSess EXCEPT !.tree = NoTree] ELSE wtSess
  /\ wt' = [wt EXCEPT ![c] = WtIdle]
  /\ UNCHANGED <<dir, admin, branches, meta, treeLock, discarded, wtCalls,
                 writes>>

-----------------------------------------------------------------------------
WorktreeNext ==
  \/ \E c \in WtClients :
       \/ CallAny(c) \/ LoadHost(c) \/ CreateTree(c) \/ RemoveWorktree(c)
       \/ SweepCheck(c) \/ SweepRemove(c) \/ SweepDone(c)
       \/ ReadWorktrees(c) \/ WriteOpens(c) \/ WriteWorktrees(c)
       \/ PruneChecks(c) \/ PruneWorktree(c) \/ ClearSessionWorktree(c)
  \/ AgentWorks \/ CreateIsolated \/ OpenTree \/ StartInTree \/ StopInTree

WorktreeSpec == WorktreeInit /\ [][WorktreeNext]_wtVars

\* The variables stay within their types.
WorktreeTypeOK ==
  /\ dir \in [Trees -> {"absent", "clean", "dirty"}]
  /\ admin \subseteq Trees
  /\ branches \subseteq Trees
  /\ meta.torn \in BOOLEAN /\ meta.ids \subseteq DeskTrees
  /\ treeLock \in WtClients \cup {FreeLock}
  /\ \A c \in WtClients :
       wt[c].pc \in {"idle", "lock", "git", "sweep", "drop", "check",
                     "clear", "read", "open", "write"}
  /\ wtSess.tree \in Trees \cup {NoTree}
  /\ discarded \subseteq {"asked", "force", "sweep"}

(* A request that did not ask for force destroys no uncommitted work, even *)
(* when the agent writes between the preflight `git status` and the        *)
(* removal: git itself refuses (routes/worktrees.rs remove,                *)
(* routes/sessions.rs worktree_prune).                                     *)
UnforcedKeepsWork == "asked" \notin discarded

(* A session opened on a desktop tree can always be started: whatever was  *)
(* pruned or removed by hand, recreate_worktree brings the directory back. *)
OpenedAlwaysStarts ==
  wtSess.refused => wtSess.tree \notin DeskTrees

-----------------------------------------------------------------------------
(* Statements the code does not keep: TLC refutes each of them, see the    *)
(* README, "What does not hold".                                           *)

(* No prune takes the directory of a running session: "pruning the cwd of  *)
(* a live tmux pane would yank the rug out from under the agent process"   *)
(* (routes/sessions.rs:442).                                               *)
RunningKeepsTree ==
  [][\A c \in WtClients :
       (SweepRemove(c) \/ PruneWorktree(c))
         => ~(/\ wtSess.status = "running" /\ wtSess.tree = wt[c].tree
              /\ dir'[wt[c].tree] # dir[wt[c].tree])]_wtVars

(* "a worktree with uncommitted work is NEVER removed" by a sweep          *)
(* (routes/worktrees.rs:428).                                              *)
SweepSparesWork == "sweep" \notin discarded
=============================================================================
