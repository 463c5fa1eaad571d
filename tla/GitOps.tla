------------------------------- MODULE GitOps -------------------------------
(***************************************************************************)
(* The source-control panel of a session (routes/git.rs): status, stage,   *)
(* commit, discard, pull, push, rebase and their aborts, run as git        *)
(* commands in the session's tree while the agent that lives there edits,  *)
(* stages and commits on its own.                                          *)
(*                                                                         *)
(* A file's content is a number, 0 for "no such file"; head, index and     *)
(* work hold one content per path.  A handler holds the lifecycle lock of  *)
(* the host, so two handlers never interleave, but the agent's steps fall  *)
(* between the git commands of one.                                        *)
(***************************************************************************)
EXTENDS Naturals, Sequences, FiniteSets

CONSTANTS Files,       \* repository-relative paths
          MaxContent,  \* contents are 1 .. MaxContent
          MaxGitCalls, \* bound on panel requests
          MaxAgent     \* bound on steps of the agent and of other clones

\* A tree holds finitely many files, and a file has some content.
ASSUME GitAssumption == IsFiniteSet(Files) /\ MaxContent \in Nat \ {0}

Contents == 0 .. MaxContent

VARIABLES head,        \* path -> content in the commit HEAD names
          index,       \* path -> content in the index
          work,        \* path -> content on disk
          remote,      \* path -> content of the upstream branch
          diverged,    \* the branch has commits the upstream lacks
          behind,      \* the upstream has commits the branch lacks
          midway,      \* operations git stopped in the middle of
          gitReq,       \* the request being handled
          answer,      \* what the last status answered
          gitCalls, agentSteps

gitVars == <<head, index, work, remote, diverged, behind, midway, gitReq,
             answer, gitCalls, agentSteps>>

NoRequest == [op |-> "none", pc |-> "idle", paths |-> {}]
Silent == [staged |-> {}, unstaged |-> {}, untracked |-> {}]

GitInit ==
  /\ head \in [Files -> 0 .. 1]
  /\ index = head /\ work = head /\ remote = head
  /\ diverged = FALSE /\ behind = FALSE
  /\ midway = {}
  /\ gitReq = NoRequest
  /\ answer = Silent
  /\ gitCalls = 0 /\ agentSteps = 0

-----------------------------------------------------------------------------
(* `git status --porcelain=v1 -z`: a record per path that differs, with    *)
(* the letters of the index and of the worktree; a file on disk the index  *)
(* lacks is "??".  A file added with the content of one deleted in the     *)
(* index is a rename: its record is followed by one with the old path.     *)
OldPaths(p) ==
  {q \in Files : /\ p # q /\ head[p] = 0 /\ index[p] # 0
                 /\ head[q] = index[p] /\ index[q] = 0}
OldPath(p) == CHOOSE q \in OldPaths(p) : TRUE
Sources == {OldPath(p) : p \in {r \in Files : OldPaths(r) # {}}}

IndexLetter(p) ==
  CASE OldPaths(p) # {}              -> "R"
    [] head[p] = index[p]            -> " "
    [] head[p] # 0 /\ index[p] = 0   -> "D"
    [] head[p] = 0 /\ OldPaths(p) = {} /\ index[p] # 0 -> "A"
    [] OTHER                         -> "M"

WorkLetter(p) ==
  CASE index[p] = 0 \/ index[p] = work[p] -> " "
    [] index[p] # 0 /\ work[p] = 0        -> "D"
    [] OTHER                              -> "M"

Rec(x, y, p) == [x |-> x, y |-> y, path |-> p]

Records(p) ==
  LET x == IndexLetter(p)
      y == WorkLetter(p)
  IN (IF p \in Sources \/ (x = " " /\ y = " ") THEN <<>>
      ELSE IF x = "R" THEN <<Rec(x, y, p), Rec("old", "old", OldPath(p))>>
      ELSE <<Rec(x, y, p)>>)
     \o (IF index[p] = 0 /\ work[p] # 0 THEN <<Rec("?", "?", p)>> ELSE <<>>)

PorcelainOf(order) ==
  LET f[i \in 0 .. Len(order)] ==
        IF i = 0 THEN <<>> ELSE f[i - 1] \o Records(order[i])
  IN f[Len(order)]

(* parse_porcelain_z: a record whose letter says rename or copy swallows   *)
(* the next one.                                                           *)
Renamed(r) == r.x \in {"R", "C"} \/ r.y \in {"R", "C"}

ParsePorcelain(recs) ==
  LET taken[i \in 0 .. Len(recs)] ==     \* is record i a rename's old path?
        IF i < 2 THEN FALSE ELSE ~taken[i - 1] /\ Renamed(recs[i - 1])
      seen == {i \in DOMAIN recs : ~taken[i]}
      Pick(S(_)) == {recs[i].path : i \in {j \in seen : S(recs[j])}}
      Plain(r) == ~(r.x = "?" /\ r.y = "?")
  IN [untracked |-> Pick(LAMBDA r : ~Plain(r)),
      staged    |-> Pick(LAMBDA r : Plain(r) /\ r.x \notin {" ", "?"}),
      unstaged  |-> Pick(LAMBDA r : Plain(r) /\ r.y \notin {" ", "?"})]

Status == \E order \in {o \in [1 .. Cardinality(Files) -> Files] :
                           \A i, j \in DOMAIN o : o[i] = o[j] => i = j} :
            answer' = ParsePorcelain(PorcelainOf(order))

(* What the three groups of the panel should list.                         *)
TrueStatus ==
  [untracked |-> {p \in Files : index[p] = 0 /\ work[p] # 0},
   staged    |-> {p \in Files : head[p] # index[p] /\ p \notin Sources},
   unstaged  |-> {p \in Files : index[p] # 0 /\ index[p] # work[p]}]

-----------------------------------------------------------------------------
(* The agent and the other clones of the repository.                       *)
AgentEdits ==
  /\ agentSteps < MaxAgent
  /\ agentSteps' = agentSteps + 1
  /\ \/ /\ \E p \in Files, v \in Contents : work' = [work EXCEPT ![p] = v]
        /\ UNCHANGED <<head, index, remote, diverged, behind, midway>>
     \/ /\ \E p \in Files : index' = [index EXCEPT ![p] = work[p]]
        /\ UNCHANGED <<head, work, remote, diverged, behind, midway>>
     \/ /\ index # head
        /\ head' = index /\ diverged' = TRUE /\ midway' = {}
        /\ UNCHANGED <<index, work, remote, behind>>
     \/ /\ \E p \in Files, v \in Contents : remote' = [remote EXCEPT ![p] = v]
        /\ remote' # remote
        /\ behind' = TRUE
        /\ UNCHANGED <<head, index, work, diverged, midway>>
     \/ /\ midway = {} /\ index = head
        /\ \E m \in {{"merge"}, {"cherry-pick"}, {"rebase"}} : midway' = m
        /\ UNCHANGED <<head, index, work, remote, diverged, behind>>
  /\ UNCHANGED <<gitReq, answer, gitCalls>>

-----------------------------------------------------------------------------
(* Requests.                                                               *)
Ask(op, paths) ==
  /\ gitReq.pc = "idle" /\ gitCalls < MaxGitCalls
  /\ gitCalls' = gitCalls + 1
  /\ gitReq' = [op |-> op, pc |-> "git", paths |-> paths]
  /\ UNCHANGED <<head, index, work, remote, diverged, behind, midway, answer,
                 agentSteps>>

AskAny ==
  \/ \E op \in {"stage", "unstage", "commit", "discard"},
         ps \in SUBSET Files \ {{}} : Ask(op, ps)
  \/ \E op \in {"commit_staged", "pull", "fast_forward", "push", "rebase",
                "abort_merge", "abort_rebase", "status"} : Ask(op, {})

Doing(op) == gitReq.op = op /\ gitReq.pc = "git"
Respond == gitReq' = NoRequest
Then(pc) == gitReq' = [gitReq EXCEPT !.pc = pc]

Matches(p) == index[p] # 0 \/ work[p] # 0
Tracked(p) == index[p] # 0 \/ head[p] # 0

(* `git add`: every path must match something.                             *)
Add(paths) ==
  index' = [p \in Files |-> IF p \in paths THEN work[p] ELSE index[p]]

(* stage: add or restore --staged, then the refreshed status.              *)
Stage ==
  /\ Doing("stage") \/ Doing("unstage")
  /\ LET ok == IF gitReq.op = "stage" THEN \A p \in gitReq.paths : Matches(p)
               ELSE \A p \in gitReq.paths : Tracked(p) IN
     CASE ok /\ gitReq.op = "stage" -> Add(gitReq.paths) /\ Then("status")
       [] ok /\ gitReq.op = "unstage" ->
            /\ index' = [p \in Files |-> IF p \in gitReq.paths THEN head[p]
                                         ELSE index[p]]
            /\ Then("status")
       [] OTHER -> Respond /\ UNCHANGED index
  /\ UNCHANGED <<head, work, remote, diverged, behind, midway, answer,
                 gitCalls, agentSteps>>

ReadStatus ==
  /\ gitReq.pc = "status" \/ Doing("status")
  /\ Status
  /\ gitReq' = [NoRequest EXCEPT !.pc = "shown"]
  /\ UNCHANGED <<head, index, work, remote, diverged, behind, midway,
                 gitCalls, agentSteps>>

ShowStatus ==
  /\ gitReq.pc = "shown"
  /\ Respond
  /\ UNCHANGED <<head, index, work, remote, diverged, behind, midway, answer,
                 gitCalls, agentSteps>>

(* commit: add the picked paths, then commit exactly those, as they are on *)
(* disk at that moment; git refuses a partial commit during a merge and a  *)
(* commit that changes nothing, and leaves the paths staged.               *)
CommitAdds ==
  /\ Doing("commit")
  /\ IF \A p \in gitReq.paths : Matches(p)
     THEN Add(gitReq.paths) /\ Then("commit")
     ELSE Respond /\ UNCHANGED index
  /\ UNCHANGED <<head, work, remote, diverged, behind, midway, answer,
                 gitCalls, agentSteps>>

(* Fault: the commit is made from the whole index, without a pathspec.     *)
CommitIndex ==
  LET picked(f) == [p \in Files |-> IF p \in gitReq.paths THEN work[p]
                                    ELSE f[p]] IN
  /\ gitReq.pc = "commit"
  /\ IF midway \cap {"merge", "cherry-pick"} = {} /\ picked(head) # head
     THEN /\ head' = picked(index) /\ index' = picked(index)
          /\ diverged' = TRUE
     ELSE UNCHANGED <<head, index, diverged>>
  /\ Respond
  /\ UNCHANGED <<work, remote, behind, midway, answer, gitCalls, agentSteps>>

CommitPaths ==
  LET picked(f) == [p \in Files |-> IF p \in gitReq.paths THEN work[p]
                                    ELSE f[p]] IN
  /\ gitReq.pc = "commit"
  /\ IF midway \cap {"merge", "cherry-pick"} = {} /\ picked(head) # head
     THEN /\ head' = picked(head) /\ index' = picked(index)
          /\ diverged' = TRUE
     ELSE UNCHANGED <<head, index, diverged>>
  /\ Respond
  /\ UNCHANGED <<work, remote, behind, midway, answer, gitCalls, agentSteps>>

CommitStaged ==
  /\ Doing("commit_staged")
  /\ IF index # head
     THEN head' = index /\ diverged' = TRUE /\ midway' = midway \ {"merge"}
     ELSE UNCHANGED <<head, diverged, midway>>
  /\ Respond
  /\ UNCHANGED <<index, work, remote, behind, answer, gitCalls, agentSteps>>

(* discard: restore --source=HEAD --staged --worktree; a path git does not *)
(* track fails the whole command.                                          *)
Discard ==
  /\ Doing("discard")
  /\ IF \A p \in gitReq.paths : Tracked(p)
     THEN LET back(f) == [p \in Files |-> IF p \in gitReq.paths THEN head[p]
                                          ELSE f[p]] IN
          index' = back(index) /\ work' = back(work)
     ELSE UNCHANGED <<index, work>>
  /\ Respond
  /\ UNCHANGED <<head, remote, diverged, behind, midway, answer, gitCalls,
                 agentSteps>>

(* pull --ff-only and merge --ff-only: only when the branch can be fast    *)
(* forwarded and no local change is in the way.                            *)
FastForward ==
  LET moved == {p \in Files : remote[p] # head[p]}
      to(f) == [p \in Files |-> IF p \in moved THEN remote[p] ELSE f[p]] IN
  /\ Doing("pull") \/ Doing("fast_forward")
  /\ IF /\ behind /\ ~diverged /\ midway = {}
        /\ \A p \in moved : index[p] = head[p] /\ work[p] = head[p]
     THEN /\ head' = remote /\ index' = to(index) /\ work' = to(work)
          /\ behind' = FALSE
     ELSE UNCHANGED <<head, index, work, behind>>
  /\ Respond
  /\ UNCHANGED <<remote, diverged, midway, answer, gitCalls, agentSteps>>

Push ==
  /\ Doing("push")
  /\ IF ~behind THEN remote' = head /\ diverged' = FALSE
                ELSE UNCHANGED <<remote, diverged>>
  /\ Respond
  /\ UNCHANGED <<head, index, work, behind, midway, answer, gitCalls,
                 agentSteps>>

(* rebase onto the upstream: refused with local changes; replaying the     *)
(* branch's commits ends, or stops at a conflict.                          *)
Rebase ==
  LET clean == index = head /\ (\A p \in Files : Tracked(p) => work[p] = index[p])
      blocked == \E p \in Files : ~Tracked(p) /\ work[p] # 0
      merged == [p \in Files |-> IF remote[p] # head[p] /\ ~diverged
                                 THEN remote[p] ELSE head[p]] IN
  /\ Doing("rebase")
  /\ IF clean /\ ~blocked /\ midway = {} /\ behind
     THEN \/ /\ head' = merged /\ index' = merged /\ work' = merged
             /\ behind' = FALSE /\ UNCHANGED midway
          \/ /\ midway' = {"rebase"}
             /\ diverged
             /\ UNCHANGED <<head, index, work, behind>>
     ELSE UNCHANGED <<head, index, work, behind, midway>>
  /\ Respond
  /\ UNCHANGED <<remote, diverged, answer, gitCalls, agentSteps>>

(* merge --abort and rebase --abort: back to HEAD, or an error when that   *)
(* operation is not under way.                                             *)
AbortRequest ==
  /\ \E op \in {"merge", "rebase"} :
       /\ Doing(IF op = "merge" THEN "abort_merge" ELSE "abort_rebase")
       /\ IF op \in midway
          THEN /\ midway' = midway \ {op}
               /\ index' = head
               /\ work' = [p \in Files |-> IF Tracked(p) THEN head[p]
                                           ELSE work[p]]
          ELSE UNCHANGED <<midway, index, work>>
  /\ Respond
  /\ UNCHANGED <<head, remote, diverged, behind, answer, gitCalls,
                 agentSteps>>

-----------------------------------------------------------------------------
GitNext ==
  \/ AgentEdits \/ AskAny \/ Stage \/ ReadStatus \/ ShowStatus \/ CommitAdds
  \/ CommitPaths \/ CommitStaged \/ Discard \/ FastForward \/ Push \/ Rebase
  \/ AbortRequest

GitSpec == GitInit /\ [][GitNext]_gitVars

\* The variables stay within their types.
GitTypeOK ==
  /\ {head, index, work, remote} \subseteq [Files -> Contents]
  /\ midway \subseteq {"merge", "rebase", "cherry-pick"}
  /\ gitReq.pc \in {"idle", "git", "status", "commit", "shown"}
  /\ \A k \in DOMAIN answer : answer[k] \subseteq Files

(* The panel's groups are those of the tree when git was asked, whatever   *)
(* was renamed and in whatever order git lists the paths                   *)
(* (parse_porcelain_z).                                                    *)
StatusIsFaithful ==
  [][ReadStatus => answer' = TrueStatus]_gitVars

(* A commit from the panel holds the picked files and nothing the agent    *)
(* staged before or during the request (commit).                           *)
CommitIsThePick ==
  [][CommitPaths => \A p \in Files \ gitReq.paths : head'[p] = head[p]]_gitVars
=============================================================================
