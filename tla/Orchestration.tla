--------------------------- MODULE Orchestration ----------------------------
(***************************************************************************)
(* The orchestration store: tasks with dependencies, their dispatch to     *)
(* agents, and the mailboxes of the agents.                                *)
(*                                                                         *)
(* None of these operations is a transaction.  Creating a task looks at    *)
(* its dependencies, inserts the row and then inserts one edge at a time;  *)
(* completing a task updates the row and then examines one dependent at a  *)
(* time.  Every statement is a step, and requests interleave.              *)
(***************************************************************************)
EXTENDS Integers, FiniteSets

CONSTANTS
  OrchClients,  \* requests that may be in flight together
  OrchHandles,  \* the sessions' handles
  MaxTasks,     \* bound: tasks created; ids count from 1
  MaxMail,      \* bound: messages inserted; ids count from 1
  MaxOrchCalls  \* bound: requests made

ASSUME OrchAssumption ==
  MaxTasks \in Nat /\ MaxMail \in Nat /\ MaxOrchCalls \in Nat

VARIABLES
  tasks,      \* orchestration_tasks: per id its status, or "none"
  edges,      \* orchestration_task_deps
  dispatches, \* rows of orchestration_dispatches, per task
  mail,       \* orchestration_messages: recipient, sender and read flag
  returned,   \* messages a check has handed out
  creq,       \* the requests in flight
  undone,     \* a completed task was given another status
  overlap,    \* a completion ran beside a creation that was not finished
  orchCalls   \* requests so far

orchVars == <<tasks, edges, dispatches, mail, returned, creq, undone, overlap,
              orchCalls>>

TaskIds == 1..MaxTasks
MailIds == 1..MaxMail
TaskStatuses == {"pending", "ready", "dispatched", "completed", "failed"}
NoReq == [pc |-> "idle"]
NoMail == [to |-> "none", from |-> "none", read |-> FALSE]

OrchInit ==
  /\ tasks = [t \in TaskIds |-> "none"] /\ edges = {}
  /\ dispatches = [t \in TaskIds |-> 0]
  /\ mail = [m \in MailIds |-> NoMail] /\ returned = {}
  /\ creq = [c \in OrchClients |-> NoReq] /\ undone = FALSE
  /\ overlap = FALSE /\ orchCalls = 0

-----------------------------------------------------------------------------
(* Helpers                                                                 *)

Existing == {t \in TaskIds: tasks[t] # "none"}
Asks(c) == /\ creq[c].pc = "idle" /\ orchCalls < MaxOrchCalls
           /\ orchCalls' = orchCalls + 1
ReqAt(c, pc) == creq[c].pc = pc /\ UNCHANGED orchCalls
Now(c, rec) == creq' = [creq EXCEPT ![c] = rec]
Answered(c) == creq' = [creq EXCEPT ![c] = NoReq]

Creating == \E c \in OrchClients: creq[c].pc \in {"insert", "edges"}
Completing ==
  \E c \in OrchClients: creq[c].pc \in {"dependents", "examine", "setReady"}

\* orch_deps_all_completed.
DepsAllCompleted(deps) == \A d \in deps: tasks[d] = "completed"
TaskDeps(t) == {e[2] : e \in {x \in edges: x[1] = t}}

\* resolve_recipients: a plain handle stands for itself, a group for the
\* sessions in it except the sender.
ResolveRecipients(to, from) ==
  IF to = "@all" THEN OrchHandles \ {from} ELSE {to}

NextId(used, max) == CHOOSE n \in 1..max: n \notin used
                                          /\ \A k \in 1..n - 1: k \in used
Mailed == {m \in MailIds: mail[m].to # "none"}

-----------------------------------------------------------------------------
(* Tasks                                                                   *)

\* orch_create_task reads its dependencies' statuses ...
CreateChecks(c, deps) ==
  /\ Asks(c)
  /\ Now(c, [pc |-> "insert", deps |-> deps,
             status |-> IF DepsAllCompleted(deps) THEN "ready" ELSE "pending"])
  /\ overlap' = (overlap \/ Completing)
  /\ UNCHANGED <<tasks, edges, dispatches, mail, returned, undone>>

\* ... inserts the row with the status that follows ...
CreateInserts(c) ==
  /\ ReqAt(c, "insert")
  /\ IF Existing = TaskIds THEN Answered(c) /\ UNCHANGED tasks
     ELSE LET t == NextId(Existing, MaxTasks)
          IN /\ tasks' = [tasks EXCEPT ![t] = creq[c].status]
             /\ Now(c, [pc |-> "edges", task |-> t, deps |-> creq[c].deps])
  /\ UNCHANGED <<edges, dispatches, mail, returned, undone, overlap>>

\* ... and adds the edges one by one.
CreateAddsEdge(c) ==
  /\ ReqAt(c, "edges")
  /\ IF creq[c].deps = {} THEN Answered(c) /\ UNCHANGED edges
     ELSE \E d \in creq[c].deps:
            /\ edges' = edges \cup {<<creq[c].task, d>>}
            /\ creq' = [creq EXCEPT ![c].deps = @ \ {d}]
  /\ UNCHANGED <<tasks, dispatches, mail, returned, undone, overlap>>

\* orch_update_task: the status as the caller says; a completed task's
\* dependents are then looked at.
UpdateTask(c, t, st) ==
  /\ Asks(c) /\ tasks[t] # "none"
  /\ tasks' = [tasks EXCEPT ![t] = st]
  /\ undone' = (undone \/ (tasks[t] = "completed" /\ st # "completed"))
  /\ IF st = "completed" THEN Now(c, [pc |-> "dependents", task |-> t])
                         ELSE Answered(c)
  /\ overlap' = (overlap \/ (st = "completed" /\ Creating))
  /\ UNCHANGED <<edges, dispatches, mail, returned>>

\* orch_promote_ready lists the dependents ...
ListDependents(c) ==
  /\ ReqAt(c, "dependents")
  /\ Now(c, [pc |-> "examine",
             left |-> {e[1] : e \in {x \in edges: x[2] = creq[c].task}}])
  /\ UNCHANGED <<tasks, edges, dispatches, mail, returned, undone, overlap>>

\* Fault: a dependent is promoted without looking at its other dependencies.
ExamineDependentEagerly(c) ==
  /\ ReqAt(c, "examine")
  /\ IF creq[c].left = {} THEN Answered(c)
     ELSE \E d \in creq[c].left:
            Now(c, [pc |-> IF tasks[d] = "pending" THEN "setReady" ELSE "examine",
                    task |-> d, left |-> creq[c].left \ {d}])
  /\ UNCHANGED <<tasks, edges, dispatches, mail, returned, undone, overlap>>

\* ... examines each, and makes it ready if it is pending and unblocked ...
ExamineDependent(c) ==
  /\ ReqAt(c, "examine")
  /\ IF creq[c].left = {} THEN Answered(c)
     ELSE \E d \in creq[c].left:
            LET promotes == /\ tasks[d] = "pending"
                            /\ DepsAllCompleted(TaskDeps(d))
            IN Now(c, [pc |-> IF promotes THEN "setReady" ELSE "examine",
                       task |-> d, left |-> creq[c].left \ {d}])
  /\ UNCHANGED <<tasks, edges, dispatches, mail, returned, undone, overlap>>

\* ... with a write that does not ask again.
SetReady(c) ==
  /\ ReqAt(c, "setReady")
  /\ tasks' = [tasks EXCEPT ![creq[c].task] = "ready"]
  /\ undone' = (undone \/ tasks[creq[c].task] = "completed")
  /\ Now(c, [pc |-> "examine", left |-> creq[c].left])
  /\ UNCHANGED <<edges, dispatches, mail, returned, overlap>>

\* orch_create_dispatch asks nothing about the task's status.
Dispatch(c, t) ==
  /\ Asks(c) /\ tasks[t] # "none"
  /\ dispatches' = [dispatches EXCEPT ![t] = @ + 1]
  /\ Now(c, [pc |-> "dispatched", task |-> t])
  /\ UNCHANGED <<tasks, edges, mail, returned, undone, overlap>>

DispatchMarks(c) ==
  /\ ReqAt(c, "dispatched") /\ Answered(c)
  /\ tasks' = [tasks EXCEPT ![creq[c].task] = "dispatched"]
  /\ undone' = (undone \/ tasks[creq[c].task] = "completed")
  /\ UNCHANGED <<edges, dispatches, mail, returned, overlap>>

-----------------------------------------------------------------------------
(* Mail                                                                    *)

Send(c, to, from) ==
  /\ Asks(c)
  /\ LET recipients == ResolveRecipients(to, from)
     IN IF recipients = {} THEN Answered(c)
        ELSE Now(c, [pc |-> "deliver", from |-> from, left |-> recipients])
  /\ UNCHANGED <<tasks, edges, dispatches, mail, returned, undone, overlap>>

\* reply: one message back to the sender.
Reply(c, m) ==
  /\ Asks(c) /\ m \in Mailed
  /\ Now(c, [pc |-> "deliver", from |-> mail[m].to, left |-> {mail[m].from}])
  /\ UNCHANGED <<tasks, edges, dispatches, mail, returned, undone, overlap>>

\* One row per recipient; a failed insert ends the fan-out.
Deliver(c) ==
  /\ ReqAt(c, "deliver")
  /\ IF creq[c].left = {} \/ Mailed = MailIds THEN Answered(c) /\ UNCHANGED mail
     ELSE \E h \in creq[c].left:
            /\ mail' = [mail EXCEPT ![NextId(Mailed, MaxMail)] =
                          [to |-> h, from |-> creq[c].from, read |-> FALSE]]
            /\ creq' = [creq EXCEPT ![c].left = @ \ {h}]
  /\ UNCHANGED <<tasks, edges, dispatches, returned, undone, overlap>>

\* check reads the unread messages, then marks those it read.
CheckReads(c, h, marks) ==
  /\ Asks(c)
  /\ LET found == {m \in Mailed: mail[m].to = h /\ ~mail[m].read}
     IN /\ returned' = returned \cup found
        /\ IF marks THEN Now(c, [pc |-> "mark", handle |-> h, left |-> found])
                    ELSE Answered(c)
  /\ UNCHANGED <<tasks, edges, dispatches, mail, undone, overlap>>

CheckMarks(c) ==
  /\ ReqAt(c, "mark") /\ Answered(c)
  /\ mail' = [m \in MailIds |-> IF m \in creq[c].left
                                THEN [mail[m] EXCEPT !.read = TRUE]
                                ELSE mail[m]]
  /\ UNCHANGED <<tasks, edges, dispatches, returned, undone, overlap>>

TaskRequests(c) ==
  \/ \E deps \in SUBSET Existing: CreateChecks(c, deps)
  \/ CreateInserts(c) \/ CreateAddsEdge(c)
  \/ \E t \in TaskIds, st \in {"completed", "failed"}: UpdateTask(c, t, st)
  \/ ListDependents(c) \/ ExamineDependent(c) \/ SetReady(c)
  \/ \E t \in TaskIds: Dispatch(c, t)
  \/ DispatchMarks(c)

MailRequests(c) ==
  \/ \E to \in OrchHandles \cup {"@all"}, from \in OrchHandles:
       Send(c, to, from)
  \/ \E m \in MailIds: Reply(c, m)
  \/ Deliver(c)
  \/ \E h \in OrchHandles, marks \in BOOLEAN: CheckReads(c, h, marks)
  \/ CheckMarks(c)

OrchNext == \E c \in OrchClients: TaskRequests(c) \/ MailRequests(c)

OrchSpec == OrchInit /\ [][OrchNext]_orchVars

-----------------------------------------------------------------------------
(* Properties                                                              *)

\* The variables stay within their types.
OrchTypeOK ==
  /\ \A t \in TaskIds: tasks[t] \in TaskStatuses \cup {"none"}
  /\ edges \subseteq TaskIds \X TaskIds
  /\ returned \subseteq MailIds

Unblocked(t) == DepsAllCompleted(TaskDeps(t))
AtRest == \A c \in OrchClients: creq[c].pc = "idle"

\* As long as no completed task is taken back and no completion runs beside an
\* unfinished creation, a ready task waits for nothing, and once requests are
\* answered a pending one waits for something: completions and dispatches that
\* interleave neither lose a promotion nor promote too early.
DagResolves ==
  (~undone /\ ~overlap) =>
    \A t \in TaskIds:
      /\ tasks[t] = "ready" => Unblocked(t)
      /\ AtRest /\ tasks[t] = "pending" => ~Unblocked(t)

\* A message that counts as read was handed to someone: a message that arrives
\* while a check runs is not marked with the ones it returned.
ReadMailWasReturned == \A m \in MailIds: mail[m].read => m \in returned

-----------------------------------------------------------------------------
(* Statements the code does not keep: TLC refutes each of them, see the    *)
(* README, "What does not hold".                                           *)

\* "promote every `pending` task that depends on it to `ready` if all of that
\* task's deps are now completed" (orch_promote_ready): a ready task waits for
\* nothing, also when it is created while a dependency completes.
ReadyIsUnblocked ==
  \A t \in TaskIds: (tasks[t] = "ready" /\ ~undone) => Unblocked(t)
=============================================================================
