--------------------------- MODULE SessionLifecycle ---------------------------
(***************************************************************************)
(* The life of an agent session in the daemon: its row in the store, the   *)
(* tmux pane its agent runs in, and everything that changes one or the     *)
(* other.  HTTP handlers (start, stop, kill, delete, patch, create,        *)
(* create-and-spawn, attach) run concurrently; each is a sequence of steps *)
(* with an await between them, serialised per host and per session by the  *)
(* lifecycle leases of routes/sessions.rs.  The boot sweep resumes idle    *)
(* rows through the same handlers.  The watchdog samples panes under the   *)
(* host lease but commits a crash after dropping it, by compare-and-set.   *)
(* Any tmux or ssh call can fail, a client can hang up in the middle of a  *)
(* handler (its future is dropped, releasing its leases), an agent can     *)
(* exit or print a crash signature at any time, and the daemon can crash.  *)
(*                                                                         *)
(* A managed tmux target is "agentum-<name>-<uuid>", here the pair of the  *)
(* display name it was derived from and the session.                       *)
(***************************************************************************)
EXTENDS Integers, FiniteSets

CONSTANTS Sessions,     \* session ids that exist or will be generated
          Hosts,        \* host ids
          HostOf,       \* the immutable host binding of each session
          SshHosts,     \* hosts reached over ssh; the others are local
          McpSessions,  \* sessions whose tool consumes Agentum's MCP server
          Names,        \* display names
          UserName,     \* stands for the tmux name of a session the user runs herself
          Users,        \* concurrent API requests
          Boot,         \* the startup reconciliation task
          NoProc, NoTarget,
          MaxRequests,  \* bound: API requests
          MaxLaunches,  \* bound: panes ever created
          MaxSurprises, \* bound: failed calls, hung-up clients, daemon crashes, tool
                        \* changes and restarts of the user's own tmux session
          FlagEdits     \* what a PATCH of the flags does to the external marker

Procs == Users \cup {Boot}

ASSUME HostOfAssumption == HostOf \in [Sessions -> Hosts]
ASSUME SubsetAssumption == 
    /\ SshHosts \subseteq Hosts
    /\ McpSessions \subseteq Sessions
    /\ FlagEdits \subseteq {"keep", "drop"}
ASSUME NonEmptyAssumption == Names # {} /\ Sessions # {}
ASSUME DistinctAssumption ==
    /\ NoProc \notin Procs
    /\ Boot \notin Users
    /\ UserName \notin Names
    /\ NoTarget \notin (Names \cup {UserName}) \X Sessions
ASSUME BoundsAssumption ==
    /\ MaxRequests \in Nat /\ MaxLaunches \in Nat /\ MaxSurprises \in Nat

Targets == (Names \cup {UserName}) \X Sessions

Statuses == {"unborn", "idle", "running", "stopped", "crashed", "deleted"}
Ops == {"none", "start", "resume", "reprovision", "stop", "delete",
        "forceDelete", "patch", "patchFlags", "create", "spawn", "attach"}
PCs == {"idle", "host", "handoff", "insert", "adopt", "gate", "session",
        "locked", "verify", "rotate", "rotated", "reattach", "launch",
        "mark", "markGen", "commit", "kill", "record", "cleanup"}

VARIABLES
    row,       \* the sessions table; `ext` is the EXTERNAL_TMUX_FLAG marker, `ver`
               \* stands for updated_at and `inc` for the pane it was last tied to
    pane,      \* tmux: the pane at each target; `inc` tells those of one name apart, as
               \* the immutable `$N` id of a tmux session does,
               \* `user` that the user created it, `killed` that the daemon killed it
    hostLease, \* host lifecycle mutexes
    sessLease, \* session lifecycle mutexes
    gate,      \* lifecycle_lock_handoff
    pc, req,   \* where each handler is and what it was asked
    snap,      \* the Session value a handler loaded under its lease; `inc` becomes the
               \* id of the ssh pane it looked up
    hook,      \* sessions with a hook token (in memory)
    boot,      \* startup: phase and the two snapshots still to process
    seen,      \* the watchdog's last list_sessions(Running)
    watch,     \* the watch task of each session
    lost,      \* panes whose failed teardown a delete only logged
    used       \* how much of each bound has been spent

vars == <<row, pane, hostLease, sessLease, gate, pc, req, snap, hook, boot,
          seen, watch, lost, used>>

leases == <<hostLease, sessLease, gate>>
control == <<hostLease, sessLease, gate, pc, req>>
observer == <<boot, seen, watch>>

Exists(s) == row[s].status \notin {"unborn", "deleted"}

IsSsh(s) == HostOf[s] \in SshHosts

(* managed_tmux_target: derived from the current display name. *)
ManagedTarget(r, s) == <<r.name, s>>

UserTarget(s) == <<UserName, s>>

(* tmux_target and start_target: persistence first. *)
TmuxTarget(r, s) == IF r.target = NoTarget THEN ManagedTarget(r, s) ELSE r.target

NoRow == [status |-> "unborn", target |-> NoTarget,
          name |-> CHOOSE n \in Names : TRUE, ext |-> FALSE, ver |-> 0, inc |-> 0]

DeadPane == [live |-> FALSE, inc |-> 0, marked |-> FALSE, gen |-> FALSE, sig |-> FALSE,
             user |-> FALSE, killed |-> FALSE]

NoWatch == [phase |-> "off", target |-> NoTarget, ver |-> 0, inc |-> 0]
NoReq == [op |-> "none", sess |-> CHOOSE s \in Sessions : TRUE]

Rows == [status : Statuses, target : Targets \cup {NoTarget}, name : Names,
         ext : BOOLEAN, ver : Nat, inc : Nat]
Panes == [live : BOOLEAN, inc : Nat, marked : BOOLEAN, gen : BOOLEAN, sig : BOOLEAN,
          user : BOOLEAN, killed : BOOLEAN]
Watches == [phase : {"off", "sleep", "patch", "commit", "ended"},
            target : Targets \cup {NoTarget}, ver : Nat, inc : Nat]
Usage == [requests : Nat, launches : Nat, faults : Nat, drops : Nat,
          crashes : Nat, tools : Nat, users : Nat]

(* The rows create_session_on_host and create_or_get_external_session      *)
(* insert, and what stands for a removed one.                              *)
NewRow == [NoRow EXCEPT !.status = "idle", !.ver = 1]
DeletedRow(v) == [NoRow EXCEPT !.status = "deleted", !.ver = v]
ExternalRow(s) == [NoRow EXCEPT !.status = "stopped", !.target = UserTarget(s),
                                !.ext = TRUE, !.ver = 1]

NothingSeen == [fresh |-> FALSE, rows |-> [s \in Sessions |-> NoRow]]

RowsOK ==
    /\ row \in [Sessions -> Rows]
    /\ \A s \in Sessions : row[s].status = "running" => row[s].target # NoTarget

TypeOK ==
    /\ RowsOK
    /\ pane \in [Targets -> Panes]
    /\ hostLease \in [Hosts -> Procs \cup {NoProc}]
    /\ sessLease \in [Sessions -> Procs \cup {NoProc}]
    /\ gate \in Procs \cup {NoProc}
    /\ pc \in [Procs -> PCs]
    /\ req \in [Procs -> [op : Ops, sess : Sessions]]
    /\ snap \in [Procs -> Rows]
    /\ hook \in SUBSET Sessions
    /\ boot \in [phase : {"list", "listRunning", "sweep", "up"},
                 idle : SUBSET Sessions, running : SUBSET Sessions]
    /\ seen \in [fresh : BOOLEAN, rows : [Sessions -> Rows]]
    /\ watch \in [Sessions -> Watches]
    /\ lost \in SUBSET Targets
    /\ used \in Usage

-------------------------------------------------------------------------------
(* The store and tmux as a previous daemon left them: a row was never      *)
(* created, rests idle, is Running over a pane that survived, or is bound  *)
(* to the user's own tmux session.  An ssh pane of an older release may    *)
(* lack the owner marker (unmarked) or carry an old credential generation  *)
(* (stale).                                                                *)
LeftRow(s, left) ==
    CASE left = "running"  -> [NoRow EXCEPT !.status = "running", !.target = ManagedTarget(NoRow, s)]
      [] left = "external" -> ExternalRow(s)
      [] OTHER             -> [NoRow EXCEPT !.status = left]

LeftPane(t, unmarked, stale) ==
    LET s == t[2]
        kept == row[s].target = t /\ t # UserTarget(s)
    IN  [DeadPane EXCEPT
           !.live   = kept \/ t = UserTarget(s),
           !.user   = t = UserTarget(s),
           !.marked = kept /\ IsSsh(s) /\ s \notin unmarked,
           !.gen    = kept /\ IsSsh(s) /\ s \notin unmarked \cup stale]

Init ==
    /\ \E left \in [Sessions -> {"unborn", "idle", "running", "external"}] :
          row = [s \in Sessions |-> LeftRow(s, left[s])]
    /\ \E unmarked, stale \in SUBSET Sessions :
          pane = [t \in Targets |-> LeftPane(t, unmarked, stale)]
    /\ hostLease = [h \in Hosts |-> NoProc]
    /\ sessLease = [s \in Sessions |-> NoProc]
    /\ gate = NoProc
    /\ pc = [p \in Procs |-> "idle"]
    /\ req = [p \in Procs |-> NoReq]
    /\ snap = [p \in Procs |-> NoRow]
    /\ hook = {}
    /\ boot = [phase |-> "list", idle |-> {}, running |-> {}]
    /\ seen = NothingSeen
    /\ watch = [s \in Sessions |-> NoWatch]
    /\ lost = {}
    /\ used = [requests |-> 0, launches |-> 0, faults |-> 0, drops |-> 0,
               crashes |-> 0, tools |-> 0, users |-> 0]

-------------------------------------------------------------------------------
(* Steps of a handler.  Goto moves to the next await; Finish answers and   *)
(* drops every guard the handler holds.                                    *)

(* Fault: an early return that leaks the host lease. *)
FinishLeaky(p) ==
    /\ pc' = [pc EXCEPT ![p] = "idle"]
    /\ req' = [req EXCEPT ![p] = NoReq]
    /\ sessLease' = [s \in Sessions |-> IF sessLease[s] = p THEN NoProc ELSE sessLease[s]]
    /\ gate' = IF gate = p THEN NoProc ELSE gate
    /\ snap' = [snap EXCEPT ![p] = NoRow]
    /\ UNCHANGED hostLease

Goto(p, l) == /\ pc' = [pc EXCEPT ![p] = l]
              /\ UNCHANGED <<hostLease, sessLease, gate, req>>

Finish(p) ==
    /\ pc' = [pc EXCEPT ![p] = "idle"]
    /\ req' = [req EXCEPT ![p] = NoReq]
    /\ hostLease' = [h \in Hosts |-> IF hostLease[h] = p THEN NoProc ELSE hostLease[h]]
    /\ sessLease' = [s \in Sessions |-> IF sessLease[s] = p THEN NoProc ELSE sessLease[s]]
    /\ gate' = IF gate = p THEN NoProc ELSE gate
    /\ snap' = [snap EXCEPT ![p] = NoRow]

At(p, l, s) == pc[p] = l /\ req[p].sess = s

(* One row write: UPDATE sessions SET status, tmux_target, updated_at. *)
SetRow(s, st, t, i) ==
    row' = [row EXCEPT ![s] = [row[s] EXCEPT !.status = st, !.target = t,
                                             !.ver = row[s].ver + 1, !.inc = i]]

(* A dead pane takes its tmux options with it; kill-session is idempotent. *)
Dead(q) == [q EXCEPT !.live = FALSE, !.marked = FALSE, !.gen = FALSE]
KillAt(t) ==
    pane' = [pane EXCEPT ![t] = [Dead(pane[t]) EXCEPT !.killed = pane[t].killed \/ pane[t].live]]

(* The target a handler works on, fixed when it loaded the session. *)
Target(p) == TmuxTarget(snap[p], req[p].sess)

(* A managed ssh pane is spoken to by the id its handler looked up when it *)
(* verified or marked it: one that took its name since is left alone.      *)
HoldsPane(p) == IsSsh(req[p].sess) /\ ~snap[p].ext => snap[p].inc = pane[Target(p)].inc
KillHeld(p) == IF HoldsPane(p) THEN KillAt(Target(p)) ELSE UNCHANGED pane

Mishaps == used.faults + used.drops + used.crashes
Surprises == Mishaps + used.tools + used.users

Fault == /\ Surprises < MaxSurprises
         /\ used' = [used EXCEPT !.faults = @ + 1]

UserOps == {"start", "stop", "delete", "forceDelete", "patch", "patchFlags"}

(* A request on an existing session: load answers 404 when there is none. *)
Request(p, op, s) ==
    /\ p \in Users /\ pc[p] = "idle" /\ op \in UserOps
    /\ Exists(s)
    /\ used.requests < MaxRequests
    /\ used' = [used EXCEPT !.requests = @ + 1]
    /\ req' = [req EXCEPT ![p] = [op |-> op, sess |-> s]]
    /\ pc' = [pc EXCEPT ![p] = IF op \in {"patch", "patchFlags"} THEN "gate" ELSE "host"]
    /\ UNCHANGED <<row, pane, leases, snap, hook, observer, lost>>

(* A request that creates a row, under a fresh id; attaching again to a    *)
(* bound tmux session finds the row it has.                                *)
RequestNew(p, op, s) ==
    /\ p \in Users /\ pc[p] = "idle" /\ op \in {"create", "spawn", "attach"}
    /\ \/ row[s].status = "unborn"
       \/ op = "attach" /\ row[s].target = UserTarget(s)
    /\ \A q \in Procs :
          pc[q] # "idle" /\ req[q].sess = s => Exists(s) \/ {op, req[q].op} = {"attach"}
    /\ used.requests < MaxRequests
    /\ used' = [used EXCEPT !.requests = @ + 1]
    /\ req' = [req EXCEPT ![p] = [op |-> op, sess |-> s]]
    /\ pc' = [pc EXCEPT ![p] = "host"]
    /\ UNCHANGED <<row, pane, leases, snap, hook, observer, lost>>

(* acquire_host_lifecycle.  create_and_spawn goes on to the hand-off gate, *)
(* create and attach insert at once, the others resolve their session lock.*)
AcquireHost(p, s) ==
    /\ At(p, "host", s)
    /\ hostLease[HostOf[s]] = NoProc
    /\ hostLease' = [hostLease EXCEPT ![HostOf[s]] = p]
    /\ pc' = [pc EXCEPT ![p] = CASE req[p].op = "spawn" -> "handoff"
                                 [] req[p].op \in {"create", "attach"} -> "insert"
                                 [] OTHER -> "gate"]
    /\ UNCHANGED <<row, pane, sessLease, gate, req, snap, hook, observer, lost, used>>

(* create_and_spawn_session and claim_card_and_spawn_session hold the gate *)
(* from before the insert until the new session's lock is theirs.          *)
EnterHandoff(p, s) ==
    /\ At(p, "handoff", s)
    /\ gate = NoProc
    /\ gate' = p
    /\ pc' = [pc EXCEPT ![p] = "insert"]
    /\ UNCHANGED <<row, pane, hostLease, sessLease, req, snap, hook, observer, lost, used>>

(* create_session_on_host, or create_or_get_external_session for an attach *)
(* to a live tmux session: the row bound to it, or a new one that starts   *)
(* Stopped with its target.  An attach whose row lost that target          *)
(* meanwhile goes on under an id of its own, outside the model.            *)
Insert(p, s) ==
    /\ At(p, "insert", s)
    /\ IF req[p].op = "attach"
       THEN IF /\ pane[UserTarget(s)].live
               /\ row[s].status = "unborn" \/ row[s].target = UserTarget(s)
            THEN /\ row' = IF Exists(s) THEN row ELSE [row EXCEPT ![s] = ExternalRow(s)]
                 /\ Goto(p, "gate") /\ UNCHANGED snap
            ELSE Finish(p) /\ UNCHANGED row
       ELSE /\ row' = [row EXCEPT ![s] = NewRow]
            /\ IF req[p].op = "spawn"
               THEN Goto(p, "adopt") /\ snap' = [snap EXCEPT ![p] = row'[s]]
               ELSE Finish(p)
    /\ UNCHANGED <<pane, hook, observer, lost, used>>

(* try_lock_owned().expect(..) on the new session's lock, then the gate is *)
(* dropped.  HandoffNeverPanics says the lock is free here.                *)
Adopt(p, s) ==
    /\ At(p, "adopt", s)
    /\ sessLease[s] = NoProc
    /\ sessLease' = [sessLease EXCEPT ![s] = p]
    /\ gate' = NoProc
    /\ pc' = [pc EXCEPT ![p] = "launch"]
    /\ UNCHANGED <<row, pane, hostLease, req, snap, hook, observer, lost, used>>

(* Fault: a request resolves its session lock without passing the gate. *)
PassGateOpen(p, s) ==
    /\ At(p, "gate", s)
    /\ Goto(p, "session")
    /\ UNCHANGED <<row, pane, snap, hook, observer, lost, used>>

(* acquire_session_lifecycle: through the gate, then wait for the lock. *)
PassGate(p, s) ==
    /\ At(p, "gate", s)
    /\ gate = NoProc
    /\ Goto(p, "session")
    /\ UNCHANGED <<row, pane, snap, hook, observer, lost, used>>

AcquireSession(p, s) ==
    /\ At(p, "session", s)
    /\ sessLease[s] = NoProc
    /\ sessLease' = [sessLease EXCEPT ![s] = p]
    /\ pc' = [pc EXCEPT ![p] = "locked"]
    /\ UNCHANGED <<row, pane, hostLease, gate, req, snap, hook, observer, lost, used>>

-------------------------------------------------------------------------------
(* start_session_by_id, resume_idle_session_by_id and                      *)
(* reprovision_running_remote_mcp_session_by_id, under both leases.        *)
StartOps == {"start", "resume", "reprovision"}

(* Fault: the sweep trusts the list it took before waiting for the lease. *)
StillListed(op, r, s) == TRUE

(* The boot sweep works from an old list, so it looks again under the lease.*)
StillWanted(op, r, s) ==
    CASE op = "resume" -> r.status = "idle"
      [] op = "reprovision" -> r.status = "running" /\ ~r.ext /\ IsSsh(s) /\ s \in McpSessions
      [] OTHER -> TRUE

(* The reloaded row is gone (404), not wanted any more, an external record *)
(* with nothing to reattach to, or a running one deleted without force or  *)
(* asked to change its flags.                                              *)
Refused(p, s) ==
    /\ At(p, "locked", s)
    /\ \/ ~Exists(s)
       \/ req[p].op \in StartOps
          /\ \/ ~StillWanted(req[p].op, row[s], s)
             \/ row[s].ext /\ row[s].target = NoTarget
             \/ row[s].ext /\ ~pane[TmuxTarget(row[s], s)].live
       \/ req[p].op \in {"delete", "patchFlags"} /\ row[s].status = "running"
    /\ Finish(p)
    /\ UNCHANGED <<row, pane, hook, observer, lost, used>>

(* start_session_locked: has_session decides reattach or launch. *)
StartProbe(p, s) ==
    /\ At(p, "locked", s)
    /\ Exists(s) /\ req[p].op \in StartOps /\ StillWanted(req[p].op, row[s], s)
    /\ row[s].ext => row[s].target # NoTarget
    /\ LET live == pane[TmuxTarget(row[s], s)].live IN
         /\ row[s].ext => live
         /\ Goto(p, CASE ~live -> "launch"
                      [] live /\ IsSsh(s) /\ ~row[s].ext -> "verify"
                      [] OTHER -> "reattach")
    /\ snap' = [snap EXCEPT ![p] = row[s]]
    /\ UNCHANGED <<row, pane, hook, observer, lost, used>>

(* Fault: a persisted target is adopted whatever its prefix. *)
MayControlBound(p) ==
    LET t == Target(p) IN pane[t].live /\ (pane[t].marked \/ snap[p].target = t)

(* migrate_or_verify_remote_tmux_owner before any ssh pane is reattached,  *)
(* stopped or deleted.  An unmarked pane is adopted only when the row      *)
(* persisted this very target and it has Agentum's prefix; anything else   *)
(* answers 409.                                                            *)
MayControl(p) ==
    LET t == Target(p) IN
    pane[t].live /\ (pane[t].marked \/ (snap[p].target = t /\ t[1] # UserName))

Verify(p, s) ==
    /\ At(p, "verify", s)
    /\ MayControl(p)
    /\ pane' = [pane EXCEPT ![Target(p)].marked = TRUE]
    /\ snap' = [snap EXCEPT ![p].inc = pane[Target(p)].inc]
    /\ Goto(p, IF req[p].op \notin StartOps THEN "kill"
               ELSE IF pane[Target(p)].gen \/ s \notin McpSessions THEN "reattach" ELSE "rotate")
    /\ UNCHANGED <<row, hook, observer, lost, used>>

VerifyConflict(p, s) ==
    /\ At(p, "verify", s)
    /\ ~MayControl(p)
    /\ Finish(p)
    /\ UNCHANGED <<row, pane, hook, observer, lost, used>>

(* A verified pane with a stale credential generation is killed, its row   *)
(* set Idle, and the session launched afresh at the same target.           *)
RotateKill(p, s) ==
    /\ At(p, "rotate", s)
    /\ KillHeld(p)
    /\ Goto(p, "rotated")
    /\ UNCHANGED <<row, snap, hook, observer, lost, used>>

RotateIdle(p, s) ==
    /\ At(p, "rotated", s)
    /\ SetRow(s, "idle", NoTarget, row[s].inc)
    /\ Goto(p, "launch")
    /\ UNCHANGED <<pane, snap, hook, observer, lost, used>>

(* Re-arm the pipe and, unless the loaded row already said so, record the  *)
(* session Running.  A pane gone by now makes pipe-pane fail.              *)
Reattach(p, s) ==
    /\ At(p, "reattach", s)
    /\ IF ~pane[Target(p)].live \/ ~HoldsPane(p) \/ (snap[p].status = "running" /\ snap[p].target = Target(p))
       THEN UNCHANGED row
       ELSE SetRow(s, "running", Target(p), pane[Target(p)].inc)
    /\ Finish(p)
    /\ UNCHANGED <<pane, hook, observer, lost, used>>

(* spawn_agent_into_pane_locked up to the new tmux session.  A local agent *)
(* gets a hook token first.                                                *)
Launch(p, s) ==
    /\ At(p, "launch", s)
    /\ ~pane[Target(p)].live
    /\ used.launches < MaxLaunches
    /\ used' = [used EXCEPT !.launches = @ + 1]
    /\ pane' = [pane EXCEPT ![Target(p)] = [DeadPane EXCEPT !.live = TRUE,
                                                            !.inc = pane[Target(p)].inc + 1]]
    /\ hook' = IF IsSsh(s) THEN hook ELSE hook \cup {s}
    /\ Goto(p, IF IsSsh(s) THEN "mark" ELSE "commit")
    /\ UNCHANGED <<row, snap, observer, lost>>

(* new-session finds the name taken: nothing is left but the cleanup.      *)
NameTaken(p, s) ==
    /\ At(p, "launch", s)
    /\ pane[Target(p)].live
    /\ hook' = hook \ {s}
    /\ Finish(p)
    /\ UNCHANGED <<row, pane, observer, lost, used>>

(* Preflight, provisioning, new-session or pipe-pane failed: the same, and *)
(* the early returns skip the cleanup.  A pane that outlives a lost ssh    *)
(* reply or an ignored rollback is Launch followed by CallFails at "mark"  *)
(* or by CommitFails.                                                      *)
LaunchFails(p, s) ==
    /\ At(p, "launch", s)
    /\ Fault
    /\ hook' \in {hook, hook \ {s}}
    /\ Finish(p)
    /\ UNCHANGED <<row, pane, observer, lost>>

(* `let _ = kill_session(..)`: a rollback's own failure is ignored.  At    *)
(* "mark" the id was looked up just now.                                   *)
RollBack(p) ==
    \/ IF pc[p] = "mark" THEN KillAt(Target(p)) ELSE KillHeld(p)
    \/ UNCHANGED pane

(* The owner marker, then the credential generation, on an ssh pane. *)
MarkOwner(p, s) ==
    /\ At(p, "mark", s)
    /\ pane[Target(p)].live
    /\ pane' = [pane EXCEPT ![Target(p)].marked = TRUE]
    /\ snap' = [snap EXCEPT ![p].inc = pane[Target(p)].inc]
    /\ Goto(p, IF s \in McpSessions THEN "markGen" ELSE "commit")
    /\ UNCHANGED <<row, hook, observer, lost, used>>

MarkGeneration(p, s) ==
    /\ At(p, "markGen", s)
    /\ pane[Target(p)].live /\ HoldsPane(p)
    /\ pane' = [pane EXCEPT ![Target(p)].gen = TRUE]
    /\ Goto(p, "commit")
    /\ UNCHANGED <<row, snap, hook, observer, lost, used>>

(* A failed marker rolls the pane back.  The probe of the pane's identity, *)
(* which comes first, fails without one: that is CallFails at "mark".      *)
MarkFails(p, s) ==
    /\ At(p, "mark", s) \/ At(p, "markGen", s)
    /\ Fault
    /\ RollBack(p)
    /\ hook' = hook \ {s}
    /\ Finish(p)
    /\ UNCHANGED <<row, observer, lost>>

(* Fault: the status alone is written, as update_status does. *)
CommitStatus(p, s) ==
    /\ At(p, "commit", s)
    /\ SetRow(s, "running", row[s].target, pane[Target(p)].inc)
    /\ Finish(p)
    /\ UNCHANGED <<pane, hook, observer, lost, used>>

(* The pane is gone before it is marked. *)
MarkGone(p, s) ==
    /\ At(p, "mark", s) \/ At(p, "markGen", s)
    /\ ~pane[Target(p)].live \/ (pc[p] = "markGen" /\ ~HoldsPane(p))
    /\ hook' = hook \ {s}
    /\ Finish(p)
    /\ UNCHANGED <<row, pane, observer, lost, used>>

Commit(p, s) ==
    /\ At(p, "commit", s)
    /\ SetRow(s, "running", Target(p), pane[Target(p)].inc)
    /\ Finish(p)
    /\ UNCHANGED <<pane, hook, observer, lost, used>>

(* The row cannot be written: the new pane is rolled back. *)
CommitFails(p, s) ==
    /\ At(p, "commit", s)
    /\ Fault
    /\ RollBack(p)
    /\ hook' = hook \ {s}
    /\ Finish(p)
    /\ UNCHANGED <<row, observer, lost>>

-------------------------------------------------------------------------------
(* stop_session_locked and kill_session_locked differ only in how patient  *)
(* they are; delete_session_locked tears down the same way.                *)
DeleteOps == {"delete", "forceDelete"}

(* Faults: teardown only of a Running row; of the user's own session too;  *)
(* over ssh without a look at the owner marker.                            *)
TeardownRunning(r, s) ==
    IF r.ext \/ r.status # "running" THEN "record" ELSE IF IsSsh(s) THEN "verify" ELSE "kill"

TeardownAny(r, s) == IF IsSsh(s) THEN "verify" ELSE "kill"

TeardownUnverified(r, s) == IF r.ext THEN "record" ELSE "kill"

(* How to tear a session down: detach only from the user's own, kill at    *)
(* once on the local host, look and verify the owner first over ssh.       *)
Teardown(r, s) ==
    CASE r.ext -> "record"
      [] ~r.ext /\ ~IsSsh(s) -> "kill"
      [] OTHER -> IF pane[TmuxTarget(r, s)].live THEN "verify" ELSE "record"

StopProbe(p, s) ==
    /\ At(p, "locked", s)
    /\ Exists(s)
    /\ \/ req[p].op \in {"stop", "forceDelete"}
       \/ req[p].op = "delete" /\ row[s].status # "running"
    /\ snap' = [snap EXCEPT ![p] = row[s]]
    /\ Goto(p, Teardown(row[s], s))
    /\ UNCHANGED <<row, pane, hook, observer, lost, used>>

Kill(p, s) ==
    /\ At(p, "kill", s)
    /\ KillHeld(p)
    /\ Goto(p, "record")
    /\ UNCHANGED <<row, snap, hook, observer, lost, used>>

(* A delete only logs a teardown that fails, or that it could not verify,  *)
(* and removes the record anyway.                                          *)
DeleteUntorn(p, s) ==
    /\ \/ At(p, "kill", s)
       \/ At(p, "locked", s) /\ ~row[s].ext
    /\ req[p].op \in DeleteOps /\ Exists(s)
    /\ pc[p] = "locked" => row[s].status # "running" \/ req[p].op = "forceDelete"
    /\ Fault
    /\ snap' = [snap EXCEPT ![p] = IF pc[p] = "locked" THEN row[s] ELSE @]
    /\ lost' = lost \cup {TmuxTarget(snap'[p], s)}
    /\ Goto(p, "record")
    /\ UNCHANGED <<row, pane, hook, observer>>

(* The row write that ends a stop or a delete.  An external record keeps   *)
(* its target so that a later start can reattach.                          *)
Record(p, s) ==
    /\ At(p, "record", s)
    /\ IF req[p].op \in DeleteOps
       THEN /\ row' = [row EXCEPT ![s] = DeletedRow(row[s].ver)]
            /\ Finish(p)
       ELSE /\ SetRow(s, "stopped", IF snap[p].ext THEN Target(p) ELSE NoTarget, row[s].inc)
            /\ Goto(p, "cleanup") /\ UNCHANGED snap
    /\ UNCHANGED <<pane, hook, observer, lost, used>>

(* Fault: the hook token outlives the stop. *)
CleanupKeepsToken(p, s) ==
    /\ At(p, "cleanup", s)
    /\ Finish(p)
    /\ UNCHANGED <<row, pane, hook, observer, lost, used>>

(* Claude's MCP config file and the hook token go last. *)
Cleanup(p, s) ==
    /\ At(p, "cleanup", s)
    /\ hook' = hook \ {s}
    /\ Finish(p)
    /\ UNCHANGED <<row, pane, observer, lost, used>>

(* patch_session: a rename, or a pin or tool change that keeps the name.   *)
(* It holds the session lease only, and may patch a running session.       *)
Patch(p, s, n) ==
    /\ At(p, "locked", s)
    /\ Exists(s) /\ req[p].op = "patch"
    /\ row' = [row EXCEPT ![s] = [row[s] EXCEPT !.name = n, !.ver = row[s].ver + 1]]
    /\ Finish(p)
    /\ UNCHANGED <<pane, hook, observer, lost, used>>

(* A PATCH of the flags replaces the whole list, so a client that does not *)
(* send the external marker back drops it.  Refused on a running session.  *)
PatchFlags(p, s) ==
    /\ At(p, "locked", s)
    /\ Exists(s) /\ req[p].op = "patchFlags" /\ row[s].status # "running"
    /\ \E edit \in FlagEdits :
          row' = [row EXCEPT ![s] = [row[s] EXCEPT !.ext = row[s].ext /\ edit = "keep",
                                                   !.ver = row[s].ver + 1]]
    /\ Finish(p)
    /\ UNCHANGED <<pane, hook, observer, lost, used>>

(* attach_tmux_session once it owns the lease: arm the pipe, promote.  A   *)
(* row that is no longer external must own its ssh pane.                   *)
AttachArm(p, s) ==
    /\ At(p, "locked", s)
    /\ Exists(s) /\ req[p].op = "attach"
    /\ IF pane[UserTarget(s)].live /\ (row[s].ext \/ ~IsSsh(s) \/ pane[UserTarget(s)].marked)
       THEN SetRow(s, "running", UserTarget(s), pane[UserTarget(s)].inc)
       ELSE UNCHANGED row
    /\ Finish(p)
    /\ UNCHANGED <<pane, hook, observer, lost, used>>

(* A tmux, ssh or store call fails and its error is the answer. *)
Fallible == {"insert", "locked", "verify", "rotate", "rotated", "reattach",
             "mark", "kill", "record"}

CallFails(p, s) ==
    /\ pc[p] \in Fallible /\ req[p].sess = s
    /\ ~(req[p].op \in DeleteOps /\ pc[p] = "kill")
    /\ Fault
    /\ hook' = IF pc[p] = "mark" THEN hook \ {s} ELSE hook
    /\ Finish(p)
    /\ UNCHANGED <<row, pane, observer, lost>>

(* The client hangs up: the handler's future is dropped at an await.  The  *)
(* hand-off from insert to lock has none.                                  *)
ClientGone(p, s) ==
    /\ p \in Users /\ pc[p] \notin {"idle", "adopt"} /\ req[p].sess = s
    /\ Surprises < MaxSurprises
    /\ used' = [used EXCEPT !.drops = @ + 1]
    /\ Finish(p)
    /\ UNCHANGED <<row, pane, hook, observer, lost>>

-------------------------------------------------------------------------------
(* resume_idle_sessions: two lists, then one session after the other; only *)
(* then do the background workers start.                                   *)
BootList ==
    /\ boot.phase = "list"
    /\ boot' = [boot EXCEPT !.phase = "listRunning",
                            !.idle = {s \in Sessions : row[s].status = "idle"}]
    /\ UNCHANGED <<row, pane, control, snap, hook, seen, watch, lost, used>>

BootListRunning ==
    /\ boot.phase = "listRunning"
    /\ boot' = [boot EXCEPT !.phase = "sweep",
                            !.running = {s \in Sessions : row[s].status = "running"}]
    /\ UNCHANGED <<row, pane, control, snap, hook, seen, watch, lost, used>>

BootNext(s) ==
    /\ boot.phase = "sweep" /\ pc[Boot] = "idle"
    /\ s \in boot.idle \/ (boot.idle = {} /\ s \in boot.running)
    /\ boot' = [boot EXCEPT !.idle = @ \ {s},
                            !.running = IF s \in boot.idle THEN @ ELSE @ \ {s}]
    /\ req' = [req EXCEPT ![Boot] =
                 [op |-> IF s \in boot.idle THEN "resume" ELSE "reprovision", sess |-> s]]
    /\ pc' = [pc EXCEPT ![Boot] = IF Exists(s) THEN "host" ELSE "idle"]
    /\ UNCHANGED <<row, pane, leases, snap, hook, seen, watch, lost, used>>

BootDone ==
    /\ boot.phase = "sweep" /\ pc[Boot] = "idle"
    /\ boot.idle = {} /\ boot.running = {}
    /\ boot' = [boot EXCEPT !.phase = "up"]
    /\ UNCHANGED <<row, pane, control, snap, hook, seen, watch, lost, used>>

(* The daemon dies and comes back: the store and tmux survive it. *)
Crash ==
    /\ Surprises < MaxSurprises
    /\ used' = [used EXCEPT !.crashes = @ + 1]
    /\ hostLease' = [h \in Hosts |-> NoProc]
    /\ sessLease' = [s \in Sessions |-> NoProc]
    /\ gate' = NoProc
    /\ pc' = [p \in Procs |-> "idle"]
    /\ req' = [p \in Procs |-> NoReq]
    /\ snap' = [p \in Procs |-> NoRow]
    /\ hook' = {}
    /\ boot' = [phase |-> "list", idle |-> {}, running |-> {}]
    /\ seen' = NothingSeen
    /\ watch' = [s \in Sessions |-> NoWatch]
    /\ UNCHANGED <<row, pane, lost>>

-------------------------------------------------------------------------------
(* Watchdog::reconcile: list the running rows, then, after an await, drop  *)
(* tasks that ended or whose row was not listed and start missing ones,    *)
(* each from the row as listed.                                            *)
Listed(r) == IF r.status = "running" THEN [r EXCEPT !.name = NoRow.name, !.inc = 0] ELSE NoRow

(* Fault: a finished task is not pruned, so it is never started again. *)
RewatchedOnce(w, r) ==
    IF r.status = "running" /\ w.phase = "off"
    THEN [phase |-> "sleep", target |-> r.target, ver |-> r.ver, inc |-> 0]
    ELSE w

ReconcileList ==
    /\ boot.phase = "up" /\ ~seen.fresh
    /\ seen' = [fresh |-> TRUE,
                rows |-> [s \in Sessions |-> Listed(row[s])]]
    /\ UNCHANGED <<row, pane, control, snap, hook, boot, watch, lost, used>>

Rewatched(w, r) ==
    IF r.status # "running" THEN NoWatch
    ELSE IF w.phase \in {"off", "ended"}
         THEN [phase |-> "sleep", target |-> r.target, ver |-> r.ver, inc |-> 0]
         ELSE w

ReconcileApply ==
    /\ seen.fresh
    /\ watch' = [s \in Sessions |-> Rewatched(watch[s], seen.rows[s])]
    /\ seen' = NothingSeen
    /\ UNCHANGED <<row, pane, control, snap, hook, boot, lost, used>>

(* Fault: the pane is sampled without the host lease. *)
SampleCrashUnleased(s) ==
    /\ watch[s].phase = "sleep"
    /\ LET q == pane[watch[s].target] IN ~q.live \/ q.sig
    /\ watch' = [watch EXCEPT ![s] = [watch[s] EXCEPT !.phase = "commit", !.inc = row[s].inc]]
    /\ UNCHANGED <<row, pane, control, snap, hook, boot, seen, lost, used>>

(* One tick of watch_session: take the host lease, sample the pane, drop   *)
(* the lease.  A missing pane or a crash signature is committed later.     *)
SampleCrash(s) ==
    /\ watch[s].phase = "sleep"
    /\ hostLease[HostOf[s]] = NoProc
    /\ LET q == pane[watch[s].target] IN ~q.live \/ q.sig
    /\ watch' = [watch EXCEPT ![s] = [watch[s] EXCEPT !.phase = "commit", !.inc = row[s].inc]]
    /\ UNCHANGED <<row, pane, control, snap, hook, boot, seen, lost, used>>

(* A healthy pane whose foreground tool changed (seen on two ticks). *)
SampleTool(s) ==
    /\ watch[s].phase = "sleep"
    /\ hostLease[HostOf[s]] = NoProc
    /\ LET q == pane[watch[s].target] IN q.live /\ ~q.sig
    /\ Surprises < MaxSurprises
    /\ used' = [used EXCEPT !.tools = @ + 1]
    /\ watch' = [watch EXCEPT ![s].phase = "patch"]
    /\ UNCHANGED <<row, pane, control, snap, hook, boot, seen, lost>>

(* patch_session_tool outside every lease; the task adopts the new         *)
(* updated_at as the one it expects.                                       *)
PatchTool(s) ==
    /\ watch[s].phase = "patch"
    /\ IF Exists(s)
       THEN /\ row' = [row EXCEPT ![s].ver = row[s].ver + 1]
            /\ watch' = [watch EXCEPT ![s] = [watch[s] EXCEPT !.phase = "sleep",
                                                           !.ver = row[s].ver + 1]]
       ELSE /\ watch' = [watch EXCEPT ![s].phase = "sleep"]
            /\ UNCHANGED row
    /\ UNCHANGED <<pane, control, snap, hook, boot, seen, lost, used>>

(* Fault: the compare-and-set forgets updated_at. *)
MatchesTarget(r, w) == r.status = "running" /\ r.target = w.target

(* compare_and_set_status_and_target. *)
Matches(r, w) == r.status = "running" /\ r.target = w.target /\ r.ver = w.ver

CommitCrash(s) ==
    /\ watch[s].phase = "commit"
    /\ IF Matches(row[s], watch[s])
       THEN SetRow(s, "crashed", NoTarget, row[s].inc)
       ELSE UNCHANGED row
    /\ watch' = [watch EXCEPT ![s] = [NoWatch EXCEPT !.phase = "ended"]]
    /\ UNCHANGED <<pane, control, snap, hook, boot, seen, lost, used>>

-------------------------------------------------------------------------------
(* The world outside the daemon. *)
PaneExits(t) ==
    /\ pane[t].live
    /\ pane' = [pane EXCEPT ![t] = Dead(pane[t])]
    /\ UNCHANGED <<row, control, snap, hook, observer, lost, used>>

PrintsSignature(t) ==
    /\ pane[t].live /\ ~pane[t].sig /\ t[1] # UserName
    /\ pane' = [pane EXCEPT ![t].sig = TRUE]
    /\ UNCHANGED <<row, control, snap, hook, observer, lost, used>>

UserCreatesPane(s) ==
    LET t == UserTarget(s) IN
    /\ ~pane[t].live
    /\ Surprises < MaxSurprises
    /\ used' = [used EXCEPT !.users = @ + 1]
    /\ pane' = [pane EXCEPT ![t] = [DeadPane EXCEPT !.live = TRUE, !.user = TRUE,
                                                 !.inc = pane[t].inc + 1]]
    /\ UNCHANGED <<row, control, snap, hook, observer, lost>>

-------------------------------------------------------------------------------
(* A handler's next step, faults aside. *)
Advance(p, s) ==
    \/ EnterHandoff(p, s) \/ Insert(p, s) \/ Adopt(p, s) \/ PassGate(p, s)
    \/ Refused(p, s) \/ StartProbe(p, s) \/ Verify(p, s) \/ VerifyConflict(p, s)
    \/ RotateKill(p, s) \/ RotateIdle(p, s) \/ Reattach(p, s) \/ Launch(p, s)
    \/ NameTaken(p, s)
    \/ MarkOwner(p, s) \/ MarkGeneration(p, s) \/ MarkGone(p, s) \/ Commit(p, s)
    \/ StopProbe(p, s) \/ Kill(p, s) \/ Record(p, s) \/ Cleanup(p, s)
    \/ AttachArm(p, s) \/ PatchFlags(p, s)
    \/ \E n \in Names : Patch(p, s, n)

Acquire(p, s) == AcquireHost(p, s) \/ AcquireSession(p, s)

Faulty(p, s) ==
    \/ CallFails(p, s) \/ LaunchFails(p, s) \/ MarkFails(p, s) \/ CommitFails(p, s)
    \/ DeleteUntorn(p, s) \/ ClientGone(p, s)

Handlers == \E p \in Procs, s \in Sessions :
    \/ \E op \in Ops : Request(p, op, s) \/ RequestNew(p, op, s)
    \/ Acquire(p, s) \/ Advance(p, s) \/ Faulty(p, s)

Startup == BootList \/ BootListRunning \/ BootDone \/ \E s \in Sessions : BootNext(s)

Watchdog ==
    \/ ReconcileList \/ ReconcileApply
    \/ \E s \in Sessions : SampleCrash(s) \/ SampleTool(s) \/ PatchTool(s) \/ CommitCrash(s)

World ==
    \/ Crash
    \/ \E t \in Targets : PaneExits(t) \/ PrintsSignature(t)
    \/ \E s \in Sessions : UserCreatesPane(s)

Next == Handlers \/ Startup \/ Watchdog \/ World

Spec == Init /\ [][Next]_vars

-------------------------------------------------------------------------------
(* The runtime keeps polling a woken handler and a started task, and       *)
(* tokio's mutexes are first come, first served, so a waiter is not passed *)
(* over forever.  Requests, faults and the world outside owe nothing.      *)
Fairness ==
    /\ \A p \in Procs :
          /\ WF_vars(\E s \in Sessions : Advance(p, s))
          /\ SF_vars(\E s \in Sessions : Acquire(p, s))
    /\ WF_vars(Startup)
    /\ WF_vars(ReconcileList \/ ReconcileApply)
    /\ \A s \in Sessions :
          /\ SF_vars(SampleCrash(s))
          /\ WF_vars(PatchTool(s) \/ CommitCrash(s))

FairSpec == Spec /\ Fairness

-------------------------------------------------------------------------------
(* What the leases guarantee, place by place; the properties below follow. *)
CreateOps == {"create", "spawn"}
PatchOps == {"patch", "patchFlags"}
BootOps == {"resume", "reprovision"}
StopOps == {"stop"} \cup DeleteOps

LaunchPCs == {"rotate", "rotated", "reattach", "launch", "mark", "markGen", "commit"}
StopPCs == {"kill", "record", "cleanup"}
LoadedPCs == {"verify"} \cup LaunchPCs \cup StopPCs
LockedPCs == {"locked"} \cup LoadedPCs
GatedPCs == {"insert", "adopt"}
HostPCs == {"handoff", "insert", "adopt", "gate", "session"} \cup LockedPCs

(* A handler holds exactly the leases its place calls for: none is leaked  *)
(* by an early return, and no row or pane is worked on without its lease.  *)
LeasesMatch ==
    \A p \in Procs :
        /\ \A s \in Sessions : sessLease[s] = p <=> pc[p] \in LockedPCs /\ req[p].sess = s
        /\ \A h \in Hosts :
              hostLease[h] = p <=> /\ pc[p] \in HostPCs /\ req[p].op \notin PatchOps
                                  /\ HostOf[req[p].sess] = h
        /\ gate = p <=> pc[p] \in GatedPCs /\ req[p].op = "spawn"

(* The steps each operation goes through; only startup resumes. *)
OpFits(op, l) ==
    /\ l \in {"handoff", "adopt"} => op = "spawn"
    /\ l = "insert" => op \in CreateOps \cup {"attach"}
    /\ l \in {"gate", "session", "locked"} => op \notin CreateOps
    /\ l = "host" => op \notin PatchOps
    /\ l = "verify" => op \in StartOps \cup StopOps
    /\ l \in LaunchPCs => op \in StartOps \cup {"spawn"}
    /\ l \in StopPCs => op \in StopOps

OpsInPlace ==
    \A p \in Procs :
        /\ OpFits(req[p].op, pc[p])
        /\ pc[p] # "idle" => (req[p].op \in BootOps <=> p = Boot)

(* Until a creating handler hands its id to the session lock, nobody else  *)
(* works on it: the row is as inserted and late-comers wait at the gate.   *)
PrivateTo(p) ==
    LET s == req[p].sess IN
    /\ pc[p] \in {"host", "handoff", "insert"} /\ req[p].op \in CreateOps =>
          /\ row[s].status = "unborn"
          /\ \A q \in Procs \ {p} : req[q].sess = s => pc[q] = "idle"
    /\ pc[p] = "adopt" =>
          /\ row[s].status = "idle" /\ row[s].target = NoTarget
          /\ \A q \in Procs \ {p} : req[q].sess = s => pc[q] \in {"idle", "host", "gate"}

NewIdIsPrivate == \A p \in Procs : PrivateTo(p)

(* What a handler loaded under its lease still holds when it acts on it:   *)
(* the row is there, it is external or not as loaded, and a resume or a    *)
(* spawn does not work on a session the user stopped.                      *)
SnapshotOf(p) ==
    LET s == req[p].sess IN
    pc[p] \in {"adopt"} \cup LoadedPCs =>
        /\ Exists(s)
        /\ row[s].ext = snap[p].ext
        /\ req[p].op \in BootOps \cup {"spawn"} => row[s].status # "stopped"

SnapshotIsCurrent == \A p \in Procs : SnapshotOf(p)

LeaseInv == LeasesMatch /\ OpsInPlace /\ NewIdIsPrivate /\ SnapshotIsCurrent

(* While every flag edit keeps the marker, only an external record leads   *)
(* to a tmux session of the user, and no handler that loaded one gets to a *)
(* step that kills.                                                        *)
Managed(r) == r.target = NoTarget \/ r.target[1] # UserName

SparesUser(p) ==
    /\ snap[p].ext \/ Managed(snap[p])
    /\ pc[p] \in {"adopt"} \cup (LoadedPCs \ {"reattach", "record", "cleanup"}) => ~snap[p].ext
    /\ pc[p] \in {"gate", "session", "locked"} /\ req[p].op = "attach"
          => row[req[p].sess].ext \/ ~Exists(req[p].sess)

UserTargetsAreExternal ==
    /\ \A t \in Targets : pane[t].user => t[1] = UserName
    /\ \A s \in Sessions : row[s].ext \/ Managed(row[s])
    /\ \A p \in Procs : SparesUser(p)

(* "a newly inserted session lock cannot already be held": the .expect in  *)
(* create_and_spawn_session never panics, whatever request learned of the  *)
(* new row between its insert and the try_lock.                            *)
HandoffNeverPanics ==
    \A p \in Procs : pc[p] = "adopt" => sessLease[req[p].sess] = NoProc

(* When the watchdog's compare-and-set would succeed, the row still is the *)
(* generation that was sampled and its pane is not a healthy one: a crash  *)
(* observed before a stop, restart or reattach can never retire it.        *)
CrashCommitIsCurrent ==
    \A s \in Sessions :
        watch[s].phase = "commit" /\ Matches(row[s], watch[s]) =>
            /\ row[s].inc = watch[s].inc
            /\ LET q == pane[row[s].target] IN ~(q.live /\ ~q.sig /\ q.inc = row[s].inc)

(* A pane that a request tore down is never recorded as a crash, as long   *)
(* as no request failed or was dropped half way: the host lease keeps the  *)
(* watchdog from sampling between the kill and the row write.              *)
StopIsNotACrash ==
    Mishaps = 0 =>
        \A s \in Sessions :
            watch[s].phase = "commit" /\ Matches(row[s], watch[s]) =>
                LET q == pane[row[s].target] IN ~(q.killed /\ ~q.sig)

(* A step that brings a stopped session back, or removes it, is a user's   *)
(* own start, attach or delete holding the session's lease.                *)
RespectsStop ==
    \A s \in Sessions :
        row[s].status = "stopped" /\ row'[s].status # "stopped" =>
            \E p \in Users : /\ sessLease[s] = p
                             /\ req[p].op \in {"start", "attach"} \cup DeleteOps

(* A stopped session is only brought back, or removed, by a user's own     *)
(* start, attach or delete holding its lease: the boot sweep, working from *)
(* a list taken before the stop, never undoes it.                          *)
StopIsRespected == [][RespectsStop]_vars

(* A step that destroys a pane is a handler's that holds its session's     *)
(* lease and, over ssh, launched the pane in this very request or found it *)
(* to carry the session's owner marker.                                    *)
DestroysOwned ==
    \A t \in Targets :
        pane'[t].killed /\ ~pane[t].killed =>
            \E p \in Procs : /\ sessLease[t[2]] = p
                             /\ IsSsh(t[2]) => pane[t].marked \/ pc[p] = "mark"

(* The daemon destroys a pane only under its session's lease, and never an *)
(* ssh pane it neither launched in this request nor found to carry the     *)
(* session's owner marker.                                                 *)
DestroysOnlyOwned == [][DestroysOwned]_vars

(* Once a stop is complete the pane's hook token is refused, whatever      *)
(* failed launches came before or after it.                                *)
StoppedRejectsHooks ==
    used.drops = 0 =>
        \A s \in Sessions :
            row[s].status = "stopped" /\ sessLease[s] = NoProc => s \notin hook

(* "stop/kill/delete only ever detach; the underlying tmux session is      *)
(* never killed" (attach_tmux_session).                                    *)
UserPaneNeverKilled == \A t \in Targets : ~(pane[t].user /\ pane[t].killed)

(* Every live managed pane can be found again from its session's row, or   *)
(* a delete has logged that it left it behind: no agent runs on without a  *)
(* record that leads to it.                                                *)
PaneReachable ==
    \A t \in Targets :
        pane[t].live /\ t[1] # UserName /\ sessLease[t[2]] = NoProc =>
            \/ Exists(t[2]) /\ TmuxTarget(row[t[2]], t[2]) = t
            \/ t \in lost

(* A dead pane under a Running row is eventually noticed. *)
DeadPaneNoticed ==
    \A s \in Sessions :
        row[s].status = "running" /\ ~pane[TmuxTarget(row[s], s)].live
            ~> row[s].status # "running" \/ pane[TmuxTarget(row[s], s)].live

(* Every request is answered: no lease is waited for in a cycle. *)
RequestsFinish == \A p \in Procs : pc[p] # "idle" ~> pc[p] = "idle"

-----------------------------------------------------------------------------
(* Statements the code does not keep: TLC refutes each of them, see the    *)
(* README, "What does not hold".                                           *)

(* "A new pane is not committed until its durable ownership marker is in   *)
(* place. Roll back" (spawn_agent_into_pane_locked): when a call fails, no *)
(* live ssh pane is left that is neither marked nor bound by its row, for  *)
(* which start, stop and delete would all answer 409.                      *)
PaneAdoptable ==
    used.drops + used.crashes = 0 =>
      \A t \in Targets :
        pane[t].live /\ IsSsh(t[2]) /\ t[1] # UserName /\ sessLease[t[2]] = NoProc =>
            pane[t].marked \/ row[t[2]].target = t \/ t \in lost
===============================================================================
