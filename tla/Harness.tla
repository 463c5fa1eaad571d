------------------------------- MODULE Harness -------------------------------
(***************************************************************************)
(* The harness engine: runs over one project directory, each with its      *)
(* backlog in memory, and feature_list.json and decisions.md on disk.  A   *)
(* drive loop takes the features one at a time through an agent, the       *)
(* unit-test gate and the QA gate, with retries, blocking and an optional  *)
(* human confirmation, inside optional role gates (PM, architect,          *)
(* reviewer).  Manual requests (init, verify, confirm, stop) run beside    *)
(* it; nothing but the driver slot keeps them apart.                       *)
(*                                                                         *)
(* Every engine call locks the run, changes it, unlocks, and only then     *)
(* writes the snapshot it took to disk: two steps here.  What an agent     *)
(* does, what a gate script answers and which boxes a spec has ticked are  *)
(* free choices.  Pointers kept for display are left out.                  *)
(***************************************************************************)
EXTENDS Integers, FiniteSets

CONSTANTS Runs,         \* harness ids; all runs share the project directory
          NumFeatures,  \* features of the backlog, in order
          Knobs,        \* knobs feature_list.json may be configured with
          Tasks,        \* concurrent requests and drive loops
          NoRun,
          ManualOps,    \* requests made besides run and confirm
          DefaultRetries, \* default_max_retries
          MaxRequests,  \* bound: API requests
          MaxMishaps    \* bound: failed calls, hung-up clients, daemon crashes

Features == 1..NumFeatures

KnobRecords == [roles : BOOLEAN, hitlAtQa : BOOLEAN, hitlOnBlock : BOOLEAN, retries : Nat]

ASSUME FeaturesAssumption == NumFeatures \in Nat \ {0}
ASSUME KnobsAssumption == Knobs \subseteq KnobRecords /\ Knobs # {} /\ DefaultRetries \in Nat
ASSUME IdsAssumption == NoRun \notin Runs
ASSUME OpsAssumption == ManualOps \subseteq {"init", "verify", "stop"}
ASSUME HarnessBoundsAssumption == MaxRequests \in Nat /\ MaxMishaps \in Nat

FeatureStates == {"pending", "coding", "verifying", "readyToTest", "awaitingConfirm",
                  "done", "blocked"}
HarnessStates == {"idle", "initVerifying", "running", "verifying", "awaitingConfirmation",
                  "blocked", "done", "failed"}
SpecPhases == {"authoring", "architecture", "decompose", "executing", "review", "done",
               "blocked", "awaitingConfirm"}

VARIABLES
    run,    \* HarnessEngine::runs: each run's state, backlog, phase and driver slot
    disk,   \* feature_list.json and the phase decisions.md records last
    task,   \* requests and drive loops: where each is, and the write it owes the disk
    gates,  \* history: the gates each feature has passed
    knobs,  \* history: the knobs the backlog was configured with
    shared, \* history: two tasks or two runs were at work at the same time
    used    \* how much of each bound has been spent

vars == <<run, disk, task, gates, knobs, shared, used>>

Backlogs == [features : [Features -> [state : FeatureStates, attempts : Nat]],
             knobs : KnobRecords]

RunRecords == [on : BOOLEAN, fresh : BOOLEAN, state : HarnessStates, list : Backlogs,
               phase : SpecPhases, phaseAttempts : Nat, driving : BOOLEAN]

Disks == [list : Backlogs, phase : SpecPhases]

Ops == {"none", "drive", "init", "verify", "confirm"}
PCs == {"none", "save", "note", "init", "initRun", "begin", "reset", "phases", "authoring", "gate", "advance",
        "block", "await", "decompose", "reload", "enter", "pick", "start", "spawn",
        "work", "verify", "verifying", "verdict", "qa", "qaRun", "green", "park", "handoff",
        "red", "halt", "retry", "review", "finish", "release", "failed", "confirm",
        "confirmed", "resume", "end"}

TaskRecords == [op : Ops, pc : PCs, run : Runs \cup {NoRun}, feature : Features,
                list : Backlogs, phase : SpecPhases, next : PCs,
                phases : BOOLEAN, err : BOOLEAN]

NewFeature == [state |-> "pending", attempts |-> 0]
DefaultKnobs == [roles |-> FALSE, hitlAtQa |-> FALSE, hitlOnBlock |-> FALSE,
                 retries |-> DefaultRetries]
NewBacklog(k) == [features |-> [f \in Features |-> NewFeature], knobs |-> k]

NoTask == [op |-> "none", pc |-> "none", run |-> NoRun, feature |-> 1,
           list |-> NewBacklog(DefaultKnobs), phase |-> "executing",
           next |-> "none", phases |-> FALSE, err |-> FALSE]
NotRegistered == [on |-> FALSE, fresh |-> TRUE, state |-> "idle",
                  list |-> NewBacklog(DefaultKnobs), phase |-> "executing",
                  phaseAttempts |-> 0, driving |-> FALSE]

TypeOK ==
    /\ run \in [Runs -> RunRecords]
    /\ disk \in Disks
    /\ task \in [Tasks -> TaskRecords]
    /\ gates \in [Features -> SUBSET {"unit", "qa", "manual", "spec"}]
    /\ knobs \in KnobRecords
    /\ shared \in BOOLEAN
    /\ used \in [requests : Nat, faults : Nat, drops : Nat, crashes : Nat]

(* A project whose backlog nobody has worked on yet. *)
Init ==
    /\ run = [r \in Runs |-> NotRegistered]
    /\ knobs \in Knobs
    /\ disk = [list |-> NewBacklog(knobs), phase |-> "executing"]
    /\ task = [t \in Tasks |-> NoTask]
    /\ gates = [f \in Features |-> {}]
    /\ shared = FALSE
    /\ used = [requests |-> 0, faults |-> 0, drops |-> 0, crashes |-> 0]

-------------------------------------------------------------------------------
(* Steps of a task.  An engine call of a run that was stopped meanwhile    *)
(* answers "not found".                                                    *)
Busy(t) == task[t].pc # "none"
At(t, l) == task[t].pc = l
R(t) == run[task[t].run]
Call(t, l) == At(t, l) /\ R(t).on

Mishaps == used.faults + used.drops + used.crashes

Goto(t, l) == task' = [task EXCEPT ![t] = [task[t] EXCEPT !.pc = l]]
End(t) == task' = [task EXCEPT ![t] = NoTask]

(* A drive loop that ends goes on to drive's epilogue, a request answers. *)
Leave(t, err) ==
    IF task[t].op = "drive"
    THEN task' = [task EXCEPT ![t] = [NoTask EXCEPT !.op = "drive", !.run = task[t].run,
                                                   !.pc = "release", !.err = err]]
    ELSE End(t)

SetState(t, st) == run' = [run EXCEPT ![task[t].run] = [R(t) EXCEPT !.state = st]]

(* Change the backlog under the lock; its snapshot is owed to the disk. *)
SetBacklog(t, list, l) ==
    /\ run' = [run EXCEPT ![task[t].run] = [R(t) EXCEPT !.list = list]]
    /\ task' = [task EXCEPT ![t] = [task[t] EXCEPT !.pc = "save", !.list = list, !.next = l]]

WithFeature(list, f, x) == [list EXCEPT !.features = [list.features EXCEPT ![f] = x]]
WithState(list, f, st) == WithFeature(list, f, [list.features[f] EXCEPT !.state = st])

SetFeatureState(t, st, l) == SetBacklog(t, WithState(R(t).list, task[t].feature, st), l)

(* save_features: the snapshot, whatever was written since it was taken. *)
Save(t) ==
    /\ At(t, "save")
    /\ disk' = [disk EXCEPT !.list = task[t].list]
    /\ task' = [task EXCEPT ![t] = [task[t] EXCEPT !.pc = task[t].next, !.next = "none",
                                                   !.list = NoTask.list]]
    /\ UNCHANGED <<run, gates, knobs, shared, used>>

(* set_phase, then the marker decisions.md gets when the phase changed. *)
SetPhase(t, p, l) ==
    /\ run' = [run EXCEPT ![task[t].run] = [R(t) EXCEPT !.phase = p, !.phaseAttempts = 0]]
    /\ task' = [task EXCEPT ![t] = IF R(t).phase = p THEN [task[t] EXCEPT !.pc = l]
                                   ELSE [task[t] EXCEPT !.pc = "note", !.phase = p, !.next = l]]

Note(t) ==
    /\ At(t, "note")
    /\ disk' = [disk EXCEPT !.phase = task[t].phase]
    /\ task' = [task EXCEPT ![t] = [task[t] EXCEPT !.pc = task[t].next, !.next = "none",
                                                   !.phase = NoTask.phase]]
    /\ UNCHANGED <<run, gates, knobs, shared, used>>

(* A failed append is ignored. *)
NoteFails(t) ==
    /\ At(t, "note")
    /\ Mishaps < MaxMishaps
    /\ used' = [used EXCEPT !.faults = @ + 1]
    /\ task' = [task EXCEPT ![t] = [task[t] EXCEPT !.pc = task[t].next, !.next = "none",
                                                   !.phase = NoTask.phase]]
    /\ UNCHANGED <<run, disk, gates, knobs, shared>>

world == <<disk, gates, knobs, shared, used>>

-------------------------------------------------------------------------------
(* The requests. *)
Overlaps == \E t \in Tasks : Busy(t)

Request(t) ==
    /\ ~Busy(t)
    /\ used.requests < MaxRequests
    /\ used' = [used EXCEPT !.requests = @ + 1]
    /\ shared' = (shared \/ Overlaps)

(* POST /api/harness: register a run from what is on disk. *)
Register(r) ==
    /\ run[r].fresh
    /\ used.requests < MaxRequests
    /\ used' = [used EXCEPT !.requests = @ + 1]
    /\ shared' = (shared \/ Overlaps \/ \E q \in Runs : run[q].on)
    /\ run' = [run EXCEPT ![r] = [NotRegistered EXCEPT !.on = TRUE, !.fresh = FALSE,
                                     !.list = disk.list, !.phase = disk.phase]]
    /\ UNCHANGED <<disk, task, gates, knobs>>

(* Fault: the slot is taken without a look at whether it is free. *)
ClaimableAlways(r) == run[r].on

(* claim_driver *)
Claimable(r) == run[r].on /\ ~run[r].driving

Drive(t, r) ==
    /\ run' = [run EXCEPT ![r] = [run[r] EXCEPT !.driving = TRUE]]
    /\ task' = [task EXCEPT ![t] = [NoTask EXCEPT !.op = "drive", !.pc = "init", !.run = r]]

RunRequest(t, r) ==
    /\ Request(t)
    /\ Claimable(r)
    /\ Drive(t, r)
    /\ UNCHANGED <<disk, gates, knobs>>

(* The manual requests; "verify" and "confirm" name a feature. *)
ManualRequest(t, r, op, f) ==
    /\ Request(t)
    /\ run[r].on
    /\ op \in (ManualOps \ {"stop"}) \cup {"confirm"}
    /\ task' = [task EXCEPT ![t] = [NoTask EXCEPT !.op = op, !.pc = op, !.run = r,
                                       !.feature = IF op = "init" THEN 1 ELSE f]]
    /\ UNCHANGED <<run, disk, gates, knobs>>

(* DELETE /api/harness/{id}: forget the run, leave its loop to find out. *)
Stop(r) ==
    /\ run[r].on /\ "stop" \in ManualOps
    /\ used.requests < MaxRequests
    /\ used' = [used EXCEPT !.requests = @ + 1]
    /\ run' = [run EXCEPT ![r] = [NotRegistered EXCEPT !.fresh = FALSE]]
    /\ UNCHANGED <<disk, task, gates, knobs, shared>>

-------------------------------------------------------------------------------
(* run_init, then the head of drive_inner. *)
InitStart(t) ==
    /\ Call(t, "init")
    /\ SetState(t, "initVerifying")
    /\ Goto(t, "initRun")
    /\ UNCHANGED world

(* Fault: a passing check leaves the run in InitVerifying. *)
InitPassesSilently(t) ==
    /\ Call(t, "initRun")
    /\ IF task[t].op = "drive" THEN Goto(t, "begin") ELSE End(t)
    /\ UNCHANGED <<run, world>>

InitPasses(t) ==
    /\ Call(t, "initRun")
    /\ SetState(t, "idle")
    /\ IF task[t].op = "drive" THEN Goto(t, "begin") ELSE End(t)
    /\ UNCHANGED world

InitFails(t) ==
    /\ Call(t, "initRun")
    /\ SetState(t, "failed")
    /\ Leave(t, TRUE)
    /\ UNCHANGED world

Begin(t) ==
    /\ Call(t, "begin")
    /\ SetState(t, "running")
    /\ Goto(t, "reset")
    /\ UNCHANGED world

(* reset_blocked_features: saved only when there was one. *)
Unblocked(list) ==
    [list EXCEPT !.features = [f \in Features |->
        IF list.features[f].state = "blocked" THEN NewFeature ELSE list.features[f]]]

ResetBlocked(t) ==
    /\ Call(t, "reset")
    /\ LET list == Unblocked(R(t).list) IN
       IF list = R(t).list THEN Goto(t, "phases") /\ UNCHANGED run
                           ELSE SetBacklog(t, list, "phases")
    /\ UNCHANGED world

(* The role phases are switched on, for this drive, by what the disk says. *)
Phases(t) ==
    /\ Call(t, "phases")
    /\ task' = [task EXCEPT ![t] = IF disk.list.knobs.roles
                                   THEN [task[t] EXCEPT !.pc = "authoring", !.phases = TRUE]
                                   ELSE [task[t] EXCEPT !.pc = "pick"]]
    /\ UNCHANGED <<run, world>>

Authoring(t) ==
    /\ Call(t, "authoring")
    /\ SetPhase(t, "authoring", "gate")
    /\ UNCHANGED world

-------------------------------------------------------------------------------
(* run_role_gate: an agent, its verdict, and decide_gate. *)
GateDecision(passed, attempt, k) ==
    CASE passed -> "advance"
      [] ~passed /\ attempt <= k.retries -> "gate"
      [] ~passed /\ attempt > k.retries -> IF k.hitlOnBlock THEN "await" ELSE "block"

RoleGate(t) ==
    /\ Call(t, "gate")
    /\ LET attempt == R(t).phaseAttempts + 1 IN
         /\ run' = [run EXCEPT ![task[t].run] = [R(t) EXCEPT !.phaseAttempts = attempt]]
         /\ \E passed \in BOOLEAN : Goto(t, GateDecision(passed, attempt, disk.list.knobs))
    /\ UNCHANGED world

GateAdvance(t) ==
    /\ Call(t, "advance")
    /\ CASE R(t).phase = "authoring" -> SetPhase(t, "architecture", "gate")
         [] R(t).phase = "architecture" -> SetPhase(t, "decompose", "decompose")
         [] OTHER -> SetPhase(t, "done", "finish")
    /\ UNCHANGED world

GateBlock(t) ==
    /\ Call(t, "block")
    /\ SetPhase(t, "blocked", "halt")
    /\ UNCHANGED world

GateAwait(t) ==
    /\ Call(t, "await")
    /\ SetPhase(t, "awaitingConfirm", "park")
    /\ UNCHANGED world

(* plan_from_spec writes a fresh backlog with default knobs; copy_knobs    *)
(* and a second write put the configured ones back.                        *)
Derived(ticked) ==
    [f \in Features |-> IF f \in ticked THEN [NewFeature EXCEPT !.state = "done"] ELSE NewFeature]

(* Fault: the knobs are not copied back. *)
DecomposeForgets(t) ==
    /\ At(t, "decompose")
    /\ \E ticked \in SUBSET Features :
          LET list == [features |-> Derived(ticked), knobs |-> DefaultKnobs] IN
          /\ disk' = [disk EXCEPT !.list = list]
          /\ gates' = [f \in Features |-> IF f \in ticked THEN gates[f] \cup {"spec"} ELSE gates[f]]
          /\ task' = [task EXCEPT ![t] = [task[t] EXCEPT !.pc = "save", !.next = "reload",
                                                         !.list = list]]
    /\ UNCHANGED <<run, knobs, shared, used>>

Decompose(t) ==
    /\ At(t, "decompose")
    /\ \E ticked \in SUBSET Features :
          /\ disk' = [disk EXCEPT !.list = [features |-> Derived(ticked), knobs |-> DefaultKnobs]]
          /\ gates' = [f \in Features |-> IF f \in ticked THEN gates[f] \cup {"spec"} ELSE gates[f]]
          /\ task' = [task EXCEPT ![t] = [task[t] EXCEPT !.pc = "save", !.next = "reload",
                        !.list = [features |-> Derived(ticked), knobs |-> disk.list.knobs]]]
    /\ UNCHANGED <<run, knobs, shared, used>>

Reload(t) ==
    /\ Call(t, "reload")
    /\ run' = [run EXCEPT ![task[t].run] = [R(t) EXCEPT !.list = disk.list]]
    /\ Goto(t, "enter")
    /\ UNCHANGED world

EnterExecuting(t) ==
    /\ Call(t, "enter")
    /\ SetPhase(t, "executing", "pick")
    /\ UNCHANGED world

-------------------------------------------------------------------------------
(* The feature loop: the first pending feature, an agent of its own, the   *)
(* unit-test gate and the QA gate until both are green.  Tracker tickets   *)
(* follow on the side and halt nothing.                                    *)
Pending(list) == {f \in Features : list.features[f].state = "pending"}

Pick(t) ==
    /\ Call(t, "pick")
    /\ LET todo == Pending(R(t).list) IN
       IF todo = {}
       THEN Goto(t, IF task[t].phases THEN "review" ELSE "finish")
       ELSE \E f \in todo :
              /\ \A g \in todo : f <= g
              /\ task' = [task EXCEPT ![t] = [task[t] EXCEPT !.pc = "start", !.feature = f]]
    /\ UNCHANGED <<run, world>>

StartFeature(t) ==
    /\ Call(t, "start")
    /\ SetState(t, "running")
    /\ Goto(t, "spawn")
    /\ UNCHANGED world

(* spawn_feature_agent: a session of its own, then set_session. *)
Spawn(t) ==
    /\ Call(t, "spawn")
    /\ SetFeatureState(t, "coding", "work")
    /\ UNCHANGED world

(* inject_prompt and wait_for_settle, which times out at the latest. *)
Work(t) ==
    /\ At(t, "work")
    /\ Goto(t, "verify")
    /\ UNCHANGED <<run, world>>

(* run_verify_once, by a drive loop or by POST /{id}/verify. *)
VerifyFeature(t) ==
    /\ Call(t, "verify")
    /\ SetFeatureState(t, "verifying", "verifying")
    /\ UNCHANGED world

VerifyState(t) ==
    /\ Call(t, "verifying")
    /\ SetState(t, "verifying")
    /\ Goto(t, "verdict")
    /\ UNCHANGED world

Passed(t, gate) == gates' = [gates EXCEPT ![task[t].feature] = @ \cup gate]

VerifyGreen(t) ==
    /\ At(t, "verdict")
    /\ Passed(t, IF task[t].op = "drive" THEN {"unit"} ELSE {"unit", "manual"})
    /\ Goto(t, IF task[t].op = "drive" THEN "qa" ELSE "green")
    /\ UNCHANGED <<run, disk, knobs, shared, used>>

(* Either gate is red. *)
GateRed(t) ==
    /\ At(t, "verdict") \/ At(t, "qaRun")
    /\ Goto(t, "red")
    /\ UNCHANGED <<run, world>>

(* run_qa_once or run_qa_agent_gate. *)
QaStart(t) ==
    /\ Call(t, "qa")
    /\ SetFeatureState(t, "readyToTest", "qaRun")
    /\ UNCHANGED world

QaGreen(t) ==
    /\ At(t, "qaRun")
    /\ Passed(t, {"qa"})
    /\ Goto(t, "green")
    /\ UNCHANGED <<run, disk, knobs, shared, used>>

(* Park for a human, or lock the feature in. *)
Green(t) ==
    /\ Call(t, "green")
    /\ IF R(t).list.knobs.hitlAtQa
       THEN SetFeatureState(t, "awaitingConfirm", "park")
       ELSE SetFeatureState(t, "done", "handoff")
    /\ UNCHANGED world

Park(t) ==
    /\ Call(t, "park")
    /\ SetState(t, "awaitingConfirmation")
    /\ Leave(t, FALSE)
    /\ UNCHANGED world

(* write_handoff; a drive loop tears its agent down and goes on, a confirm *)
(* resumes the run.                                                        *)
Handoff(t) ==
    /\ Call(t, "handoff")
    /\ CASE task[t].op = "drive" -> Goto(t, "pick")
         [] task[t].op = "confirm" -> Goto(t, "resume")
         [] OTHER -> End(t)
    /\ UNCHANGED <<run, world>>

(* Fault: a red gate is not counted. *)
RecordFailureUncounted(t) ==
    /\ Call(t, "red")
    /\ SetFeatureState(t, "coding", IF task[t].op = "drive" THEN "retry" ELSE "end")
    /\ UNCHANGED world

(* Fault: the failure is recorded in memory only. *)
RecordFailureUnsaved(t) ==
    /\ Call(t, "red")
    /\ run' = [run EXCEPT ![task[t].run] =
                 [R(t) EXCEPT !.list = WithState(R(t).list, task[t].feature, "coding")]]
    /\ Goto(t, IF task[t].op = "drive" THEN "retry" ELSE "end")
    /\ UNCHANGED world

(* record_feature_failure: bump the attempts; the last one blocks. *)
RecordFailure(t) ==
    /\ Call(t, "red")
    /\ LET n == R(t).list.features[task[t].feature].attempts + 1
           blocked == n >= R(t).list.knobs.retries
           failed == [state |-> IF blocked THEN "blocked" ELSE "coding", attempts |-> n]
       IN  SetBacklog(t, WithFeature(R(t).list, task[t].feature, failed),
                      CASE task[t].op # "drive" -> "end"
                        [] task[t].op = "drive" /\ blocked -> "halt"
                        [] OTHER -> "retry")
    /\ UNCHANGED world

Answer(t) ==
    /\ At(t, "end")
    /\ End(t)
    /\ UNCHANGED <<run, world>>

Halt(t) ==
    /\ Call(t, "halt")
    /\ SetState(t, "blocked")
    /\ Leave(t, FALSE)
    /\ UNCHANGED world

Retry(t) ==
    /\ Call(t, "retry")
    /\ SetState(t, "running")
    /\ Goto(t, "work")
    /\ UNCHANGED world

Review(t) ==
    /\ Call(t, "review")
    /\ SetPhase(t, "review", "gate")
    /\ UNCHANGED world

FinishRun(t) ==
    /\ Call(t, "finish")
    /\ SetState(t, "done")
    /\ Leave(t, FALSE)
    /\ UNCHANGED world

(* drive's epilogue: free the slot, then report an error of a run that is  *)
(* still there.                                                            *)
Release(t) ==
    /\ At(t, "release")
    /\ run' = IF R(t).on THEN [run EXCEPT ![task[t].run] = [R(t) EXCEPT !.driving = FALSE]]
                         ELSE run
    /\ IF task[t].err THEN Goto(t, "failed") ELSE End(t)
    /\ UNCHANGED world

ReportFailed(t) ==
    /\ At(t, "failed")
    /\ IF R(t).on THEN SetState(t, "failed") ELSE UNCHANGED run
    /\ End(t)
    /\ UNCHANGED world

-------------------------------------------------------------------------------
(* Fault: whatever feature is confirmed. *)
ConfirmAny(t) ==
    /\ Call(t, "confirm")
    /\ Goto(t, "confirmed")
    /\ UNCHANGED <<run, world>>

(* confirm_feature looks first, then marks the feature done. *)
Confirm(t) ==
    /\ Call(t, "confirm")
    /\ IF R(t).list.features[task[t].feature].state = "awaitingConfirm"
       THEN Goto(t, "confirmed") ELSE End(t)
    /\ UNCHANGED <<run, world>>

Confirmed(t) ==
    /\ Call(t, "confirmed")
    /\ SetFeatureState(t, "done", "handoff")
    /\ UNCHANGED world

Resume(t) ==
    /\ At(t, "resume")
    /\ IF Claimable(task[t].run) THEN Drive(t, task[t].run) ELSE End(t) /\ UNCHANGED run
    /\ UNCHANGED world

(* An engine call of a run that is gone. *)
Elsewhere == {"none", "save", "note", "decompose", "work", "verdict", "qaRun", "end",
              "release", "failed", "resume"}

Gone(t) ==
    /\ task[t].pc \notin Elsewhere /\ ~R(t).on
    /\ Leave(t, TRUE)
    /\ UNCHANGED <<run, world>>

-------------------------------------------------------------------------------
(* A script cannot be run, an agent not be started or reached, a file not  *)
(* be read or written.                                                     *)
Fallible == {"save", "initRun", "phases", "gate", "decompose", "reload", "start", "spawn",
             "work", "verdict", "qaRun", "handoff"}

Fails(t) ==
    /\ task[t].pc \in Fallible
    /\ Mishaps < MaxMishaps
    /\ used' = [used EXCEPT !.faults = @ + 1]
    /\ Leave(t, TRUE)
    /\ UNCHANGED <<run, disk, gates, knobs, shared>>

(* A client hangs up on its request: its future is dropped, the write that *)
(* was under way finishes or not.                                          *)
ClientGone(t) ==
    /\ Busy(t) /\ task[t].op # "drive"
    /\ Mishaps < MaxMishaps
    /\ used' = [used EXCEPT !.drops = @ + 1]
    /\ End(t)
    /\ disk' \in {disk, IF At(t, "save") THEN [disk EXCEPT !.list = task[t].list] ELSE disk}
    /\ UNCHANGED <<run, gates, knobs, shared>>

(* The daemon dies: runs are forgotten, the disk is not. *)
Crash ==
    /\ Mishaps < MaxMishaps
    /\ used' = [used EXCEPT !.crashes = @ + 1]
    /\ task' = [t \in Tasks |-> NoTask]
    /\ run' = [r \in Runs |-> IF run[r].on THEN [NotRegistered EXCEPT !.fresh = FALSE] ELSE run[r]]
    /\ UNCHANGED <<disk, gates, knobs, shared>>

Step(t) ==
    \/ Save(t) \/ Note(t) \/ InitStart(t) \/ InitPasses(t) \/ InitFails(t) \/ Begin(t)
    \/ ResetBlocked(t) \/ Phases(t) \/ Authoring(t) \/ RoleGate(t) \/ GateAdvance(t)
    \/ GateBlock(t) \/ GateAwait(t) \/ Decompose(t) \/ Reload(t) \/ EnterExecuting(t)
    \/ Pick(t) \/ StartFeature(t) \/ Spawn(t) \/ Work(t) \/ VerifyFeature(t)
    \/ VerifyState(t) \/ VerifyGreen(t) \/ GateRed(t) \/ QaStart(t) \/ QaGreen(t)
    \/ Green(t) \/ Park(t) \/ Handoff(t) \/ RecordFailure(t) \/ Answer(t) \/ Halt(t)
    \/ Retry(t) \/ Review(t) \/ FinishRun(t) \/ Release(t) \/ ReportFailed(t)
    \/ Confirm(t) \/ Confirmed(t) \/ Resume(t) \/ Gone(t)

Next ==
    \/ \E t \in Tasks : Step(t) \/ NoteFails(t) \/ Fails(t) \/ ClientGone(t)
    \/ \E t \in Tasks, r \in Runs : RunRequest(t, r)
    \/ \E t \in Tasks, r \in Runs, op \in Ops, f \in Features : ManualRequest(t, r, op, f)
    \/ \E r \in Runs : Register(r) \/ Stop(r)
    \/ Crash

Spec == Init /\ [][Next]_vars

(* The runtime keeps polling a started task, gate scripts exit, and agents *)
(* settle or time out.                                                     *)
FairSpec == Spec /\ \A t \in Tasks : WF_vars(Step(t))

-------------------------------------------------------------------------------
(* A run's driver slot is taken exactly while one drive loop works on it:  *)
(* "reject a double-run instead of spawning two loops" (claim_driver), and *)
(* "a finished run can always be re-driven".                               *)
Drives(t, r) == task[t].op = "drive" /\ task[t].run = r /\ task[t].pc # "failed"

OneDriver ==
    \A r \in Runs : run[r].on =>
        /\ run[r].driving <=> \E t \in Tasks : Drives(t, r)
        /\ \A t, u \in Tasks : Drives(t, r) /\ Drives(u, r) => t = u

(* A feature is done only if verify.sh passed for it, and with it the QA   *)
(* gate unless a manual verify or a ticked box of the spec skipped it, in  *)
(* memory and on disk: no interleaving of confirms, verifies, stops and    *)
(* crashes fast-tracks an unverified feature.                              *)
Gated(f) == "spec" \in gates[f] \/ {"unit", "qa"} \subseteq gates[f] \/ "manual" \in gates[f]

DoneWasGated ==
    \A f \in Features :
        \/ Gated(f)
        \/ /\ disk.list.features[f].state # "done"
           /\ \A r \in Runs : run[r].list.features[f].state # "done"

(* Nothing at work: no task, and no two tasks ever overlapped. *)
Resting == ~shared /\ \A t \in Tasks : ~Busy(t)

(* A run at rest is not stranded in a working state, and one that says it  *)
(* is blocked or waits for a human has the feature or the phase it waits   *)
(* for.                                                                    *)
RestIsHonest ==
    Resting /\ Mishaps = 0 =>
        \A r \in Runs :
            LET has(st) == \E f \in Features : run[r].list.features[f].state = st IN
            /\ run[r].state \notin {"initVerifying", "running"}
            /\ run[r].state = "blocked" => has("blocked") \/ run[r].phase = "blocked"
            /\ run[r].state = "awaitingConfirmation" =>
                  has("awaitingConfirm") \/ run[r].phase = "awaitingConfirm"

(* The knobs of the backlog on disk survive a decompose that is not cut    *)
(* short.                                                                  *)
KnobsSurvive == Resting /\ Mishaps = 0 => disk.list.knobs = knobs

(* "the board on disk always matches the live run" (save_features): once   *)
(* every write it owed is on disk, feature_list.json is the run's backlog, *)
(* whatever crashed in between, provided that no two tasks overlapped.     *)
DiskIsCurrent ==
    Resting /\ used.faults + used.drops = 0 =>
        \A r \in Runs : run[r].on => disk.list = run[r].list

(* "All features verified green" (HarnessState::Done). *)
DoneMeansGreen ==
    [][\A r \in Runs :
         run'[r].state = "done" /\ run[r].state # "done" =>
             \A f \in Features : run[r].list.features[f].state = "done"]_vars

(* Every request is answered and every drive loop ends, that of a stopped  *)
(* run too: with all features done, at a gate that stays red, at a         *)
(* confirmation, or with an error.                                         *)
WorkEnds == \A t \in Tasks : Busy(t) ~> ~Busy(t)

-----------------------------------------------------------------------------
(* Statements the code does not keep: TLC refutes each of them, see the    *)
(* README, "What does not hold".                                           *)

(* The same as DiskIsCurrent, for tasks that overlap.                      *)
DiskMatchesRun ==
    \A r \in Runs :
        run[r].on /\ Mishaps = 0 /\ (\A t \in Tasks : ~Busy(t)) => disk.list = run[r].list
===============================================================================
