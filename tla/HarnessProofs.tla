----------------------------- MODULE HarnessProofs -----------------------------
(***************************************************************************)
(* The harness engine for every number of runs, tasks, features, requests  *)
(* and mishaps: its types; the driver slot, which marks a run as driven    *)
(* exactly while one drive loop works on it; and what it then says of the  *)
(* gates, of a project at rest, of the knobs and of the files.             *)
(***************************************************************************)
EXTENDS Harness, TLAPS

(* A task that is at work belongs to a run. *)
TaskRuns == \A t \in Tasks : task[t].pc # "none" => task[t].run \in Runs

TypeInv == TypeOK /\ TaskRuns

(* What the helpers build is of its type. *)
LEMMA ConstantTypes ==
    /\ DefaultKnobs \in KnobRecords
    /\ \A k \in KnobRecords : NewBacklog(k) \in Backlogs
    /\ NoTask \in TaskRecords /\ NoTask.pc = "none" /\ NoTask.op = "none"
    /\ NotRegistered \in RunRecords
  <1>1. DefaultKnobs \in KnobRecords
    BY KnobsAssumption DEF DefaultKnobs, KnobRecords
  <1>2. ASSUME NEW k \in KnobRecords PROVE NewBacklog(k) \in Backlogs
    BY DEF NewBacklog, Backlogs, NewFeature, FeatureStates
  <1>3. NewBacklog(DefaultKnobs) \in Backlogs
    BY <1>1, <1>2
  <1>4. 1 \in Features
    BY FeaturesAssumption DEF Features
  <1>5. NoTask \in TaskRecords /\ NoTask.pc = "none" /\ NoTask.op = "none"
    BY <1>3, <1>4 DEF NoTask, TaskRecords, Ops, PCs, SpecPhases
  <1>6. NotRegistered \in RunRecords
    BY <1>3 DEF NotRegistered, RunRecords, HarnessStates, SpecPhases
  <1> QED BY <1>1, <1>2, <1>5, <1>6

LEMMA FeatureTypes ==
    ASSUME NEW list \in Backlogs, NEW f \in Features,
           NEW x \in [state : FeatureStates, attempts : Nat]
    PROVE  WithFeature(list, f, x) \in Backlogs
  BY DEF WithFeature, Backlogs

LEMMA StateTypes ==
    ASSUME NEW list \in Backlogs, NEW f \in Features, NEW st \in FeatureStates
    PROVE  WithState(list, f, st) \in Backlogs
  <1>1. [list.features[f] EXCEPT !.state = st] \in [state : FeatureStates, attempts : Nat]
    BY DEF Backlogs
  <1> QED BY <1>1, FeatureTypes DEF WithState

(* One task steps: its record and the run it works on stay of their types. *)
LEMMA TaskStep ==
    ASSUME TypeInv, NEW t \in Tasks, NEW x \in TaskRecords,
           x.pc = "none" \/ x.run \in Runs,
           task' = [task EXCEPT ![t] = x]
    PROVE  task' \in [Tasks -> TaskRecords] /\ TaskRuns'
  BY DEF TypeInv, TypeOK, TaskRuns

LEMMA RunStep ==
    ASSUME TypeInv, NEW r \in Runs, NEW x \in RunRecords, run' = [run EXCEPT ![r] = x]
    PROVE  run' \in [Runs -> RunRecords]
  BY DEF TypeInv, TypeOK

LEMMA PlaceNames ==
    /\ "save" \in PCs /\ "note" \in PCs /\ "release" \in PCs /\ "none" \in PCs
    /\ "drive" \in Ops
  BY DEF PCs, Ops

(* A task record whose place, debt or verdict changed. *)
LEMMA Records ==
    ASSUME TypeInv, NEW t \in Tasks, task[t].pc # "none"
    PROVE  /\ task[t] \in TaskRecords /\ task[t].run \in Runs /\ R(t) \in RunRecords
           /\ task[t].feature \in Features
           /\ R(t).list \in Backlogs
  <1>1. task[t] \in TaskRecords /\ task[t].run \in Runs
    BY DEF TypeInv, TypeOK, TaskRuns
  <1>2. R(t) \in RunRecords
    BY <1>1 DEF TypeInv, TypeOK, R
  <1> QED BY <1>1, <1>2 DEF TaskRecords, RunRecords

LEMMA GotoTypes ==
    ASSUME TypeInv, NEW t \in Tasks, task[t].pc # "none", NEW l \in PCs, Goto(t, l)
    PROVE  task' \in [Tasks -> TaskRecords] /\ TaskRuns'
  <1>0. /\ task[t] \in TaskRecords /\ task[t].run \in Runs /\ R(t) \in RunRecords
        /\ task[t].feature \in Features
        /\ R(t).list \in Backlogs
    BY Records
  <1> DEFINE x == [task[t] EXCEPT !.pc = l]
  <1>1. x \in TaskRecords /\ x.run \in Runs
    BY <1>0 DEF TaskRecords
  <1> QED BY <1>1, TaskStep DEF Goto

LEMMA EndTypes ==
    ASSUME TypeInv, NEW t \in Tasks, End(t)
    PROVE  task' \in [Tasks -> TaskRecords] /\ TaskRuns'
  BY ConstantTypes, TaskStep DEF End

LEMMA LeaveTypes ==
    ASSUME TypeInv, NEW t \in Tasks, task[t].pc # "none", NEW e \in BOOLEAN, Leave(t, e)
    PROVE  task' \in [Tasks -> TaskRecords] /\ TaskRuns'
  <1>0. /\ task[t] \in TaskRecords /\ task[t].run \in Runs /\ R(t) \in RunRecords
        /\ task[t].feature \in Features
        /\ R(t).list \in Backlogs
    BY Records
  <1>1. CASE task[t].op = "drive"
    <2> DEFINE x == [NoTask EXCEPT !.op = "drive", !.run = task[t].run,
                                   !.pc = "release", !.err = e]
    <2>1. x \in TaskRecords /\ x.run \in Runs
      BY <1>0, PlaceNames, ConstantTypes DEF TaskRecords
    <2> QED BY <1>1, <2>1, TaskStep DEF Leave
  <1>2. CASE task[t].op # "drive"
    BY <1>2, EndTypes DEF Leave
  <1> QED BY <1>1, <1>2

LEMMA SetStateTypes ==
    ASSUME TypeInv, NEW t \in Tasks, task[t].pc # "none", NEW st \in HarnessStates,
           SetState(t, st)
    PROVE  run' \in [Runs -> RunRecords]
  <1>0. /\ task[t] \in TaskRecords /\ task[t].run \in Runs /\ R(t) \in RunRecords
        /\ task[t].feature \in Features
        /\ R(t).list \in Backlogs
    BY Records
  <1>1. [R(t) EXCEPT !.state = st] \in RunRecords
    BY <1>0 DEF RunRecords
  <1> QED BY <1>1, <1>0, RunStep DEF SetState

LEMMA SetBacklogTypes ==
    ASSUME TypeInv, NEW t \in Tasks, task[t].pc # "none", NEW list \in Backlogs,
           NEW l \in PCs, SetBacklog(t, list, l)
    PROVE  run' \in [Runs -> RunRecords] /\ task' \in [Tasks -> TaskRecords] /\ TaskRuns'
  <1>0. /\ task[t] \in TaskRecords /\ task[t].run \in Runs /\ R(t) \in RunRecords
        /\ task[t].feature \in Features
        /\ R(t).list \in Backlogs
    BY Records
  <1>1. [R(t) EXCEPT !.list = list] \in RunRecords
    BY <1>0 DEF RunRecords
  <1>2. run' \in [Runs -> RunRecords]
    BY <1>1, <1>0, RunStep DEF SetBacklog
  <1> DEFINE x == [task[t] EXCEPT !.pc = "save", !.list = list, !.next = l]
  <1>3. x \in TaskRecords /\ x.run \in Runs
    BY <1>0, PlaceNames DEF TaskRecords
  <1>4. task' \in [Tasks -> TaskRecords] /\ TaskRuns'
    BY <1>3, TaskStep DEF SetBacklog
  <1> QED BY <1>2, <1>4

LEMMA SetPhaseTypes ==
    ASSUME TypeInv, NEW t \in Tasks, task[t].pc # "none", NEW p \in SpecPhases,
           NEW l \in PCs, SetPhase(t, p, l)
    PROVE  run' \in [Runs -> RunRecords] /\ task' \in [Tasks -> TaskRecords] /\ TaskRuns'
  <1>0. /\ task[t] \in TaskRecords /\ task[t].run \in Runs /\ R(t) \in RunRecords
        /\ task[t].feature \in Features
        /\ R(t).list \in Backlogs
    BY Records
  <1>1. [R(t) EXCEPT !.phase = p, !.phaseAttempts = 0] \in RunRecords
    BY <1>0 DEF RunRecords
  <1>2. run' \in [Runs -> RunRecords]
    BY <1>1, <1>0, RunStep DEF SetPhase
  <1> DEFINE x == IF R(t).phase = p THEN [task[t] EXCEPT !.pc = l]
                  ELSE [task[t] EXCEPT !.pc = "note", !.phase = p, !.next = l]
  <1>3. x \in TaskRecords /\ x.run \in Runs
    BY <1>0, PlaceNames DEF TaskRecords
  <1>4. task' \in [Tasks -> TaskRecords] /\ TaskRuns'
    BY <1>3, TaskStep DEF SetPhase
  <1> QED BY <1>2, <1>4

(* A new feature state, whichever handler sets it. *)
LEMMA SetFeatureTypes ==
    ASSUME TypeInv, NEW t \in Tasks, task[t].pc # "none", NEW st \in FeatureStates,
           NEW l \in PCs, SetFeatureState(t, st, l)
    PROVE  run' \in [Runs -> RunRecords] /\ task' \in [Tasks -> TaskRecords] /\ TaskRuns'
  <1>0. /\ task[t] \in TaskRecords /\ task[t].run \in Runs /\ R(t) \in RunRecords
        /\ task[t].feature \in Features
        /\ R(t).list \in Backlogs
    BY Records
  <1>1. WithState(R(t).list, task[t].feature, st) \in Backlogs
    BY <1>0, StateTypes
  <1> QED BY <1>1, SetBacklogTypes DEF SetFeatureState

LEMMA InitTypes == ASSUME Init PROVE TypeInv
  <1>1. run \in [Runs -> RunRecords] /\ task \in [Tasks -> TaskRecords]
    BY ConstantTypes DEF Init
  <1>2. knobs \in KnobRecords
    BY KnobsAssumption DEF Init
  <1>3. disk \in Disks
    BY <1>2, ConstantTypes DEF Init, Disks, SpecPhases
  <1>4. TaskRuns
    BY ConstantTypes DEF Init, TaskRuns
  <1> QED BY <1>1, <1>2, <1>3, <1>4 DEF Init, TypeInv, TypeOK

(* The steps that leave the disk, the histories and the bounds alone. *)
QuietStep(t) ==
    \/ InitStart(t) \/ InitPasses(t) \/ InitFails(t) \/ Begin(t) \/ ResetBlocked(t)
    \/ Phases(t) \/ Authoring(t) \/ RoleGate(t) \/ GateAdvance(t) \/ GateBlock(t)
    \/ GateAwait(t) \/ Reload(t) \/ EnterExecuting(t) \/ Pick(t) \/ StartFeature(t)
    \/ Spawn(t) \/ Work(t) \/ VerifyFeature(t) \/ VerifyState(t) \/ GateRed(t)
    \/ QaStart(t) \/ Green(t) \/ Park(t) \/ Handoff(t) \/ RecordFailure(t) \/ Answer(t)
    \/ Halt(t) \/ Retry(t) \/ Review(t) \/ FinishRun(t) \/ Release(t) \/ ReportFailed(t)
    \/ Confirm(t) \/ Confirmed(t) \/ Resume(t) \/ Gone(t)

LEMMA UnblockedTypes ==
    ASSUME NEW list \in Backlogs PROVE Unblocked(list) \in Backlogs
  <1>1. NewFeature \in [state : FeatureStates, attempts : Nat]
    BY DEF NewFeature, FeatureStates
  <1> QED BY <1>1 DEF Unblocked, Backlogs

LEMMA GateDecisionTypes ==
    ASSUME NEW b \in BOOLEAN, NEW n \in Nat, NEW k \in KnobRecords
    PROVE  GateDecision(b, n, k) \in {"advance", "gate", "await", "block"}
  BY DEF GateDecision, KnobRecords

LEMMA DriveTypes ==
    ASSUME TypeInv, NEW t \in Tasks, NEW r \in Runs, Drive(t, r)
    PROVE  run' \in [Runs -> RunRecords] /\ task' \in [Tasks -> TaskRecords] /\ TaskRuns'
  <1>1. [run[r] EXCEPT !.driving = TRUE] \in RunRecords
    BY DEF TypeInv, TypeOK, RunRecords
  <1>2. run' \in [Runs -> RunRecords]
    BY <1>1, RunStep DEF Drive
  <1> DEFINE x == [NoTask EXCEPT !.op = "drive", !.pc = "init", !.run = r]
  <1>3. x \in TaskRecords /\ x.run \in Runs
    BY ConstantTypes DEF TaskRecords, PCs, Ops
  <1> QED BY <1>2, <1>3, TaskStep DEF Drive

(* Every quiet step keeps the runs and the tasks of their types. *)
LEMMA QuietTypes ==
    ASSUME TypeInv, NEW t \in Tasks, QuietStep(t)
    PROVE  run' \in [Runs -> RunRecords] /\ task' \in [Tasks -> TaskRecords] /\ TaskRuns'
  <1> DEFINE Goal == /\ run' \in [Runs -> RunRecords]
                     /\ task' \in [Tasks -> TaskRecords] /\ TaskRuns'
  <1> SUFFICES Goal OBVIOUS
  <1>0. run \in [Runs -> RunRecords] /\ disk \in Disks
    BY DEF TypeInv, TypeOK
  <1>rec. ASSUME task[t].pc # "none"
          PROVE  /\ task[t] \in TaskRecords /\ task[t].run \in Runs /\ R(t) \in RunRecords
                 /\ task[t].feature \in Features /\ R(t).list \in Backlogs
    BY <1>rec, Records
  <1>InitStart. CASE InitStart(t)
    <2>1. task[t].pc # "none" /\ Goto(t, "initRun") /\ SetState(t, "initVerifying")
      BY <1>InitStart DEF InitStart, Call, At
    <2>2. run' \in [Runs -> RunRecords]
      BY <2>1, SetStateTypes DEF HarnessStates
    <2> QED BY <2>1, <2>2, GotoTypes DEF PCs
  <1>InitPasses. CASE InitPasses(t)
    <2>1. task[t].pc # "none" /\ SetState(t, "idle") /\ (Goto(t, "begin") \/ End(t))
      BY <1>InitPasses DEF InitPasses, Call, At
    <2>2. run' \in [Runs -> RunRecords]
      BY <2>1, SetStateTypes DEF HarnessStates
    <2>3. "begin" \in PCs
      BY DEF PCs
    <2> QED BY <2>1, <2>2, <2>3, GotoTypes, EndTypes
  <1>InitFails. CASE InitFails(t)
    <2>1. task[t].pc # "none" /\ Leave(t, TRUE) /\ SetState(t, "failed")
      BY <1>InitFails DEF InitFails, Call, At
    <2>2. run' \in [Runs -> RunRecords]
      BY <2>1, SetStateTypes DEF HarnessStates
    <2> QED BY <2>1, <2>2, LeaveTypes
  <1>Begin. CASE Begin(t)
    <2>1. task[t].pc # "none" /\ Goto(t, "reset") /\ SetState(t, "running")
      BY <1>Begin DEF Begin, Call, At
    <2>2. run' \in [Runs -> RunRecords]
      BY <2>1, SetStateTypes DEF HarnessStates
    <2> QED BY <2>1, <2>2, GotoTypes DEF PCs
  <1>ResetBlocked. CASE ResetBlocked(t)
    <2>1. /\ task[t].pc # "none"
          /\ \/ Goto(t, "phases") /\ UNCHANGED run
             \/ SetBacklog(t, Unblocked(R(t).list), "phases")
      BY <1>ResetBlocked DEF ResetBlocked, Call, At
    <2>2. "phases" \in PCs
      BY DEF PCs
    <2>3. Unblocked(R(t).list) \in Backlogs
      BY <2>1, <1>rec, UnblockedTypes
    <2> QED BY <2>1, <2>2, <2>3, <1>0, GotoTypes, SetBacklogTypes
  <1>Phases. CASE Phases(t)
    <2> DEFINE x == IF disk.list.knobs.roles
                    THEN [task[t] EXCEPT !.pc = "authoring", !.phases = TRUE]
                    ELSE [task[t] EXCEPT !.pc = "pick"]
    <2>1. task[t].pc # "none" /\ task' = [task EXCEPT ![t] = x] /\ UNCHANGED run
      BY <1>Phases DEF Phases, Call, At
    <2>2. "authoring" \in PCs /\ "pick" \in PCs
      BY DEF PCs
    <2>3. x \in TaskRecords /\ x.run \in Runs
      BY <2>1, <2>2, <1>rec DEF TaskRecords
    <2> QED BY <2>1, <2>3, <1>0, TaskStep
  <1>Authoring. CASE Authoring(t)
    <2>1. task[t].pc # "none" /\ SetPhase(t, "authoring", "gate")
      BY <1>Authoring DEF Authoring, Call, At
    <2>2. "authoring" \in SpecPhases /\ "gate" \in PCs
      BY DEF SpecPhases, PCs
    <2> QED BY <2>1, <2>2, SetPhaseTypes
  <1>RoleGate. CASE RoleGate(t)
    <2> DEFINE n == R(t).phaseAttempts + 1
    <2>1. /\ task[t].pc # "none"
          /\ run' = [run EXCEPT ![task[t].run] = [R(t) EXCEPT !.phaseAttempts = n]]
      BY <1>RoleGate DEF RoleGate, Call, At
    <2>2. PICK b \in BOOLEAN : Goto(t, GateDecision(b, n, disk.list.knobs))
      BY <1>RoleGate DEF RoleGate
    <2>3. n \in Nat /\ [R(t) EXCEPT !.phaseAttempts = n] \in RunRecords
      BY <2>1, <1>rec DEF RunRecords
    <2>4. disk.list.knobs \in KnobRecords
      BY <1>0 DEF Disks, Backlogs
    <2>5. GateDecision(b, n, disk.list.knobs) \in PCs
      BY <2>3, <2>4, GateDecisionTypes DEF PCs
    <2>6. run' \in [Runs -> RunRecords]
      BY <2>1, <2>3, <1>rec, RunStep
    <2> QED BY <2>1, <2>2, <2>5, <2>6, GotoTypes
  <1>GateAdvance. CASE GateAdvance(t)
    <2>1. /\ task[t].pc # "none"
          /\ \/ SetPhase(t, "architecture", "gate")
             \/ SetPhase(t, "decompose", "decompose")
             \/ SetPhase(t, "done", "finish")
      BY <1>GateAdvance DEF GateAdvance, Call, At
    <2>2. /\ {"architecture", "decompose", "done"} \subseteq SpecPhases
          /\ {"gate", "decompose", "finish"} \subseteq PCs
      BY DEF SpecPhases, PCs
    <2> QED BY <2>1, <2>2, SetPhaseTypes
  <1>GateBlock. CASE GateBlock(t)
    <2>1. task[t].pc # "none" /\ SetPhase(t, "blocked", "halt")
      BY <1>GateBlock DEF GateBlock, Call, At
    <2>2. "blocked" \in SpecPhases /\ "halt" \in PCs
      BY DEF SpecPhases, PCs
    <2> QED BY <2>1, <2>2, SetPhaseTypes
  <1>GateAwait. CASE GateAwait(t)
    <2>1. task[t].pc # "none" /\ SetPhase(t, "awaitingConfirm", "park")
      BY <1>GateAwait DEF GateAwait, Call, At
    <2>2. "awaitingConfirm" \in SpecPhases /\ "park" \in PCs
      BY DEF SpecPhases, PCs
    <2> QED BY <2>1, <2>2, SetPhaseTypes
  <1>Reload. CASE Reload(t)
    <2>1. /\ task[t].pc # "none" /\ Goto(t, "enter")
          /\ run' = [run EXCEPT ![task[t].run] = [R(t) EXCEPT !.list = disk.list]]
      BY <1>Reload DEF Reload, Call, At
    <2>2. [R(t) EXCEPT !.list = disk.list] \in RunRecords
      BY <2>1, <1>rec, <1>0 DEF RunRecords, Disks
    <2>3. "enter" \in PCs
      BY DEF PCs
    <2>4. run' \in [Runs -> RunRecords]
      BY <2>1, <2>2, <1>rec, RunStep
    <2> QED BY <2>1, <2>3, <2>4, GotoTypes
  <1>EnterExecuting. CASE EnterExecuting(t)
    <2>1. task[t].pc # "none" /\ SetPhase(t, "executing", "pick")
      BY <1>EnterExecuting DEF EnterExecuting, Call, At
    <2>2. "executing" \in SpecPhases /\ "pick" \in PCs
      BY DEF SpecPhases, PCs
    <2> QED BY <2>1, <2>2, SetPhaseTypes
  <1>Pick. CASE Pick(t)
    <2>1. task[t].pc # "none" /\ UNCHANGED run
      BY <1>Pick DEF Pick, Call, At
    <2>2. CASE \E l \in {"review", "finish"} : Goto(t, l)
      <3>1. {"review", "finish"} \subseteq PCs
        BY DEF PCs
      <3> QED BY <2>1, <2>2, <3>1, <1>0, GotoTypes
    <2>3. ASSUME NEW f \in Features,
                 task' = [task EXCEPT ![t] = [task[t] EXCEPT !.pc = "start", !.feature = f]]
          PROVE  Goal
      <3> DEFINE x == [task[t] EXCEPT !.pc = "start", !.feature = f]
      <3>1. "start" \in PCs
        BY DEF PCs
      <3>2. x \in TaskRecords /\ x.run \in Runs
        BY <2>1, <3>1, <1>rec DEF TaskRecords
      <3> QED BY <2>1, <2>3, <3>2, <1>0, TaskStep
    <2> QED BY <1>Pick, <2>2, <2>3 DEF Pick, Pending
  <1>StartFeature. CASE StartFeature(t)
    <2>1. task[t].pc # "none" /\ Goto(t, "spawn") /\ SetState(t, "running")
      BY <1>StartFeature DEF StartFeature, Call, At
    <2>2. run' \in [Runs -> RunRecords]
      BY <2>1, SetStateTypes DEF HarnessStates
    <2> QED BY <2>1, <2>2, GotoTypes DEF PCs
  <1>Spawn. CASE Spawn(t)
    <2>1. task[t].pc # "none" /\ SetFeatureState(t, "coding", "work")
      BY <1>Spawn DEF Spawn, Call, At
    <2>2. "coding" \in FeatureStates /\ "work" \in PCs
      BY DEF FeatureStates, PCs
    <2> QED BY <2>1, <2>2, SetFeatureTypes
  <1>Work. CASE Work(t)
    <2>1. task[t].pc # "none" /\ Goto(t, "verify") /\ UNCHANGED run
      BY <1>Work DEF Work, Call, At
    <2> QED BY <2>1, <1>0, GotoTypes DEF PCs
  <1>VerifyFeature. CASE VerifyFeature(t)
    <2>1. task[t].pc # "none" /\ SetFeatureState(t, "verifying", "verifying")
      BY <1>VerifyFeature DEF VerifyFeature, Call, At
    <2>2. "verifying" \in FeatureStates /\ "verifying" \in PCs
      BY DEF FeatureStates, PCs
    <2> QED BY <2>1, <2>2, SetFeatureTypes
  <1>VerifyState. CASE VerifyState(t)
    <2>1. task[t].pc # "none" /\ Goto(t, "verdict") /\ SetState(t, "verifying")
      BY <1>VerifyState DEF VerifyState, Call, At
    <2>2. run' \in [Runs -> RunRecords]
      BY <2>1, SetStateTypes DEF HarnessStates
    <2> QED BY <2>1, <2>2, GotoTypes DEF PCs
  <1>GateRed. CASE GateRed(t)
    <2>1. task[t].pc # "none" /\ Goto(t, "red") /\ UNCHANGED run
      BY <1>GateRed DEF GateRed, Call, At
    <2> QED BY <2>1, <1>0, GotoTypes DEF PCs
  <1>QaStart. CASE QaStart(t)
    <2>1. task[t].pc # "none" /\ SetFeatureState(t, "readyToTest", "qaRun")
      BY <1>QaStart DEF QaStart, Call, At
    <2>2. "readyToTest" \in FeatureStates /\ "qaRun" \in PCs
      BY DEF FeatureStates, PCs
    <2> QED BY <2>1, <2>2, SetFeatureTypes
  <1>Green. CASE Green(t)
    <2>1. /\ task[t].pc # "none"
          /\ SetFeatureState(t, "awaitingConfirm", "park") \/ SetFeatureState(t, "done", "handoff")
      BY <1>Green DEF Green, Call, At
    <2>2. {"awaitingConfirm", "done"} \subseteq FeatureStates /\ {"park", "handoff"} \subseteq PCs
      BY DEF FeatureStates, PCs
    <2> QED BY <2>1, <2>2, SetFeatureTypes
  <1>Park. CASE Park(t)
    <2>1. task[t].pc # "none" /\ Leave(t, FALSE) /\ SetState(t, "awaitingConfirmation")
      BY <1>Park DEF Park, Call, At
    <2>2. run' \in [Runs -> RunRecords]
      BY <2>1, SetStateTypes DEF HarnessStates
    <2> QED BY <2>1, <2>2, LeaveTypes
  <1>Handoff. CASE Handoff(t)
    <2>1. task[t].pc # "none" /\ UNCHANGED run /\ (Goto(t, "pick") \/ Goto(t, "resume") \/ End(t))
      BY <1>Handoff DEF Handoff, Call, At
    <2>2. {"pick", "resume"} \subseteq PCs
      BY DEF PCs
    <2> QED BY <2>1, <2>2, <1>0, GotoTypes, EndTypes
  <1>RecordFailure. CASE RecordFailure(t)
    <2> DEFINE n == R(t).list.features[task[t].feature].attempts + 1
               blocked == n >= R(t).list.knobs.retries
               failed == [state |-> IF blocked THEN "blocked" ELSE "coding", attempts |-> n]
               list == WithFeature(R(t).list, task[t].feature, failed)
    <2>1. task[t].pc # "none" /\ \E l \in {"end", "halt", "retry"} : SetBacklog(t, list, l)
      BY <1>RecordFailure DEF RecordFailure, Call, At
    <2>2. n \in Nat
      BY <2>1, <1>rec DEF Backlogs
    <2>3. failed \in [state : FeatureStates, attempts : Nat]
      BY <2>2 DEF FeatureStates
    <2>4. list \in Backlogs
      BY <2>1, <2>3, <1>rec, FeatureTypes
    <2>5. {"end", "halt", "retry"} \subseteq PCs
      BY DEF PCs
    <2> HIDE DEF list
    <2> QED BY <2>1, <2>4, <2>5, SetBacklogTypes
  <1>Answer. CASE Answer(t)
    <2>1. End(t) /\ UNCHANGED run
      BY <1>Answer DEF Answer
    <2> QED BY <2>1, <1>0, EndTypes
  <1>Halt. CASE Halt(t)
    <2>1. task[t].pc # "none" /\ Leave(t, FALSE) /\ SetState(t, "blocked")
      BY <1>Halt DEF Halt, Call, At
    <2>2. run' \in [Runs -> RunRecords]
      BY <2>1, SetStateTypes DEF HarnessStates
    <2> QED BY <2>1, <2>2, LeaveTypes
  <1>Retry. CASE Retry(t)
    <2>1. task[t].pc # "none" /\ Goto(t, "work") /\ SetState(t, "running")
      BY <1>Retry DEF Retry, Call, At
    <2>2. run' \in [Runs -> RunRecords]
      BY <2>1, SetStateTypes DEF HarnessStates
    <2> QED BY <2>1, <2>2, GotoTypes DEF PCs
  <1>Review. CASE Review(t)
    <2>1. task[t].pc # "none" /\ SetPhase(t, "review", "gate")
      BY <1>Review DEF Review, Call, At
    <2>2. "review" \in SpecPhases /\ "gate" \in PCs
      BY DEF SpecPhases, PCs
    <2> QED BY <2>1, <2>2, SetPhaseTypes
  <1>FinishRun. CASE FinishRun(t)
    <2>1. task[t].pc # "none" /\ Leave(t, FALSE) /\ SetState(t, "done")
      BY <1>FinishRun DEF FinishRun, Call, At
    <2>2. run' \in [Runs -> RunRecords]
      BY <2>1, SetStateTypes DEF HarnessStates
    <2> QED BY <2>1, <2>2, LeaveTypes
  <1>Release. CASE Release(t)
    <2>1. /\ task[t].pc # "none" /\ (Goto(t, "failed") \/ End(t))
          /\ \/ UNCHANGED run
             \/ run' = [run EXCEPT ![task[t].run] = [R(t) EXCEPT !.driving = FALSE]]
      BY <1>Release DEF Release, At
    <2>2. [R(t) EXCEPT !.driving = FALSE] \in RunRecords
      BY <1>Release, <1>rec DEF RunRecords, Release, At
    <2>3. run' \in [Runs -> RunRecords]
      BY <1>Release, <2>1, <2>2, <1>0, <1>rec, RunStep DEF Release, At
    <2>4. "failed" \in PCs
      BY DEF PCs
    <2> QED BY <2>1, <2>3, <2>4, GotoTypes, EndTypes
  <1>ReportFailed. CASE ReportFailed(t)
    <2>1. task[t].pc # "none" /\ End(t) /\ (UNCHANGED run \/ SetState(t, "failed"))
      BY <1>ReportFailed DEF ReportFailed, At
    <2>2. run' \in [Runs -> RunRecords]
      BY <2>1, <1>0, SetStateTypes DEF HarnessStates
    <2> QED BY <2>1, <2>2, EndTypes
  <1>Confirm. CASE Confirm(t)
    <2>1. task[t].pc # "none" /\ UNCHANGED run /\ (Goto(t, "confirmed") \/ End(t))
      BY <1>Confirm DEF Confirm, Call, At
    <2>2. "confirmed" \in PCs
      BY DEF PCs
    <2> QED BY <2>1, <2>2, <1>0, GotoTypes, EndTypes
  <1>Confirmed. CASE Confirmed(t)
    <2>1. task[t].pc # "none" /\ SetFeatureState(t, "done", "handoff")
      BY <1>Confirmed DEF Confirmed, Call, At
    <2>2. "done" \in FeatureStates /\ "handoff" \in PCs
      BY DEF FeatureStates, PCs
    <2> QED BY <2>1, <2>2, SetFeatureTypes
  <1>Resume. CASE Resume(t)
    <2>1. task[t].pc # "none" /\ (Drive(t, task[t].run) \/ (End(t) /\ UNCHANGED run))
      BY <1>Resume DEF Resume, At
    <2>2. task[t].run \in Runs
      BY <2>1, <1>rec
    <2> QED BY <2>1, <2>2, <1>0, DriveTypes, EndTypes
  <1>Gone. CASE Gone(t)
    <2>1. task[t].pc # "none" /\ Leave(t, TRUE) /\ UNCHANGED run
      BY <1>Gone DEF Gone, Elsewhere
    <2> QED BY <2>1, <1>0, LeaveTypes
  <1> QED BY <1>InitStart, <1>InitPasses, <1>InitFails, <1>Begin, <1>ResetBlocked, <1>Phases,
             <1>Authoring, <1>RoleGate, <1>GateAdvance, <1>GateBlock, <1>GateAwait, <1>Reload,
             <1>EnterExecuting, <1>Pick, <1>StartFeature, <1>Spawn, <1>Work, <1>VerifyFeature,
             <1>VerifyState, <1>GateRed, <1>QaStart, <1>Green, <1>Park, <1>Handoff,
             <1>RecordFailure, <1>Answer, <1>Halt, <1>Retry, <1>Review, <1>FinishRun,
             <1>Release, <1>ReportFailed, <1>Confirm, <1>Confirmed, <1>Resume, <1>Gone DEF QuietStep

LEMMA NextTypes == ASSUME TypeInv, [Next]_vars PROVE TypeInv'
  <1> DEFINE Moved == /\ run' \in [Runs -> RunRecords]
                      /\ task' \in [Tasks -> TaskRecords] /\ TaskRuns'
             Counted == /\ gates' \in [Features -> SUBSET {"unit", "qa", "manual", "spec"}]
                        /\ knobs' \in KnobRecords
                        /\ used' \in [requests : Nat, faults : Nat, drops : Nat, crashes : Nat]
             Stored == disk' \in Disks
  <1>0. /\ run \in [Runs -> RunRecords] /\ task \in [Tasks -> TaskRecords] /\ TaskRuns
        /\ disk \in Disks /\ knobs \in KnobRecords /\ shared \in BOOLEAN
        /\ gates \in [Features -> SUBSET {"unit", "qa", "manual", "spec"}]
        /\ used \in [requests : Nat, faults : Nat, drops : Nat, crashes : Nat]
    BY DEF TypeInv, TypeOK
  <1>same. ASSUME UNCHANGED <<run, task>> PROVE Moved
    BY <1>0, <1>same DEF TaskRuns
  <1>spent. /\ [used EXCEPT !.requests = @ + 1] \in [requests : Nat, faults : Nat, drops : Nat, crashes : Nat]
            /\ [used EXCEPT !.faults = @ + 1] \in [requests : Nat, faults : Nat, drops : Nat, crashes : Nat]
            /\ [used EXCEPT !.drops = @ + 1] \in [requests : Nat, faults : Nat, drops : Nat, crashes : Nat]
            /\ [used EXCEPT !.crashes = @ + 1] \in [requests : Nat, faults : Nat, drops : Nat, crashes : Nat]
    BY <1>0
  <1>goal. ASSUME Moved, Counted, Stored, shared' \in BOOLEAN PROVE TypeInv'
    BY <1>goal DEF TypeInv, TypeOK, TaskRuns
  <1>rec. ASSUME NEW t \in Tasks, task[t].pc # "none"
          PROVE  /\ task[t] \in TaskRecords /\ task[t].run \in Runs /\ R(t) \in RunRecords
                 /\ task[t].feature \in Features /\ R(t).list \in Backlogs
    BY <1>rec, Records
  <1>quiet. ASSUME NEW t \in Tasks, QuietStep(t) PROVE TypeInv'
    <2>1. UNCHANGED world
      BY <1>quiet DEF QuietStep, InitStart, InitPasses, InitFails, Begin, ResetBlocked, Phases,
         Authoring, RoleGate, GateAdvance, GateBlock, GateAwait, Reload, EnterExecuting, Pick,
         StartFeature, Spawn, Work, VerifyFeature, VerifyState, GateRed, QaStart, Green, Park,
         Handoff, RecordFailure, Answer, Halt, Retry, Review, FinishRun, Release, ReportFailed,
         Confirm, Confirmed, Resume, Gone
    <2>2. Moved
      BY <1>quiet, QuietTypes
    <2> QED BY <2>1, <2>2, <1>0, <1>goal DEF world
  <1>owed. ASSUME NEW t \in Tasks, task[t].pc # "none", NEW x \in TaskRecords,
                  x.run = task[t].run, task' = [task EXCEPT ![t] = x], UNCHANGED run
           PROVE  Moved
    BY <1>owed, <1>0, <1>rec, TaskStep
  <1>Save. ASSUME NEW t \in Tasks, Save(t) PROVE TypeInv'
    <2> DEFINE x == [task[t] EXCEPT !.pc = task[t].next, !.next = "none", !.list = NoTask.list]
    <2>1. task[t].pc # "none" /\ task' = [task EXCEPT ![t] = x] /\ UNCHANGED run
      BY <1>Save DEF Save, At
    <2>2. x \in TaskRecords /\ x.run = task[t].run
      BY <2>1, <1>rec, PlaceNames, ConstantTypes DEF TaskRecords
    <2>3. Stored
      BY <1>Save, <2>1, <1>rec, <1>0 DEF Save, Disks, TaskRecords
    <2>4. Moved
      BY <2>1, <2>2, <1>owed
    <2> QED BY <1>Save, <2>3, <2>4, <1>0, <1>goal DEF Save
  <1>Note. ASSUME NEW t \in Tasks, Note(t) PROVE TypeInv'
    <2> DEFINE x == [task[t] EXCEPT !.pc = task[t].next, !.next = "none", !.phase = NoTask.phase]
    <2>1. task[t].pc # "none" /\ task' = [task EXCEPT ![t] = x] /\ UNCHANGED run
      BY <1>Note DEF Note, At
    <2>2. x \in TaskRecords /\ x.run = task[t].run
      BY <2>1, <1>rec, PlaceNames, ConstantTypes DEF TaskRecords
    <2>3. Stored
      BY <1>Note, <2>1, <1>rec, <1>0 DEF Note, Disks, TaskRecords
    <2>4. Moved
      BY <2>1, <2>2, <1>owed
    <2> QED BY <1>Note, <2>3, <2>4, <1>0, <1>goal DEF Note
  <1>NoteFails. ASSUME NEW t \in Tasks, NoteFails(t) PROVE TypeInv'
    <2> DEFINE x == [task[t] EXCEPT !.pc = task[t].next, !.next = "none", !.phase = NoTask.phase]
    <2>1. task[t].pc # "none" /\ task' = [task EXCEPT ![t] = x] /\ UNCHANGED run
      BY <1>NoteFails DEF NoteFails, At
    <2>2. x \in TaskRecords /\ x.run = task[t].run
      BY <2>1, <1>rec, PlaceNames, ConstantTypes DEF TaskRecords
    <2>4. Moved
      BY <2>1, <2>2, <1>owed
    <2> QED BY <1>NoteFails, <2>4, <1>0, <1>spent, <1>goal DEF NoteFails
  <1>Decompose. ASSUME NEW t \in Tasks, Decompose(t) PROVE TypeInv'
    <2>1. PICK ticked \in SUBSET Features :
            /\ disk' = [disk EXCEPT !.list = [features |-> Derived(ticked), knobs |-> DefaultKnobs]]
            /\ gates' = [f \in Features |-> IF f \in ticked THEN gates[f] \cup {"spec"} ELSE gates[f]]
            /\ task' = [task EXCEPT ![t] = [task[t] EXCEPT !.pc = "save", !.next = "reload",
                          !.list = [features |-> Derived(ticked), knobs |-> disk.list.knobs]]]
      BY <1>Decompose DEF Decompose
    <2>2. Derived(ticked) \in [Features -> [state : FeatureStates, attempts : Nat]]
      BY DEF Derived, NewFeature, FeatureStates
    <2>3. /\ [features |-> Derived(ticked), knobs |-> disk.list.knobs] \in Backlogs
          /\ [features |-> Derived(ticked), knobs |-> DefaultKnobs] \in Backlogs
      BY <2>2, <1>0, ConstantTypes DEF Backlogs, Disks
    <2>4. Stored
      BY <2>1, <2>3, <1>0 DEF Disks
    <2> DEFINE x == [task[t] EXCEPT !.pc = "save", !.next = "reload",
                       !.list = [features |-> Derived(ticked), knobs |-> disk.list.knobs]]
    <2>5. task[t].pc # "none" /\ UNCHANGED <<run, knobs, shared, used>>
      BY <1>Decompose DEF Decompose, At
    <2>6. "save" \in PCs /\ "reload" \in PCs
      BY DEF PCs
    <2>7. x \in TaskRecords /\ x.run = task[t].run
      BY <2>3, <2>5, <2>6, <1>rec DEF TaskRecords
    <2>8. Moved
      BY <2>1, <2>5, <2>7, <1>owed
    <2>9. gates' \in [Features -> SUBSET {"unit", "qa", "manual", "spec"}]
      BY <2>1, <1>0
    <2> QED BY <2>4, <2>5, <2>8, <2>9, <1>0, <1>goal
  <1>Passing. ASSUME NEW t \in Tasks, VerifyGreen(t) \/ QaGreen(t) PROVE TypeInv'
    <2>1. /\ task[t].pc # "none" /\ \E l \in {"qa", "green"} : Goto(t, l)
          /\ \E g \in SUBSET {"unit", "qa", "manual"} : Passed(t, g)
          /\ UNCHANGED <<run, disk, knobs, shared, used>>
      BY <1>Passing DEF VerifyGreen, QaGreen, At
    <2>2. {"qa", "green"} \subseteq PCs
      BY DEF PCs
    <2>3. Moved
      BY <2>1, <2>2, <1>0, GotoTypes
    <2>4. gates' \in [Features -> SUBSET {"unit", "qa", "manual", "spec"}]
      BY <2>1, <1>0 DEF Passed
    <2> QED BY <2>1, <2>3, <2>4, <1>0, <1>goal
  <1>Fails. ASSUME NEW t \in Tasks, Fails(t) PROVE TypeInv'
    <2>1. task[t].pc # "none" /\ Leave(t, TRUE) /\ UNCHANGED <<run, disk, gates, knobs, shared>>
      BY <1>Fails DEF Fails, Fallible
    <2>2. Moved
      BY <2>1, <1>0, LeaveTypes
    <2> QED BY <1>Fails, <2>1, <2>2, <1>0, <1>spent, <1>goal DEF Fails
  <1>ClientGone. ASSUME NEW t \in Tasks, ClientGone(t) PROVE TypeInv'
    <2>1. task[t].pc # "none" /\ End(t) /\ UNCHANGED <<run, gates, knobs, shared>>
      BY <1>ClientGone DEF ClientGone, Busy
    <2>2. Moved
      BY <2>1, <1>0, EndTypes
    <2>3. Stored
      BY <1>ClientGone, <2>1, <1>0, <1>rec DEF ClientGone, Disks, TaskRecords
    <2> QED BY <1>ClientGone, <2>1, <2>2, <2>3, <1>0, <1>spent, <1>goal DEF ClientGone
  <1>RunRequest. ASSUME NEW t \in Tasks, NEW r \in Runs, RunRequest(t, r) PROVE TypeInv'
    <2>1. Moved
      BY <1>RunRequest, DriveTypes DEF RunRequest
    <2> QED BY <1>RunRequest, <2>1, <1>0, <1>spent, <1>goal DEF RunRequest, Request, Overlaps
  <1>ManualRequest. ASSUME NEW t \in Tasks, NEW r \in Runs, NEW op \in Ops, NEW f \in Features,
                           ManualRequest(t, r, op, f)
                    PROVE  TypeInv'
    <2> DEFINE x == [NoTask EXCEPT !.op = op, !.pc = op, !.run = r,
                                   !.feature = IF op = "init" THEN 1 ELSE f]
    <2>1. op \in {"init", "verify", "confirm"}
      BY <1>ManualRequest, OpsAssumption DEF ManualRequest
    <2>2. op \in PCs /\ 1 \in Features
      BY <2>1, FeaturesAssumption DEF PCs, Features
    <2>3. x \in TaskRecords /\ x.run \in Runs
      BY <2>2, ConstantTypes DEF TaskRecords
    <2>4. task' = [task EXCEPT ![t] = x] /\ UNCHANGED <<run, disk, gates, knobs>>
      BY <1>ManualRequest DEF ManualRequest
    <2>5. Moved
      BY <2>3, <2>4, <1>0, TaskStep
    <2> QED BY <1>ManualRequest, <2>4, <2>5, <1>0, <1>spent, <1>goal DEF ManualRequest, Request, Overlaps
  <1>Register. ASSUME NEW r \in Runs, Register(r) PROVE TypeInv'
    <2> DEFINE x == [NotRegistered EXCEPT !.on = TRUE, !.fresh = FALSE,
                                          !.list = disk.list, !.phase = disk.phase]
    <2>1. x \in RunRecords
      BY <1>0, ConstantTypes DEF RunRecords, Disks
    <2>2. run' = [run EXCEPT ![r] = x] /\ UNCHANGED <<disk, task, gates, knobs>>
      BY <1>Register DEF Register
    <2>3. Moved
      BY <2>1, <2>2, <1>0, RunStep DEF TaskRuns
    <2> QED BY <1>Register, <2>2, <2>3, <1>0, <1>spent, <1>goal DEF Register, Overlaps
  <1>Stop. ASSUME NEW r \in Runs, Stop(r) PROVE TypeInv'
    <2>1. [NotRegistered EXCEPT !.fresh = FALSE] \in RunRecords
      BY ConstantTypes DEF RunRecords
    <2>2. Moved
      BY <1>Stop, <2>1, <1>0, RunStep DEF Stop, TaskRuns
    <2> QED BY <1>Stop, <2>2, <1>0, <1>spent, <1>goal DEF Stop
  <1>Crash. CASE Crash
    <2>1. [NotRegistered EXCEPT !.fresh = FALSE] \in RunRecords
      BY ConstantTypes DEF RunRecords
    <2>2. Moved
      BY <1>Crash, <2>1, <1>0, ConstantTypes DEF Crash, TaskRuns
    <2> QED BY <1>Crash, <2>2, <1>0, <1>spent, <1>goal DEF Crash
  <1>stutter. CASE UNCHANGED vars
    BY <1>stutter, <1>0, <1>same, <1>goal DEF vars
  <1> QED BY <1>quiet, <1>Save, <1>Note, <1>NoteFails, <1>Decompose, <1>Passing, <1>Fails,
             <1>ClientGone, <1>RunRequest, <1>ManualRequest, <1>Register, <1>Stop, <1>Crash,
             <1>stutter DEF Next, Step, QuietStep

LEMMA AlwaysTyped == Spec => []TypeInv
  <1>1. Init => TypeInv
    BY InitTypes
  <1>2. TypeInv /\ [Next]_vars => TypeInv'
    BY NextTypes
  <1> QED BY <1>1, <1>2, PTL DEF Spec

(* The harness engine keeps its runs, tasks, backlogs and disk within      *)
(* their types, whatever requests, failures, stops and crashes interleave. *)
THEOREM HarnessTypes == Spec => []TypeOK
  <1>1. TypeInv => TypeOK
    BY DEF TypeInv
  <1> QED BY <1>1, AlwaysTyped, PTL

-------------------------------------------------------------------------------
(* The driver slot. *)

(* Places only a request gets to, and where drive's epilogue is. *)
RequestPCs == {"end", "confirm", "confirmed", "resume"}
EpiloguePCs == {"release", "failed"}

FitsOp(x) ==
    /\ x.op = "drive" => x.pc \notin RequestPCs \cup {"none"} /\ x.next \notin RequestPCs
    /\ x.pc \in EpiloguePCs => x.op = "drive"
    /\ x.next \notin EpiloguePCs \cup {"save", "note"}
    /\ x.pc \in {"save", "note"} => x.next # "none"

(* An id nobody registered is nobody's. *)
FreshUnused ==
    \A r \in Runs : run[r].fresh => ~run[r].on /\ \A t \in Tasks : task[t].run # r

DriverInv == OneDriver /\ FreshUnused /\ \A t \in Tasks : FitsOp(task[t])

(* The flags of every run stay as they are. *)
Keeps == \A r \in Runs : /\ run'[r].on = run[r].on /\ run'[r].fresh = run[r].fresh
                         /\ run'[r].driving = run[r].driving

LEMMA Moves ==
    ASSUME TypeInv, DriverInv, Keeps, NEW t \in Tasks, NEW x,
           task' = [task EXCEPT ![t] = x],
           x.op = task[t].op, x.run = task[t].run, FitsOp(x),
           x.pc # "failed", task[t].pc # "failed"
    PROVE  DriverInv'
  <1>1. task \in [Tasks -> TaskRecords]
    BY DEF TypeInv, TypeOK
  <1>2. \A u \in Tasks : /\ task'[u].run = task[u].run /\ task'[u].op = task[u].op
                         /\ task'[u].pc = "failed" <=> task[u].pc = "failed"
    BY <1>1
  <1>3. \A u \in Tasks, r \in Runs : Drives(u, r)' <=> Drives(u, r)
    BY <1>2 DEF Drives
  <1>4. OneDriver'
    BY <1>3 DEF DriverInv, OneDriver, Keeps
  <1>5. FreshUnused'
    BY <1>2 DEF DriverInv, FreshUnused, Keeps
  <1>6. \A u \in Tasks : FitsOp(task'[u])
    BY <1>1 DEF DriverInv
  <1> QED BY <1>4, <1>5, <1>6 DEF DriverInv, FitsOp

LEMMA Ends ==
    ASSUME TypeInv, DriverInv, Keeps, NEW t \in Tasks, End(t),
           task[t].op # "drive" \/ task[t].pc = "failed"
    PROVE  DriverInv'
  <1>1. task \in [Tasks -> TaskRecords]
    BY DEF TypeInv, TypeOK
  <1>2. NoTask.op = "none" /\ NoTask.run = NoRun /\ FitsOp(NoTask)
    BY DEF NoTask, FitsOp, EpiloguePCs, RequestPCs
  <1>3. \A u \in Tasks : task'[u] = IF u = t THEN NoTask ELSE task[u]
    BY <1>1 DEF End
  <1>4. \A u \in Tasks, r \in Runs : Drives(u, r)' <=> Drives(u, r)
    BY <1>2, <1>3 DEF Drives
  <1>5. OneDriver'
    BY <1>4 DEF DriverInv, OneDriver, Keeps
  <1>6. FreshUnused'
    BY <1>2, <1>3, IdsAssumption DEF DriverInv, FreshUnused, Keeps
  <1>7. \A u \in Tasks : FitsOp(task'[u])
    BY <1>2, <1>3 DEF DriverInv
  <1> QED BY <1>5, <1>6, <1>7 DEF DriverInv, FitsOp

LEMMA Leaves ==
    ASSUME TypeInv, DriverInv, Keeps, NEW t \in Tasks, NEW e \in BOOLEAN, Leave(t, e),
           task[t].pc # "failed"
    PROVE  DriverInv'
  <1>1. CASE task[t].op = "drive"
    <2> DEFINE x == [NoTask EXCEPT !.op = "drive", !.run = task[t].run,
                                   !.pc = "release", !.err = e]
    <2>1. task' = [task EXCEPT ![t] = x] /\ x.op = task[t].op /\ x.run = task[t].run
      BY <1>1 DEF Leave, NoTask
    <2>2. x.pc = "release" /\ x.next = "none" /\ x.op = "drive"
      BY DEF NoTask
    <2>3. FitsOp(x)
      BY <2>2 DEF FitsOp, RequestPCs, EpiloguePCs
    <2> HIDE DEF x
    <2> QED BY <2>1, <2>2, <2>3, Moves
  <1>2. CASE task[t].op # "drive"
    BY <1>2, Ends DEF Leave
  <1> QED BY <1>1, <1>2

(* Places a task may be sent to without a look at what it is. *)
PlainPCs == PCs \ ({"none", "save", "note"} \cup RequestPCs \cup EpiloguePCs)

LEMMA PlainGoto ==
    ASSUME TypeInv, DriverInv, Keeps, NEW t \in Tasks, NEW l \in PCs, Goto(t, l),
           task[t].pc # "failed", l \notin {"none", "save", "note"} \cup EpiloguePCs,
           l \in RequestPCs => task[t].op # "drive"
    PROVE  DriverInv'
  <1> DEFINE x == [task[t] EXCEPT !.pc = l]
  <1>1. task[t] \in TaskRecords /\ FitsOp(task[t])
    BY DEF TypeInv, TypeOK, DriverInv
  <1>2. x.op = task[t].op /\ x.run = task[t].run /\ x.pc = l /\ x.next = task[t].next
    BY <1>1 DEF TaskRecords
  <1>3. FitsOp(x)
    BY <1>1, <1>2 DEF FitsOp
  <1>4. task' = [task EXCEPT ![t] = x] /\ x.pc # "failed"
    BY <1>2 DEF Goto, EpiloguePCs
  <1> HIDE DEF x
  <1> QED BY <1>2, <1>3, <1>4, Moves

LEMMA KeepsOne ==
    ASSUME TypeInv, NEW r \in Runs, NEW x, run' = [run EXCEPT ![r] = x],
           x.on = run[r].on, x.fresh = run[r].fresh, x.driving = run[r].driving
    PROVE  Keeps
  BY DEF TypeInv, TypeOK, Keeps

LEMMA SetStateKeeps ==
    ASSUME TypeInv, NEW t \in Tasks, task[t].pc # "none", NEW st, SetState(t, st)
    PROVE  Keeps
  <1> DEFINE x == [R(t) EXCEPT !.state = st]
  <1>1. task[t].run \in Runs /\ R(t) \in RunRecords
    BY Records
  <1>2. x.on = R(t).on /\ x.fresh = R(t).fresh /\ x.driving = R(t).driving
    BY <1>1 DEF RunRecords
  <1>3. run' = [run EXCEPT ![task[t].run] = x]
    BY DEF SetState
  <1> HIDE DEF x
  <1> QED BY <1>1, <1>2, <1>3, KeepsOne DEF R

LEMMA BacklogDriver ==
    ASSUME TypeInv, DriverInv, NEW t \in Tasks, task[t].pc # "none", NEW list,
           NEW l \in PCs, SetBacklog(t, list, l), task[t].pc # "failed",
           l \notin {"none", "save", "note"} \cup EpiloguePCs,
           l \in RequestPCs => task[t].op # "drive"
    PROVE  DriverInv'
  <1> DEFINE y == [R(t) EXCEPT !.list = list]
             x == [task[t] EXCEPT !.pc = "save", !.list = list, !.next = l]
  <1>1. task[t].run \in Runs /\ R(t) \in RunRecords /\ task[t] \in TaskRecords /\ FitsOp(task[t])
    BY Records DEF DriverInv
  <1>2. y.on = R(t).on /\ y.fresh = R(t).fresh /\ y.driving = R(t).driving
    BY <1>1 DEF RunRecords
  <1>3. x.op = task[t].op /\ x.run = task[t].run /\ x.pc = "save" /\ x.next = l
    BY <1>1 DEF TaskRecords
  <1>4. FitsOp(x)
    BY <1>1, <1>3 DEF FitsOp, RequestPCs, EpiloguePCs
  <1>5. run' = [run EXCEPT ![task[t].run] = y] /\ task' = [task EXCEPT ![t] = x]
    BY DEF SetBacklog
  <1> HIDE DEF x, y
  <1>6. Keeps
    BY <1>1, <1>2, <1>5, KeepsOne DEF R
  <1> QED BY <1>3, <1>4, <1>5, <1>6, Moves

LEMMA PhaseDriver ==
    ASSUME TypeInv, DriverInv, NEW t \in Tasks, task[t].pc # "none", NEW p,
           NEW l \in PlainPCs, SetPhase(t, p, l), task[t].pc # "failed"
    PROVE  DriverInv'
  <1> DEFINE y == [R(t) EXCEPT !.phase = p, !.phaseAttempts = 0]
             x == IF R(t).phase = p THEN [task[t] EXCEPT !.pc = l]
                  ELSE [task[t] EXCEPT !.pc = "note", !.phase = p, !.next = l]
  <1>1. task[t].run \in Runs /\ R(t) \in RunRecords /\ task[t] \in TaskRecords /\ FitsOp(task[t])
    BY Records DEF DriverInv
  <1>2. y.on = R(t).on /\ y.fresh = R(t).fresh /\ y.driving = R(t).driving
    BY <1>1 DEF RunRecords
  <1>3. /\ x.op = task[t].op /\ x.run = task[t].run
        /\ \/ x.pc = l /\ x.next = task[t].next
           \/ x.pc = "note" /\ x.next = l
    BY <1>1 DEF TaskRecords
  <1>4. FitsOp(x) /\ x.pc # "failed"
    BY <1>1, <1>3 DEF FitsOp, PlainPCs, RequestPCs, EpiloguePCs
  <1>5. run' = [run EXCEPT ![task[t].run] = y] /\ task' = [task EXCEPT ![t] = x]
    BY DEF SetPhase
  <1> HIDE DEF x, y
  <1>6. Keeps
    BY <1>1, <1>2, <1>5, KeepsOne DEF R
  <1> QED BY <1>3, <1>4, <1>5, <1>6, Moves

(* A claim of a free slot makes the claimant the only drive loop. *)
LEMMA Claims ==
    ASSUME TypeInv, DriverInv, NEW t \in Tasks, NEW r \in Runs, Claimable(r), Drive(t, r),
           task[t].op # "drive"
    PROVE  DriverInv'
  <1> DEFINE x == [NoTask EXCEPT !.op = "drive", !.pc = "init", !.run = r]
             y == [run[r] EXCEPT !.driving = TRUE]
  <1>1. task \in [Tasks -> TaskRecords] /\ run \in [Runs -> RunRecords]
    BY DEF TypeInv, TypeOK
  <1>2. x.op = "drive" /\ x.pc = "init" /\ x.run = r /\ x.next = "none" /\ FitsOp(x)
    BY DEF NoTask, FitsOp, RequestPCs, EpiloguePCs
  <1>3. y.on = run[r].on /\ y.fresh = run[r].fresh /\ y.driving = TRUE
    BY <1>1 DEF RunRecords
  <1>4. /\ \A u \in Tasks : task'[u] = IF u = t THEN x ELSE task[u]
        /\ \A q \in Runs : run'[q] = IF q = r THEN y ELSE run[q]
    BY <1>1 DEF Drive
  <1> HIDE DEF x, y
  <1>5. \A u \in Tasks : ~Drives(u, r)
    BY DEF DriverInv, OneDriver, Claimable
  <1>6. \A u \in Tasks, q \in Runs : Drives(u, q)' <=> IF u = t THEN q = r ELSE Drives(u, q)
    BY <1>2, <1>4 DEF Drives
  <1>7. \A q \in Runs : ~Drives(t, q)
    BY DEF Drives
  <1>8. ASSUME NEW q \in Runs, run'[q].on
        PROVE  /\ run'[q].driving <=> \E u \in Tasks : Drives(u, q)'
               /\ \A u, v \in Tasks : Drives(u, q)' /\ Drives(v, q)' => u = v
    <2>1. CASE q = r
      BY <2>1, <1>3, <1>4, <1>5, <1>6
    <2>2. CASE q # r
      BY <2>2, <1>4, <1>6, <1>7, <1>8 DEF DriverInv, OneDriver
    <2> QED BY <2>1, <2>2
  <1>9. OneDriver'
    BY <1>8 DEF OneDriver
  <1>10. FreshUnused'
    BY <1>2, <1>3, <1>4 DEF DriverInv, FreshUnused, Claimable
  <1>11. \A u \in Tasks : FitsOp(task'[u])
    BY <1>2, <1>4 DEF DriverInv
  <1> QED BY <1>9, <1>10, <1>11 DEF DriverInv, FitsOp

(* Every quiet step keeps the driver slot right. *)
LEMMA QuietDriver ==
    ASSUME TypeInv, DriverInv, NEW t \in Tasks, QuietStep(t)
    PROVE  DriverInv'
  <1>types. task \in [Tasks -> TaskRecords] /\ run \in [Runs -> RunRecords]
    BY DEF TypeInv, TypeOK
  <1>fits. task[t] \in TaskRecords /\ FitsOp(task[t])
    BY DEF TypeInv, TypeOK, DriverInv
  <1>keep. ASSUME UNCHANGED run PROVE Keeps
    BY <1>keep DEF Keeps
  <1>InitStart. CASE InitStart(t)
    <2>1. task[t].pc \notin {"none", "failed"} /\ Goto(t, "initRun") /\ SetState(t, "initVerifying")
      BY <1>InitStart DEF InitStart, Call, At
    <2>2. Keeps
      BY <2>1, SetStateKeeps
    <2> QED BY <2>1, <2>2, PlainGoto DEF PCs, RequestPCs, EpiloguePCs
  <1>InitPasses. CASE InitPasses(t)
    <2>1. /\ task[t].pc \notin {"none", "failed"} /\ SetState(t, "idle")
          /\ Goto(t, "begin") \/ (End(t) /\ task[t].op # "drive")
      BY <1>InitPasses DEF InitPasses, Call, At
    <2>2. Keeps
      BY <2>1, SetStateKeeps
    <2>3. "begin" \in PCs /\ "begin" \notin {"none", "save", "note"} \cup EpiloguePCs \cup RequestPCs
      BY DEF PCs, EpiloguePCs, RequestPCs
    <2> QED BY <2>1, <2>2, <2>3, PlainGoto, Ends
  <1>InitFails. CASE InitFails(t)
    <2>1. task[t].pc \notin {"none", "failed"} /\ Leave(t, TRUE) /\ SetState(t, "failed")
      BY <1>InitFails DEF InitFails, Call, At
    <2>2. Keeps
      BY <2>1, SetStateKeeps
    <2> QED BY <2>1, <2>2, Leaves
  <1>Begin. CASE Begin(t)
    <2>1. task[t].pc \notin {"none", "failed"} /\ Goto(t, "reset") /\ SetState(t, "running")
      BY <1>Begin DEF Begin, Call, At
    <2>2. Keeps
      BY <2>1, SetStateKeeps
    <2> QED BY <2>1, <2>2, PlainGoto DEF PCs, RequestPCs, EpiloguePCs
  <1>ResetBlocked. CASE ResetBlocked(t)
    <2>1. /\ task[t].pc \notin {"none", "failed"}
          /\ \/ Goto(t, "phases") /\ Keeps
             \/ SetBacklog(t, Unblocked(R(t).list), "phases")
      BY <1>ResetBlocked, <1>keep DEF ResetBlocked, Call, At
    <2>2. "phases" \in PCs /\ "phases" \notin {"none", "save", "note"} \cup EpiloguePCs \cup RequestPCs
      BY DEF PCs, EpiloguePCs, RequestPCs
    <2> QED BY <2>1, <2>2, PlainGoto, BacklogDriver
  <1>Phases. CASE Phases(t)
    <2> DEFINE x == IF disk.list.knobs.roles
                    THEN [task[t] EXCEPT !.pc = "authoring", !.phases = TRUE]
                    ELSE [task[t] EXCEPT !.pc = "pick"]
    <2>1. task[t].pc = "phases" /\ task' = [task EXCEPT ![t] = x] /\ Keeps
      BY <1>Phases, <1>keep DEF Phases, Call, At
    <2>2. /\ x.op = task[t].op /\ x.run = task[t].run /\ x.next = task[t].next
          /\ x.pc \in {"authoring", "pick"}
      BY <2>1, <1>fits DEF TaskRecords
    <2>3. FitsOp(x)
      BY <2>2, <1>fits DEF FitsOp, RequestPCs, EpiloguePCs
    <2> HIDE DEF x
    <2> QED BY <2>1, <2>2, <2>3, Moves
  <1>Authoring. CASE Authoring(t)
    <2>1. task[t].pc \notin {"none", "failed"} /\ SetPhase(t, "authoring", "gate")
      BY <1>Authoring DEF Authoring, Call, At
    <2>2. "gate" \in PlainPCs
      BY DEF PlainPCs, PCs, RequestPCs, EpiloguePCs
    <2> QED BY <2>1, <2>2, PhaseDriver
  <1>RoleGate. CASE RoleGate(t)
    <2> DEFINE n == R(t).phaseAttempts + 1
               y == [R(t) EXCEPT !.phaseAttempts = n]
    <2>1. task[t].pc \notin {"none", "failed"} /\ run' = [run EXCEPT ![task[t].run] = y]
      BY <1>RoleGate DEF RoleGate, Call, At
    <2>2. PICK b \in BOOLEAN : Goto(t, GateDecision(b, n, disk.list.knobs))
      BY <1>RoleGate DEF RoleGate
    <2>3. task[t].run \in Runs /\ R(t) \in RunRecords
      BY <2>1, Records
    <2>4. n \in Nat /\ y.on = R(t).on /\ y.fresh = R(t).fresh /\ y.driving = R(t).driving
      BY <2>3 DEF RunRecords
    <2>5. Keeps
      <3> HIDE DEF y
      <3> QED BY <2>1, <2>3, <2>4, KeepsOne DEF R
    <2>6. disk.list.knobs \in KnobRecords
      BY DEF TypeInv, TypeOK, Disks, Backlogs
    <2>7. GateDecision(b, n, disk.list.knobs) \in {"advance", "gate", "await", "block"}
      BY <2>4, <2>6, GateDecisionTypes
    <2>8. /\ {"advance", "gate", "await", "block"} \subseteq PCs
          /\ \A l \in {"advance", "gate", "await", "block"} :
                l \notin {"none", "save", "note"} \cup EpiloguePCs \cup RequestPCs
      BY DEF PCs, EpiloguePCs, RequestPCs
    <2> QED BY <2>1, <2>2, <2>5, <2>7, <2>8, PlainGoto
  <1>GateAdvance. CASE GateAdvance(t)
    <2>1. /\ task[t].pc \notin {"none", "failed"}
          /\ \/ SetPhase(t, "architecture", "gate")
             \/ SetPhase(t, "decompose", "decompose")
             \/ SetPhase(t, "done", "finish")
      BY <1>GateAdvance DEF GateAdvance, Call, At
    <2>2. {"gate", "decompose", "finish"} \subseteq PlainPCs
      BY DEF PlainPCs, PCs, RequestPCs, EpiloguePCs
    <2> QED BY <2>1, <2>2, PhaseDriver
  <1>GateBlock. CASE GateBlock(t)
    <2>1. task[t].pc \notin {"none", "failed"} /\ SetPhase(t, "blocked", "halt")
      BY <1>GateBlock DEF GateBlock, Call, At
    <2>2. "halt" \in PlainPCs
      BY DEF PlainPCs, PCs, RequestPCs, EpiloguePCs
    <2> QED BY <2>1, <2>2, PhaseDriver
  <1>GateAwait. CASE GateAwait(t)
    <2>1. task[t].pc \notin {"none", "failed"} /\ SetPhase(t, "awaitingConfirm", "park")
      BY <1>GateAwait DEF GateAwait, Call, At
    <2>2. "park" \in PlainPCs
      BY DEF PlainPCs, PCs, RequestPCs, EpiloguePCs
    <2> QED BY <2>1, <2>2, PhaseDriver
  <1>Reload. CASE Reload(t)
    <2> DEFINE y == [R(t) EXCEPT !.list = disk.list]
    <2>1. /\ task[t].pc \notin {"none", "failed"} /\ Goto(t, "enter")
          /\ run' = [run EXCEPT ![task[t].run] = y]
      BY <1>Reload DEF Reload, Call, At
    <2>2. task[t].run \in Runs /\ R(t) \in RunRecords
      BY <2>1, Records
    <2>3. y.on = R(t).on /\ y.fresh = R(t).fresh /\ y.driving = R(t).driving
      BY <2>2 DEF RunRecords
    <2> HIDE DEF y
    <2>4. Keeps
      BY <2>1, <2>2, <2>3, KeepsOne DEF R
    <2> QED BY <2>1, <2>4, PlainGoto DEF PCs, RequestPCs, EpiloguePCs
  <1>EnterExecuting. CASE EnterExecuting(t)
    <2>1. task[t].pc \notin {"none", "failed"} /\ SetPhase(t, "executing", "pick")
      BY <1>EnterExecuting DEF EnterExecuting, Call, At
    <2>2. "pick" \in PlainPCs
      BY DEF PlainPCs, PCs, RequestPCs, EpiloguePCs
    <2> QED BY <2>1, <2>2, PhaseDriver
  <1>Pick. CASE Pick(t)
    <2>1. task[t].pc \notin {"none", "failed"} /\ Keeps
      BY <1>Pick, <1>keep DEF Pick, Call, At
    <2>2. CASE \E l \in {"review", "finish"} : Goto(t, l)
      <3>1. /\ {"review", "finish"} \subseteq PCs
            /\ \A l \in {"review", "finish"} :
                  l \notin {"none", "save", "note"} \cup EpiloguePCs \cup RequestPCs
        BY DEF PCs, EpiloguePCs, RequestPCs
      <3> QED BY <2>1, <2>2, <3>1, PlainGoto
    <2>3. ASSUME NEW f,
                 task' = [task EXCEPT ![t] = [task[t] EXCEPT !.pc = "start", !.feature = f]]
          PROVE  DriverInv'
      <3> DEFINE x == [task[t] EXCEPT !.pc = "start", !.feature = f]
      <3>1. x.op = task[t].op /\ x.run = task[t].run /\ x.next = task[t].next /\ x.pc = "start"
        BY <1>fits DEF TaskRecords
      <3>2. FitsOp(x)
        BY <3>1, <1>fits DEF FitsOp, RequestPCs, EpiloguePCs
      <3> HIDE DEF x
      <3>3. task' = [task EXCEPT ![t] = x]
        BY <2>3 DEF x
      <3> QED BY <2>1, <3>1, <3>2, <3>3, Moves
    <2> QED BY <1>Pick, <2>2, <2>3 DEF Pick
  <1>StartFeature. CASE StartFeature(t)
    <2>1. task[t].pc \notin {"none", "failed"} /\ Goto(t, "spawn") /\ SetState(t, "running")
      BY <1>StartFeature DEF StartFeature, Call, At
    <2>2. Keeps
      BY <2>1, SetStateKeeps
    <2> QED BY <2>1, <2>2, PlainGoto DEF PCs, RequestPCs, EpiloguePCs
  <1>Spawn. CASE Spawn(t)
    <2>1. task[t].pc \notin {"none", "failed"} /\ SetFeatureState(t, "coding", "work")
      BY <1>Spawn DEF Spawn, Call, At
    <2> QED BY <2>1, BacklogDriver DEF SetFeatureState, PCs, RequestPCs, EpiloguePCs
  <1>Work. CASE Work(t)
    <2>1. task[t].pc \notin {"none", "failed"} /\ Goto(t, "verify") /\ Keeps
      BY <1>Work, <1>keep DEF Work, Call, At
    <2> QED BY <2>1, PlainGoto DEF PCs, RequestPCs, EpiloguePCs
  <1>VerifyFeature. CASE VerifyFeature(t)
    <2>1. task[t].pc \notin {"none", "failed"} /\ SetFeatureState(t, "verifying", "verifying")
      BY <1>VerifyFeature DEF VerifyFeature, Call, At
    <2> QED BY <2>1, BacklogDriver DEF SetFeatureState, PCs, RequestPCs, EpiloguePCs
  <1>VerifyState. CASE VerifyState(t)
    <2>1. task[t].pc \notin {"none", "failed"} /\ Goto(t, "verdict") /\ SetState(t, "verifying")
      BY <1>VerifyState DEF VerifyState, Call, At
    <2>2. Keeps
      BY <2>1, SetStateKeeps
    <2> QED BY <2>1, <2>2, PlainGoto DEF PCs, RequestPCs, EpiloguePCs
  <1>GateRed. CASE GateRed(t)
    <2>1. task[t].pc \notin {"none", "failed"} /\ Goto(t, "red") /\ Keeps
      BY <1>GateRed, <1>keep DEF GateRed, Call, At
    <2> QED BY <2>1, PlainGoto DEF PCs, RequestPCs, EpiloguePCs
  <1>QaStart. CASE QaStart(t)
    <2>1. task[t].pc \notin {"none", "failed"} /\ SetFeatureState(t, "readyToTest", "qaRun")
      BY <1>QaStart DEF QaStart, Call, At
    <2> QED BY <2>1, BacklogDriver DEF SetFeatureState, PCs, RequestPCs, EpiloguePCs
  <1>Green. CASE Green(t)
    <2>1. /\ task[t].pc \notin {"none", "failed"}
          /\ \E st \in {"awaitingConfirm", "done"}, l \in {"park", "handoff"} :
                SetBacklog(t, WithState(R(t).list, task[t].feature, st), l)
      BY <1>Green DEF Green, SetFeatureState, Call, At
    <2>2. /\ {"park", "handoff"} \subseteq PCs
          /\ \A l \in {"park", "handoff"} : l \notin {"none", "save", "note"} \cup EpiloguePCs \cup RequestPCs
      BY DEF PCs, EpiloguePCs, RequestPCs
    <2> QED BY <2>1, <2>2, BacklogDriver
  <1>Park. CASE Park(t)
    <2>1. task[t].pc \notin {"none", "failed"} /\ Leave(t, FALSE) /\ SetState(t, "awaitingConfirmation")
      BY <1>Park DEF Park, Call, At
    <2>2. Keeps
      BY <2>1, SetStateKeeps
    <2> QED BY <2>1, <2>2, Leaves
  <1>Handoff. CASE Handoff(t)
    <2>1. /\ task[t].pc \notin {"none", "failed"} /\ Keeps
          /\ \/ Goto(t, "pick")
             \/ task[t].op # "drive" /\ (Goto(t, "resume") \/ End(t))
      BY <1>Handoff, <1>keep DEF Handoff, Call, At
    <2>2. /\ {"pick", "resume"} \subseteq PCs /\ "pick" \notin RequestPCs
          /\ \A l \in {"pick", "resume"} : l \notin {"none", "save", "note"} \cup EpiloguePCs
      BY DEF PCs, EpiloguePCs, RequestPCs
    <2> QED BY <2>1, <2>2, PlainGoto, Ends
  <1>RecordFailure. CASE RecordFailure(t)
    <2>1. /\ task[t].pc \notin {"none", "failed"}
          /\ \E list : \/ task[t].op # "drive" /\ SetBacklog(t, list, "end")
                       \/ \E l \in {"halt", "retry"} : SetBacklog(t, list, l)
      BY <1>RecordFailure DEF RecordFailure, Call, At
    <2>2. /\ {"end", "halt", "retry"} \subseteq PCs
          /\ \A l \in {"halt", "retry"} : l \notin {"none", "save", "note"} \cup EpiloguePCs \cup RequestPCs
          /\ "end" \notin {"none", "save", "note"} \cup EpiloguePCs
      BY DEF PCs, EpiloguePCs, RequestPCs
    <2> QED BY <2>1, <2>2, BacklogDriver
  <1>Answer. CASE Answer(t)
    <2>1. End(t) /\ Keeps /\ task[t].op # "drive"
      BY <1>Answer, <1>keep, <1>fits DEF Answer, At, FitsOp, RequestPCs
    <2> QED BY <2>1, Ends
  <1>Halt. CASE Halt(t)
    <2>1. task[t].pc \notin {"none", "failed"} /\ Leave(t, FALSE) /\ SetState(t, "blocked")
      BY <1>Halt DEF Halt, Call, At
    <2>2. Keeps
      BY <2>1, SetStateKeeps
    <2> QED BY <2>1, <2>2, Leaves
  <1>Retry. CASE Retry(t)
    <2>1. task[t].pc \notin {"none", "failed"} /\ Goto(t, "work") /\ SetState(t, "running")
      BY <1>Retry DEF Retry, Call, At
    <2>2. Keeps
      BY <2>1, SetStateKeeps
    <2> QED BY <2>1, <2>2, PlainGoto DEF PCs, RequestPCs, EpiloguePCs
  <1>Review. CASE Review(t)
    <2>1. task[t].pc \notin {"none", "failed"} /\ SetPhase(t, "review", "gate")
      BY <1>Review DEF Review, Call, At
    <2>2. "gate" \in PlainPCs
      BY DEF PlainPCs, PCs, RequestPCs, EpiloguePCs
    <2> QED BY <2>1, <2>2, PhaseDriver
  <1>FinishRun. CASE FinishRun(t)
    <2>1. task[t].pc \notin {"none", "failed"} /\ Leave(t, FALSE) /\ SetState(t, "done")
      BY <1>FinishRun DEF FinishRun, Call, At
    <2>2. Keeps
      BY <2>1, SetStateKeeps
    <2> QED BY <2>1, <2>2, Leaves
  <1>Release. CASE Release(t)
    <2> DEFINE r == task[t].run
               y == [R(t) EXCEPT !.driving = FALSE]
    <2>1. task[t].pc = "release" /\ task[t].op = "drive"
      BY <1>Release, <1>fits DEF Release, At, FitsOp, EpiloguePCs
    <2>2. r \in Runs /\ R(t) \in RunRecords /\ R(t) = run[r]
      BY <2>1, Records DEF R
    <2>3. y.on = run[r].on /\ y.fresh = run[r].fresh /\ y.driving = FALSE
      BY <2>2 DEF RunRecords
    <2>4. \A q \in Runs : run'[q] = IF q = r /\ run[r].on THEN y ELSE run[q]
      BY <1>Release, <2>2, <1>types DEF Release
    <2> HIDE DEF y
    <2>5. \A u \in Tasks : u # t => task'[u] = task[u]
      BY <1>Release, <1>types DEF Release, Goto, End
    <2>6. /\ task'[t].pc = "failed" \/ task'[t].op = "none"
          /\ task'[t].run \in {r, NoRun} /\ FitsOp(task'[t])
      <3>1. CASE Goto(t, "failed")
        <4>1. task'[t] = [task[t] EXCEPT !.pc = "failed"]
          BY <3>1, <1>types DEF Goto
        <4>2. /\ task'[t].pc = "failed" /\ task'[t].op = task[t].op
              /\ task'[t].run = r /\ task'[t].next = task[t].next
          BY <4>1, <1>fits DEF TaskRecords
        <4> QED BY <4>2, <2>1, <1>fits DEF FitsOp, RequestPCs, EpiloguePCs
      <3>2. CASE End(t)
        BY <3>2, <1>types DEF End, NoTask, FitsOp, RequestPCs, EpiloguePCs
      <3> QED BY <1>Release, <3>1, <3>2 DEF Release
    <2>7. \A u \in Tasks, q \in Runs : Drives(u, q)' <=> u # t /\ Drives(u, q)
      BY <2>5, <2>6 DEF Drives
    <2>8. Drives(t, r) /\ \A q \in Runs : Drives(t, q) => q = r
      BY <2>1 DEF Drives
    <2>9. ASSUME NEW q \in Runs, run'[q].on
          PROVE  /\ run'[q].driving <=> \E u \in Tasks : Drives(u, q)'
                 /\ \A u, v \in Tasks : Drives(u, q)' /\ Drives(v, q)' => u = v
      <3>1. CASE q = r
        <4>1. run[r].on /\ ~run'[q].driving
          BY <3>1, <2>9, <2>2, <2>3, <2>4
        <4>2. \A u \in Tasks : Drives(u, r) => u = t
          BY <4>1, <2>2, <2>8 DEF DriverInv, OneDriver
        <4> QED BY <3>1, <4>1, <4>2, <2>7
      <3>2. CASE q # r
        BY <3>2, <2>4, <2>7, <2>8, <2>9 DEF DriverInv, OneDriver
      <3> QED BY <3>1, <3>2
    <2>10. OneDriver'
      BY <2>9 DEF OneDriver
    <2>11. FreshUnused'
      BY <2>2, <2>3, <2>4, <2>5, <2>6, IdsAssumption DEF DriverInv, FreshUnused
    <2>12. \A u \in Tasks : FitsOp(task'[u])
      BY <2>5, <2>6 DEF DriverInv
    <2> QED BY <2>10, <2>11, <2>12 DEF DriverInv, FitsOp
  <1>ReportFailed. CASE ReportFailed(t)
    <2>1. /\ task[t].pc # "none" /\ task[t].pc = "failed" /\ End(t)
          /\ Keeps \/ SetState(t, "failed")
      BY <1>ReportFailed, <1>keep DEF ReportFailed, At
    <2>2. Keeps
      BY <2>1, SetStateKeeps
    <2> QED BY <2>1, <2>2, Ends
  <1>Confirm. CASE Confirm(t)
    <2>1. /\ task[t].pc = "confirm" /\ Keeps /\ (Goto(t, "confirmed") \/ End(t))
      BY <1>Confirm, <1>keep DEF Confirm, Call, At
    <2>2. task[t].op # "drive"
      BY <2>1, <1>fits DEF FitsOp, RequestPCs
    <2>3. "confirmed" \in PCs /\ "confirmed" \notin {"none", "save", "note"} \cup EpiloguePCs
      BY DEF PCs, EpiloguePCs
    <2> QED BY <2>1, <2>2, <2>3, PlainGoto, Ends
  <1>Confirmed. CASE Confirmed(t)
    <2>1. task[t].pc \notin {"none", "failed"} /\ SetFeatureState(t, "done", "handoff")
      BY <1>Confirmed DEF Confirmed, Call, At
    <2> QED BY <2>1, BacklogDriver DEF SetFeatureState, PCs, RequestPCs, EpiloguePCs
  <1>Resume. CASE Resume(t)
    <2>1. /\ task[t].pc = "resume" /\ task[t].op # "drive"
          /\ \/ Claimable(task[t].run) /\ Drive(t, task[t].run)
             \/ End(t) /\ Keeps
      BY <1>Resume, <1>keep, <1>fits DEF Resume, At, FitsOp, RequestPCs
    <2>2. task[t].run \in Runs
      BY <2>1, Records
    <2> QED BY <2>1, <2>2, Claims, Ends
  <1>Gone. CASE Gone(t)
    <2>1. task[t].pc \notin {"none", "failed"} /\ Leave(t, TRUE) /\ Keeps
      BY <1>Gone, <1>keep DEF Gone, Elsewhere
    <2> QED BY <2>1, Leaves
  <1> QED BY <1>InitStart, <1>InitPasses, <1>InitFails, <1>Begin, <1>ResetBlocked, <1>Phases,
             <1>Authoring, <1>RoleGate, <1>GateAdvance, <1>GateBlock, <1>GateAwait, <1>Reload,
             <1>EnterExecuting, <1>Pick, <1>StartFeature, <1>Spawn, <1>Work, <1>VerifyFeature,
             <1>VerifyState, <1>GateRed, <1>QaStart, <1>Green, <1>Park, <1>Handoff,
             <1>RecordFailure, <1>Answer, <1>Halt, <1>Retry, <1>Review, <1>FinishRun,
             <1>Release, <1>ReportFailed, <1>Confirm, <1>Confirmed, <1>Resume, <1>Gone DEF QuietStep

LEMMA NextDriver == ASSUME TypeInv, DriverInv, [Next]_vars PROVE DriverInv'
  <1>types. task \in [Tasks -> TaskRecords] /\ run \in [Runs -> RunRecords]
    BY DEF TypeInv, TypeOK
  <1>fits. ASSUME NEW t \in Tasks PROVE task[t] \in TaskRecords /\ FitsOp(task[t])
    BY <1>types DEF DriverInv
  <1>keep. ASSUME UNCHANGED run PROVE Keeps
    BY <1>keep DEF Keeps
  <1>none. NoTask.op = "none" /\ NoTask.run = NoRun /\ NoTask.next = "none"
    BY DEF NoTask
  <1>paid. ASSUME NEW t \in Tasks, task[t].pc \in {"save", "note"}, NEW x, UNCHANGED run,
                  task' = [task EXCEPT ![t] = x], x.op = task[t].op, x.run = task[t].run,
                  x.pc = task[t].next, x.next = "none"
           PROVE  DriverInv'
    <2>1. FitsOp(x) /\ x.pc # "failed" /\ task[t].pc # "failed"
      BY <1>paid, <1>fits DEF FitsOp, EpiloguePCs, RequestPCs
    <2> QED BY <1>paid, <1>keep, <2>1, Moves
  <1>Save. ASSUME NEW t \in Tasks, Save(t) PROVE DriverInv'
    <2> DEFINE x == [task[t] EXCEPT !.pc = task[t].next, !.next = "none", !.list = NoTask.list]
    <2>1. task[t].pc = "save" /\ task' = [task EXCEPT ![t] = x] /\ UNCHANGED run
      BY <1>Save DEF Save, At
    <2>2. x.op = task[t].op /\ x.run = task[t].run /\ x.pc = task[t].next /\ x.next = "none"
      BY <1>fits DEF TaskRecords
    <2> HIDE DEF x
    <2> QED BY <2>1, <2>2, <1>paid
  <1>Note. ASSUME NEW t \in Tasks, Note(t) \/ NoteFails(t) PROVE DriverInv'
    <2> DEFINE x == [task[t] EXCEPT !.pc = task[t].next, !.next = "none", !.phase = NoTask.phase]
    <2>1. task[t].pc = "note" /\ task' = [task EXCEPT ![t] = x] /\ UNCHANGED run
      BY <1>Note DEF Note, NoteFails, At
    <2>2. x.op = task[t].op /\ x.run = task[t].run /\ x.pc = task[t].next /\ x.next = "none"
      BY <1>fits DEF TaskRecords
    <2> HIDE DEF x
    <2> QED BY <2>1, <2>2, <1>paid
  <1>Decompose. ASSUME NEW t \in Tasks, Decompose(t) PROVE DriverInv'
    <2>1. PICK list : task' = [task EXCEPT ![t] = [task[t] EXCEPT !.pc = "save",
                                                      !.next = "reload", !.list = list]]
      BY <1>Decompose DEF Decompose
    <2> DEFINE x == [task[t] EXCEPT !.pc = "save", !.next = "reload", !.list = list]
    <2>2. task[t].pc = "decompose" /\ Keeps
      BY <1>Decompose, <1>keep DEF Decompose, At
    <2>3. x.op = task[t].op /\ x.run = task[t].run /\ x.pc = "save" /\ x.next = "reload"
      BY <1>fits DEF TaskRecords
    <2>4. FitsOp(x)
      BY <2>3 DEF FitsOp, EpiloguePCs, RequestPCs
    <2>5. task' = [task EXCEPT ![t] = x]
      BY <2>1
    <2> HIDE DEF x
    <2> QED BY <2>2, <2>3, <2>4, <2>5, Moves
  <1>Passing. ASSUME NEW t \in Tasks, VerifyGreen(t) \/ QaGreen(t) PROVE DriverInv'
    <2>1. /\ task[t].pc # "failed" /\ Keeps
          /\ \E l \in {"qa", "green"} : Goto(t, l)
      BY <1>Passing, <1>keep DEF VerifyGreen, QaGreen, At
    <2>2. /\ {"qa", "green"} \subseteq PCs
          /\ \A l \in {"qa", "green"} : l \notin {"none", "save", "note"} \cup EpiloguePCs \cup RequestPCs
      BY DEF PCs, EpiloguePCs, RequestPCs
    <2> QED BY <2>1, <2>2, PlainGoto
  <1>Fails. ASSUME NEW t \in Tasks, Fails(t) PROVE DriverInv'
    <2>1. task[t].pc # "failed" /\ Leave(t, TRUE) /\ Keeps
      BY <1>Fails, <1>keep DEF Fails, Fallible
    <2> QED BY <2>1, Leaves
  <1>ClientGone. ASSUME NEW t \in Tasks, ClientGone(t) PROVE DriverInv'
    BY <1>ClientGone, <1>keep, Ends DEF ClientGone
  <1>RunRequest. ASSUME NEW t \in Tasks, NEW r \in Runs, RunRequest(t, r) PROVE DriverInv'
    <2>1. task[t].op # "drive"
      BY <1>RunRequest, <1>fits DEF RunRequest, Request, Busy, FitsOp
    <2> QED BY <1>RunRequest, <2>1, Claims DEF RunRequest
  <1>ManualRequest. ASSUME NEW t \in Tasks, NEW r \in Runs, NEW op \in Ops, NEW f \in Features,
                           ManualRequest(t, r, op, f)
                    PROVE  DriverInv'
    <2> DEFINE x == [NoTask EXCEPT !.op = op, !.pc = op, !.run = r,
                                   !.feature = IF op = "init" THEN 1 ELSE f]
    <2>1. op \in {"init", "verify", "confirm"}
      BY <1>ManualRequest, OpsAssumption DEF ManualRequest
    <2>2. x.op = op /\ x.pc = op /\ x.run = r /\ x.next = "none"
      BY DEF NoTask
    <2>3. FitsOp(x)
      BY <2>1, <2>2 DEF FitsOp, EpiloguePCs, RequestPCs
    <2>4. task[t].op # "drive" /\ run[r].on /\ UNCHANGED run
      BY <1>ManualRequest, <1>fits DEF ManualRequest, Request, Busy, FitsOp
    <2>5. \A u \in Tasks : task'[u] = IF u = t THEN x ELSE task[u]
      BY <1>ManualRequest, <1>types DEF ManualRequest
    <2> HIDE DEF x
    <2>6. \A u \in Tasks, q \in Runs : Drives(u, q)' <=> Drives(u, q)
      BY <2>1, <2>2, <2>4, <2>5 DEF Drives
    <2>7. OneDriver'
      BY <2>4, <2>6 DEF DriverInv, OneDriver
    <2>8. FreshUnused'
      BY <2>2, <2>4, <2>5 DEF DriverInv, FreshUnused
    <2>9. \A u \in Tasks : FitsOp(task'[u])
      BY <2>3, <2>5, <1>fits
    <2> QED BY <2>7, <2>8, <2>9 DEF DriverInv, FitsOp
  <1>replaced. ASSUME NEW r \in Runs, NEW y, run' = [run EXCEPT ![r] = y], UNCHANGED task,
                      ~y.fresh, y.on => run[r].fresh /\ ~y.driving
               PROVE  DriverInv'
    <2>1. \A q \in Runs : run'[q] = IF q = r THEN y ELSE run[q]
      BY <1>replaced, <1>types
    <2>2. \A u \in Tasks, q \in Runs : Drives(u, q)' <=> Drives(u, q)
      BY <1>replaced DEF Drives
    <2>3. y.on => \A u \in Tasks : ~Drives(u, r)
      BY <1>replaced DEF DriverInv, FreshUnused, Drives
    <2>4. OneDriver'
      <3> SUFFICES ASSUME NEW q \in Runs, run'[q].on
                   PROVE  /\ run'[q].driving <=> \E u \in Tasks : Drives(u, q)'
                          /\ \A u, v \in Tasks : Drives(u, q)' /\ Drives(v, q)' => u = v
        BY DEF OneDriver
      <3>1. CASE q = r
        BY <3>1, <2>1, <2>2, <2>3, <1>replaced
      <3>2. CASE q # r
        BY <3>2, <2>1, <2>2 DEF DriverInv, OneDriver
      <3> QED BY <3>1, <3>2
    <2>5. FreshUnused'
      BY <2>1, <1>replaced DEF DriverInv, FreshUnused
    <2> QED BY <2>4, <2>5, <1>replaced DEF DriverInv, FitsOp
  <1>Register. ASSUME NEW r \in Runs, Register(r) PROVE DriverInv'
    <2> DEFINE y == [NotRegistered EXCEPT !.on = TRUE, !.fresh = FALSE,
                                          !.list = disk.list, !.phase = disk.phase]
    <2>1. run' = [run EXCEPT ![r] = y] /\ UNCHANGED task /\ run[r].fresh
      BY <1>Register DEF Register
    <2>2. ~y.fresh /\ ~y.driving
      BY DEF NotRegistered
    <2> HIDE DEF y
    <2> QED BY <2>1, <2>2, <1>replaced
  <1>Stop. ASSUME NEW r \in Runs, Stop(r) PROVE DriverInv'
    <2> DEFINE y == [NotRegistered EXCEPT !.fresh = FALSE]
    <2>1. run' = [run EXCEPT ![r] = y] /\ UNCHANGED task
      BY <1>Stop DEF Stop
    <2>2. ~y.fresh /\ ~y.on
      BY DEF NotRegistered
    <2> HIDE DEF y
    <2> QED BY <2>1, <2>2, <1>replaced
  <1>Crash. CASE Crash
    <2>1. \A r \in Runs : ~run'[r].on /\ (run'[r].fresh => run[r].fresh)
      BY <1>Crash, <1>types DEF Crash, NotRegistered
    <2>2. \A t \in Tasks : task'[t] = NoTask
      BY <1>Crash DEF Crash
    <2>3. OneDriver' /\ FreshUnused'
      BY <2>1, <2>2, <1>none, IdsAssumption DEF OneDriver, FreshUnused
    <2>4. FitsOp(NoTask)
      BY DEF NoTask, FitsOp, EpiloguePCs, RequestPCs
    <2> QED BY <2>2, <2>3, <2>4 DEF DriverInv, FitsOp
  <1>stutter. CASE UNCHANGED vars
    BY <1>stutter DEF vars, DriverInv, OneDriver, FreshUnused, FitsOp, Drives
  <1>quiet. ASSUME NEW t \in Tasks, QuietStep(t) PROVE DriverInv'
    BY <1>quiet, QuietDriver
  <1> QED BY <1>quiet, <1>Save, <1>Note, <1>Decompose, <1>Passing, <1>Fails,
             <1>ClientGone, <1>RunRequest, <1>ManualRequest, <1>Register, <1>Stop, <1>Crash,
             <1>stutter DEF Next, Step, QuietStep

LEMMA InitDriver == ASSUME Init PROVE DriverInv
  <1>1. \A t \in Tasks : task[t] = NoTask
    BY DEF Init
  <1>2. NoTask.op = "none" /\ NoTask.run = NoRun /\ FitsOp(NoTask)
    BY DEF NoTask, FitsOp, EpiloguePCs, RequestPCs
  <1>3. \A r \in Runs : ~run[r].on
    BY DEF Init, NotRegistered
  <1> QED BY <1>1, <1>2, <1>3, IdsAssumption DEF DriverInv, OneDriver, FreshUnused

LEMMA AlwaysDriven == Spec => []DriverInv
  <1>1. Init => DriverInv
    BY InitDriver
  <1>2. TypeInv /\ DriverInv /\ [Next]_vars => DriverInv'
    BY NextDriver
  <1> QED BY <1>1, <1>2, AlwaysTyped, PTL DEF Spec

(* However runs, confirms, stops, failures, hang-ups and crashes of any    *)
(* number of clients interleave, claim_driver and release_driver keep a    *)
(* run's slot taken exactly while one drive loop works on it.              *)
THEOREM DriverIsUnique == Spec => []OneDriver
  <1>1. DriverInv => OneDriver
    BY DEF DriverInv
  <1> QED BY <1>1, AlwaysDriven, PTL

-------------------------------------------------------------------------------
(***************************************************************************)
(* What the harness engine says, however confirms, verifies, drives,       *)
(* stops, failures and crashes interleave.  The gates: what memory or disk *)
(* calls done has passed its gates.  A project at rest: the state shown    *)
(* says what it waits for, the knobs are still the configured ones, and    *)
(* feature_list.json is the backlog in memory.                             *)
(***************************************************************************)

(* The gates.  A list is good when all it calls done or parked has passed  *)
(* its gates; a task is good when the list it owes the disk is, and when   *)
(* the place it is at, or is going to after that write, was earned by the  *)
(* feature it works on.                                                    *)
PassedAll(g, f) == "spec" \in g[f] \/ {"unit", "qa"} \subseteq g[f] \/ "manual" \in g[f]

Settled == {"done", "awaitingConfirm"}
Earned == {"green", "confirmed", "qa", "qaRun"}

GoodList(g, list) ==
    \A f \in Features : list.features[f].state \in Settled => PassedAll(g, f)

Place(x) == IF x.pc \in {"save", "note"} THEN x.next ELSE x.pc

GoodTask(g, x) ==
    /\ GoodList(g, x.list)
    /\ Place(x) \in {"green", "confirmed"} => PassedAll(g, x.feature)
    /\ Place(x) \in {"qa", "qaRun"} => "unit" \in g[x.feature]

GateInv ==
    /\ GoodList(gates, disk.list)
    /\ \A r \in Runs : GoodList(gates, run[r].list)
    /\ \A t \in Tasks : GoodTask(gates, task[t])

(* Gates are only ever added. *)
LEMMA GatesGrow ==
    ASSUME NEW g, NEW h, \A f \in Features : g[f] \subseteq h[f]
    PROVE  /\ \A f \in Features : PassedAll(g, f) => PassedAll(h, f)
           /\ \A list : GoodList(g, list) => GoodList(h, list)
           /\ \A x : x.feature \in Features /\ GoodTask(g, x) => GoodTask(h, x)
  <1>1. \A f \in Features : PassedAll(g, f) => PassedAll(h, f)
    BY DEF PassedAll
  <1>2. ASSUME NEW list, GoodList(g, list) PROVE GoodList(h, list)
    BY <1>1, <1>2 DEF GoodList
  <1>3. ASSUME NEW x, x.feature \in Features, GoodTask(g, x) PROVE GoodTask(h, x)
    BY <1>1, <1>2, <1>3 DEF GoodTask
  <1> QED BY <1>1, <1>2, <1>3

LEMMA GoodNothing ==
    ASSUME NEW g
    PROVE  /\ \A k : GoodList(g, NewBacklog(k))
           /\ GoodList(g, NoTask.list) /\ GoodList(g, NotRegistered.list) /\ GoodTask(g, NoTask)
  <1>1. \A k : GoodList(g, NewBacklog(k))
    BY DEF GoodList, NewBacklog, NewFeature, Settled
  <1>2. /\ NoTask.list = NewBacklog(DefaultKnobs) /\ NotRegistered.list = NewBacklog(DefaultKnobs)
        /\ NoTask.pc = "none"
    BY DEF NoTask, NotRegistered
  <1> QED BY <1>1, <1>2 DEF GoodTask, Place

LEMMA GoodFeature ==
    ASSUME NEW g, NEW list \in Backlogs, GoodList(g, list), NEW f \in Features, NEW x,
           x.state \in Settled => PassedAll(g, f)
    PROVE  GoodList(g, WithFeature(list, f, x))
  <1>1. \A h \in Features : WithFeature(list, f, x).features[h] =
                               IF h = f THEN x ELSE list.features[h]
    BY DEF WithFeature, Backlogs
  <1> QED BY <1>1 DEF GoodList

LEMMA GoodState ==
    ASSUME NEW g, NEW list \in Backlogs, GoodList(g, list), NEW f \in Features, NEW st,
           st \in Settled => PassedAll(g, f)
    PROVE  GoodList(g, WithState(list, f, st))
  <1> DEFINE x == [list.features[f] EXCEPT !.state = st]
  <1>1. x.state = st
    BY DEF Backlogs
  <1>2. WithState(list, f, st) = WithFeature(list, f, x)
    BY DEF WithState
  <1> HIDE DEF x
  <1> QED BY <1>1, <1>2, GoodFeature

(* A step of one task that adds no gate and writes no file. *)
LEMMA GateStep ==
    ASSUME TypeInv, GateInv, UNCHANGED world, NEW t \in Tasks, NEW x,
           task' = [task EXCEPT ![t] = x], GoodTask(gates, x),
           \A r \in Runs : GoodList(gates, run'[r].list)
    PROVE  GateInv'
  <1>1. \A u \in Tasks : GoodTask(gates, task'[u])
    BY DEF TypeInv, TypeOK, GateInv
  <1> QED BY <1>1 DEF GateInv, world

SameLists == \A r \in Runs : run'[r].list = run[r].list

LEMMA SetStateLists ==
    ASSUME TypeInv, NEW t \in Tasks, task[t].pc # "none", NEW st, SetState(t, st)
    PROVE  SameLists
  <1> DEFINE x == [R(t) EXCEPT !.state = st]
  <1>1. task[t].run \in Runs /\ R(t) \in RunRecords
    BY Records
  <1>2. x.list = R(t).list
    BY <1>1 DEF RunRecords
  <1>3. run' = [run EXCEPT ![task[t].run] = x]
    BY DEF SetState
  <1> HIDE DEF x
  <1> QED BY <1>1, <1>2, <1>3 DEF R, SameLists, TypeInv, TypeOK

LEMMA GateGoto ==
    ASSUME TypeInv, GateInv, UNCHANGED world, SameLists, NEW t \in Tasks, NEW l \in PCs,
           Goto(t, l), l \notin {"save", "note"}, 
           l \in Earned => l = "confirmed" /\ PassedAll(gates, task[t].feature)
    PROVE  GateInv'
  <1> DEFINE x == [task[t] EXCEPT !.pc = l]
  <1>1. task[t] \in TaskRecords /\ GoodTask(gates, task[t])
    BY DEF TypeInv, TypeOK, GateInv
  <1>2. x.pc = l /\ x.list = task[t].list /\ x.feature = task[t].feature
    BY <1>1 DEF TaskRecords
  <1>3. GoodTask(gates, x)
    BY <1>1, <1>2 DEF GoodTask, Place, Earned
  <1>4. task' = [task EXCEPT ![t] = x]
    BY DEF Goto
  <1> HIDE DEF x
  <1> QED BY <1>3, <1>4, GateStep DEF SameLists, GateInv

LEMMA GateEnd ==
    ASSUME TypeInv, GateInv, UNCHANGED world, SameLists, NEW t \in Tasks, End(t)
    PROVE  GateInv'
  BY GoodNothing, GateStep DEF End, SameLists, GateInv

LEMMA GateLeave ==
    ASSUME TypeInv, GateInv, UNCHANGED world, SameLists, NEW t \in Tasks, NEW e, Leave(t, e)
    PROVE  GateInv'
  <1>1. CASE task[t].op = "drive"
    <2> DEFINE x == [NoTask EXCEPT !.op = "drive", !.run = task[t].run,
                                   !.pc = "release", !.err = e]
    <2>1. x.pc = "release" /\ x.list = NoTask.list
      BY DEF NoTask
    <2>2. GoodTask(gates, x)
      BY <2>1, GoodNothing DEF GoodTask, Place
    <2>3. task' = [task EXCEPT ![t] = x]
      BY <1>1 DEF Leave
    <2> HIDE DEF x
    <2> QED BY <2>2, <2>3, GateStep DEF SameLists, GateInv
  <1>2. CASE task[t].op # "drive"
    BY <1>2, GateEnd DEF Leave
  <1> QED BY <1>1, <1>2

LEMMA GateBacklog ==
    ASSUME TypeInv, GateInv, UNCHANGED world, NEW t \in Tasks, task[t].pc # "none", NEW list,
           NEW l, SetBacklog(t, list, l), GoodList(gates, list),
           l \in Earned => l = "qaRun" /\ "unit" \in gates[task[t].feature]
    PROVE  GateInv'
  <1> DEFINE y == [R(t) EXCEPT !.list = list]
             x == [task[t] EXCEPT !.pc = "save", !.list = list, !.next = l]
  <1>1. task[t].run \in Runs /\ R(t) \in RunRecords /\ task[t] \in TaskRecords
    BY Records
  <1>2. y.list = list
    BY <1>1 DEF RunRecords
  <1>3. x.pc = "save" /\ x.next = l /\ x.list = list /\ x.feature = task[t].feature
    BY <1>1 DEF TaskRecords
  <1>4. GoodTask(gates, x)
    BY <1>3 DEF GoodTask, Place, Earned
  <1>5. run' = [run EXCEPT ![task[t].run] = y] /\ task' = [task EXCEPT ![t] = x]
    BY DEF SetBacklog
  <1> HIDE DEF x, y
  <1>6. \A r \in Runs : GoodList(gates, run'[r].list)
    BY <1>1, <1>2, <1>5 DEF TypeInv, TypeOK, GateInv
  <1> QED BY <1>4, <1>5, <1>6, GateStep

LEMMA GatePhase ==
    ASSUME TypeInv, GateInv, UNCHANGED world, NEW t \in Tasks, task[t].pc # "none", NEW p,
           NEW l \in PCs, SetPhase(t, p, l), l \notin Earned \cup {"save", "note"}
    PROVE  GateInv'
  <1> DEFINE y == [R(t) EXCEPT !.phase = p, !.phaseAttempts = 0]
             x == IF R(t).phase = p THEN [task[t] EXCEPT !.pc = l]
                  ELSE [task[t] EXCEPT !.pc = "note", !.phase = p, !.next = l]
  <1>1. /\ task[t].run \in Runs /\ R(t) \in RunRecords /\ task[t] \in TaskRecords
        /\ GoodTask(gates, task[t])
    BY Records DEF GateInv
  <1>2. y.list = R(t).list
    BY <1>1 DEF RunRecords
  <1>3. /\ x.list = task[t].list
        /\ x.pc = l \/ (x.pc = "note" /\ x.next = l)
    BY <1>1 DEF TaskRecords
  <1>4. GoodTask(gates, x)
    BY <1>1, <1>3 DEF GoodTask, Place, Earned
  <1>5. run' = [run EXCEPT ![task[t].run] = y] /\ task' = [task EXCEPT ![t] = x]
    BY DEF SetPhase
  <1> HIDE DEF x, y
  <1>6. \A r \in Runs : GoodList(gates, run'[r].list)
    BY <1>1, <1>2, <1>5 DEF TypeInv, TypeOK, GateInv, R
  <1> QED BY <1>4, <1>5, <1>6, GateStep

LEMMA GateDrive ==
    ASSUME TypeInv, GateInv, UNCHANGED <<disk, gates>>, NEW t \in Tasks, NEW r \in Runs, Drive(t, r)
    PROVE  GateInv'
  <1> DEFINE x == [NoTask EXCEPT !.op = "drive", !.pc = "init", !.run = r]
             y == [run[r] EXCEPT !.driving = TRUE]
  <1>1. task \in [Tasks -> TaskRecords] /\ run \in [Runs -> RunRecords]
    BY DEF TypeInv, TypeOK
  <1>2. x.pc = "init" /\ x.list = NoTask.list /\ y.list = run[r].list
    BY <1>1 DEF NoTask, RunRecords
  <1>3. GoodTask(gates, x)
    BY <1>2, GoodNothing DEF GoodTask, Place
  <1>4. run' = [run EXCEPT ![r] = y] /\ task' = [task EXCEPT ![t] = x]
    BY DEF Drive
  <1> HIDE DEF x, y
  <1>5. \A q \in Runs : GoodList(gates, run'[q].list)
    BY <1>1, <1>2, <1>4 DEF GateInv
  <1>6. \A u \in Tasks : GoodTask(gates, task'[u])
    BY <1>1, <1>3, <1>4 DEF GateInv
  <1> QED BY <1>5, <1>6 DEF GateInv

(* No quiet step calls a feature done, or sends it on, without its gates. *)
LEMMA QuietGates ==
    ASSUME TypeInv, GateInv, NEW t \in Tasks, QuietStep(t)
    PROVE  GateInv'
  <1>world. UNCHANGED world
    BY DEF QuietStep, InitStart, InitPasses, InitFails, Begin, ResetBlocked, Phases,
       Authoring, RoleGate, GateAdvance, GateBlock, GateAwait, Reload, EnterExecuting, Pick,
       StartFeature, Spawn, Work, VerifyFeature, VerifyState, GateRed, QaStart, Green, Park,
       Handoff, RecordFailure, Answer, Halt, Retry, Review, FinishRun, Release, ReportFailed,
       Confirm, Confirmed, Resume, Gone
  <1>same. ASSUME UNCHANGED run PROVE SameLists
    BY <1>same DEF SameLists
  <1>task. task[t] \in TaskRecords /\ GoodTask(gates, task[t])
    BY DEF TypeInv, TypeOK, GateInv
  <1>run. ASSUME task[t].pc # "none"
          PROVE  /\ task[t].run \in Runs /\ R(t) \in RunRecords /\ R(t).list \in Backlogs
                 /\ task[t].feature \in Features /\ GoodList(gates, R(t).list)
    <2>1. task[t].run \in Runs /\ R(t) \in RunRecords /\ R(t).list \in Backlogs
          /\ task[t].feature \in Features
      BY <1>run, Records
    <2> QED BY <2>1 DEF GateInv, R
  <1>plain. /\ PCs \ Earned \subseteq PCs /\ {"save", "note"} \cap Earned = {}
            /\ {"initRun", "begin", "reset", "phases", "authoring", "gate", "advance", "block",
                "await", "decompose", "enter", "pick", "start", "spawn", "work", "verify",
                "verifying", "verdict", "park", "handoff", "red", "halt", "retry", "review",
                "finish", "failed", "confirmed", "resume", "end"} \subseteq PCs \ {"save", "note"}
    BY DEF PCs, Earned
  <1>InitStart. CASE InitStart(t)
    <2>1. task[t].pc # "none" /\ Goto(t, "initRun") /\ SetState(t, "initVerifying")
      BY <1>InitStart DEF InitStart, Call, At
    <2>2. SameLists
      BY <2>1, SetStateLists
    <2> QED BY <2>1, <2>2, <1>world, <1>plain, GateGoto DEF Earned
  <1>InitPasses. CASE InitPasses(t)
    <2>1. /\ task[t].pc # "none" /\ SetState(t, "idle")
          /\ Goto(t, "begin") \/ End(t)
      BY <1>InitPasses DEF InitPasses, Call, At
    <2>2. SameLists
      BY <2>1, SetStateLists
    <2>3. "begin" \in PCs /\ "begin" \notin {"save", "note"} \cup Earned
      BY <1>plain DEF Earned
    <2> QED BY <2>1, <2>2, <2>3, <1>world, GateGoto, GateEnd
  <1>InitFails. CASE InitFails(t)
    <2>1. task[t].pc # "none" /\ Leave(t, TRUE) /\ SetState(t, "failed")
      BY <1>InitFails DEF InitFails, Call, At
    <2>2. SameLists
      BY <2>1, SetStateLists
    <2> QED BY <2>1, <2>2, <1>world, GateLeave
  <1>Begin. CASE Begin(t)
    <2>1. task[t].pc # "none" /\ Goto(t, "reset") /\ SetState(t, "running")
      BY <1>Begin DEF Begin, Call, At
    <2>2. SameLists
      BY <2>1, SetStateLists
    <2> QED BY <2>1, <2>2, <1>world, <1>plain, GateGoto DEF Earned
  <1>ResetBlocked. CASE ResetBlocked(t)
    <2>1. /\ task[t].pc # "none"
          /\ \/ Goto(t, "phases") /\ SameLists
             \/ SetBacklog(t, Unblocked(R(t).list), "phases")
      BY <1>ResetBlocked, <1>same DEF ResetBlocked, Call, At
    <2>2. GoodList(gates, Unblocked(R(t).list))
      <3>1. R(t).list \in Backlogs /\ GoodList(gates, R(t).list)
        BY <2>1, <1>run
      <3>2. \A f \in Features :
              Unblocked(R(t).list).features[f].state \in {"pending", R(t).list.features[f].state}
        BY <3>1 DEF Unblocked, NewFeature, Backlogs
      <3> QED BY <3>1, <3>2 DEF GoodList, Settled
    <2>3. "phases" \in PCs /\ "phases" \notin {"save", "note"} \cup Earned
      BY <1>plain DEF Earned
    <2> QED BY <2>1, <2>2, <2>3, <1>world, GateGoto, GateBacklog
  <1>Phases. CASE Phases(t)
    <2> DEFINE x == IF disk.list.knobs.roles
                    THEN [task[t] EXCEPT !.pc = "authoring", !.phases = TRUE]
                    ELSE [task[t] EXCEPT !.pc = "pick"]
    <2>1. task' = [task EXCEPT ![t] = x] /\ SameLists
      BY <1>Phases, <1>same DEF Phases
    <2>2. x.list = task[t].list /\ x.pc \in {"authoring", "pick"}
      BY <1>task DEF TaskRecords
    <2>3. GoodTask(gates, x)
      BY <2>2, <1>task DEF GoodTask, Place
    <2> HIDE DEF x
    <2> QED BY <2>1, <2>3, <1>world, GateStep DEF SameLists, GateInv
  <1>Authoring. CASE Authoring(t)
    <2>1. task[t].pc # "none" /\ SetPhase(t, "authoring", "gate")
      BY <1>Authoring DEF Authoring, Call, At
    <2> QED BY <2>1, <1>world, <1>plain, GatePhase DEF Earned
  <1>RoleGate. CASE RoleGate(t)
    <2> DEFINE n == R(t).phaseAttempts + 1
               y == [R(t) EXCEPT !.phaseAttempts = n]
    <2>1. task[t].pc # "none" /\ run' = [run EXCEPT ![task[t].run] = y]
      BY <1>RoleGate DEF RoleGate, Call, At
    <2>2. PICK b \in BOOLEAN : Goto(t, GateDecision(b, n, disk.list.knobs))
      BY <1>RoleGate DEF RoleGate
    <2>3. task[t].run \in Runs /\ R(t) \in RunRecords
      BY <2>1, <1>run
    <2>4. n \in Nat /\ y.list = R(t).list
      BY <2>3 DEF RunRecords
    <2>5. SameLists
      <3> HIDE DEF y
      <3> QED BY <2>1, <2>3, <2>4 DEF R, SameLists, TypeInv, TypeOK
    <2>6. disk.list.knobs \in KnobRecords
      BY DEF TypeInv, TypeOK, Disks, Backlogs
    <2>7. GateDecision(b, n, disk.list.knobs) \in {"advance", "gate", "await", "block"}
      BY <2>4, <2>6, GateDecisionTypes
    <2>8. \A l \in {"advance", "gate", "await", "block"} :
             l \in PCs /\ l \notin {"save", "note"} \cup Earned
      BY <1>plain DEF Earned
    <2> HIDE DEF n
    <2> QED BY <2>2, <2>5, <2>7, <2>8, <1>world, GateGoto
  <1>GateAdvance. CASE GateAdvance(t)
    <2>1. /\ task[t].pc # "none"
          /\ \/ SetPhase(t, "architecture", "gate")
             \/ SetPhase(t, "decompose", "decompose")
             \/ SetPhase(t, "done", "finish")
      BY <1>GateAdvance DEF GateAdvance, Call, At
    <2>2. \A l \in {"gate", "decompose", "finish"} :
             l \in PCs /\ l \notin Earned \cup {"save", "note"}
      BY <1>plain DEF Earned
    <2> QED BY <2>1, <2>2, <1>world, GatePhase
  <1>GateBlock. CASE GateBlock(t)
    <2>1. task[t].pc # "none" /\ SetPhase(t, "blocked", "halt")
      BY <1>GateBlock DEF GateBlock, Call, At
    <2> QED BY <2>1, <1>world, <1>plain, GatePhase DEF Earned
  <1>GateAwait. CASE GateAwait(t)
    <2>1. task[t].pc # "none" /\ SetPhase(t, "awaitingConfirm", "park")
      BY <1>GateAwait DEF GateAwait, Call, At
    <2> QED BY <2>1, <1>world, <1>plain, GatePhase DEF Earned
  <1>Reload. CASE Reload(t)
    <2> DEFINE y == [R(t) EXCEPT !.list = disk.list]
               x == [task[t] EXCEPT !.pc = "enter"]
    <2>1. /\ task[t].pc # "none" /\ run' = [run EXCEPT ![task[t].run] = y]
          /\ task' = [task EXCEPT ![t] = x]
      BY <1>Reload DEF Reload, Call, At, Goto
    <2>2. task[t].run \in Runs /\ R(t) \in RunRecords
      BY <2>1, <1>run
    <2>3. y.list = disk.list /\ x.pc = "enter" /\ x.list = task[t].list
      BY <2>2, <1>task DEF RunRecords, TaskRecords
    <2>4. GoodTask(gates, x)
      BY <2>3, <1>task DEF GoodTask, Place
    <2> HIDE DEF x, y
    <2>5. \A r \in Runs : GoodList(gates, run'[r].list)
      BY <2>1, <2>2, <2>3 DEF GateInv, TypeInv, TypeOK
    <2> QED BY <2>1, <2>4, <2>5, <1>world, GateStep
  <1>EnterExecuting. CASE EnterExecuting(t)
    <2>1. task[t].pc # "none" /\ SetPhase(t, "executing", "pick")
      BY <1>EnterExecuting DEF EnterExecuting, Call, At
    <2> QED BY <2>1, <1>world, <1>plain, GatePhase DEF Earned
  <1>Pick. CASE Pick(t)
    <2>1. SameLists
      BY <1>Pick, <1>same DEF Pick
    <2>2. CASE \E l \in {"review", "finish"} : Goto(t, l)
      <3>1. \A l \in {"review", "finish"} : l \in PCs /\ l \notin {"save", "note"} \cup Earned
        BY <1>plain DEF Earned
      <3> QED BY <2>1, <2>2, <3>1, <1>world, GateGoto
    <2>3. ASSUME NEW f,
                 task' = [task EXCEPT ![t] = [task[t] EXCEPT !.pc = "start", !.feature = f]]
          PROVE  GateInv'
      <3> DEFINE x == [task[t] EXCEPT !.pc = "start", !.feature = f]
      <3>1. x.list = task[t].list /\ x.pc = "start"
        BY <1>task DEF TaskRecords
      <3>2. GoodTask(gates, x)
        BY <3>1, <1>task DEF GoodTask, Place
      <3>3. task' = [task EXCEPT ![t] = x]
        BY <2>3
      <3> HIDE DEF x
      <3> QED BY <2>1, <3>2, <3>3, <1>world, GateStep DEF SameLists, GateInv
    <2> QED BY <1>Pick, <2>2, <2>3 DEF Pick
  <1>StartFeature. CASE StartFeature(t)
    <2>1. task[t].pc # "none" /\ Goto(t, "spawn") /\ SetState(t, "running")
      BY <1>StartFeature DEF StartFeature, Call, At
    <2>2. SameLists
      BY <2>1, SetStateLists
    <2> QED BY <2>1, <2>2, <1>world, <1>plain, GateGoto DEF Earned
  <1>Spawn. CASE Spawn(t)
    <2>1. task[t].pc # "none" /\ SetFeatureState(t, "coding", "work")
      BY <1>Spawn DEF Spawn, Call, At
    <2>2. GoodList(gates, WithState(R(t).list, task[t].feature, "coding"))
      BY <2>1, <1>run, GoodState DEF Settled
    <2> QED BY <2>1, <2>2, <1>world, GateBacklog DEF SetFeatureState, Earned
  <1>Work. CASE Work(t)
    <2>1. Goto(t, "verify") /\ SameLists
      BY <1>Work, <1>same DEF Work
    <2> QED BY <2>1, <1>world, <1>plain, GateGoto DEF Earned
  <1>VerifyFeature. CASE VerifyFeature(t)
    <2>1. task[t].pc # "none" /\ SetFeatureState(t, "verifying", "verifying")
      BY <1>VerifyFeature DEF VerifyFeature, Call, At
    <2>2. GoodList(gates, WithState(R(t).list, task[t].feature, "verifying"))
      BY <2>1, <1>run, GoodState DEF Settled
    <2> QED BY <2>1, <2>2, <1>world, GateBacklog DEF SetFeatureState, Earned
  <1>VerifyState. CASE VerifyState(t)
    <2>1. task[t].pc # "none" /\ Goto(t, "verdict") /\ SetState(t, "verifying")
      BY <1>VerifyState DEF VerifyState, Call, At
    <2>2. SameLists
      BY <2>1, SetStateLists
    <2> QED BY <2>1, <2>2, <1>world, <1>plain, GateGoto DEF Earned
  <1>GateRed. CASE GateRed(t)
    <2>1. Goto(t, "red") /\ SameLists
      BY <1>GateRed, <1>same DEF GateRed
    <2> QED BY <2>1, <1>world, <1>plain, GateGoto DEF Earned
  <1>QaStart. CASE QaStart(t)
    <2>1. task[t].pc = "qa" /\ SetFeatureState(t, "readyToTest", "qaRun")
      BY <1>QaStart DEF QaStart, Call, At
    <2>2. GoodList(gates, WithState(R(t).list, task[t].feature, "readyToTest"))
      BY <2>1, <1>run, GoodState DEF Settled
    <2>3. "unit" \in gates[task[t].feature]
      BY <2>1, <1>task DEF GoodTask, Place
    <2> QED BY <2>1, <2>2, <2>3, <1>world, GateBacklog DEF SetFeatureState
  <1>Green. CASE Green(t)
    <2>1. /\ task[t].pc = "green"
          /\ \E st \in Settled, l \in {"park", "handoff"} :
                SetBacklog(t, WithState(R(t).list, task[t].feature, st), l)
      BY <1>Green DEF Green, SetFeatureState, Call, At, Settled
    <2>2. PassedAll(gates, task[t].feature)
      BY <2>1, <1>task DEF GoodTask, Place
    <2>3. \A st \in Settled : GoodList(gates, WithState(R(t).list, task[t].feature, st))
      BY <2>1, <2>2, <1>run, GoodState
    <2>4. \A l \in {"park", "handoff"} : l \notin Earned
      BY DEF Earned
    <2> QED BY <2>1, <2>3, <2>4, <1>world, GateBacklog
  <1>Park. CASE Park(t)
    <2>1. task[t].pc # "none" /\ Leave(t, FALSE) /\ SetState(t, "awaitingConfirmation")
      BY <1>Park DEF Park, Call, At
    <2>2. SameLists
      BY <2>1, SetStateLists
    <2> QED BY <2>1, <2>2, <1>world, GateLeave
  <1>Handoff. CASE Handoff(t)
    <2>1. SameLists /\ (Goto(t, "pick") \/ Goto(t, "resume") \/ End(t))
      BY <1>Handoff, <1>same DEF Handoff
    <2>2. \A l \in {"pick", "resume"} : l \in PCs /\ l \notin {"save", "note"} \cup Earned
      BY <1>plain DEF Earned
    <2> QED BY <2>1, <2>2, <1>world, GateGoto, GateEnd
  <1>RecordFailure. CASE RecordFailure(t)
    <2> DEFINE n == R(t).list.features[task[t].feature].attempts + 1
               blocked == n >= R(t).list.knobs.retries
               x == [state |-> IF blocked THEN "blocked" ELSE "coding", attempts |-> n]
               l == CASE task[t].op # "drive" -> "end"
                      [] task[t].op = "drive" /\ blocked -> "halt"
                      [] OTHER -> "retry"
    <2>1. task[t].pc # "none" /\ SetBacklog(t, WithFeature(R(t).list, task[t].feature, x), l)
      BY <1>RecordFailure DEF RecordFailure, Call, At
    <2>2. x.state \notin Settled /\ l \notin Earned
      BY DEF Settled, Earned
    <2> HIDE DEF x, l
    <2>3. GoodList(gates, WithFeature(R(t).list, task[t].feature, x))
      BY <2>1, <2>2, <1>run, GoodFeature
    <2> QED BY <2>1, <2>2, <2>3, <1>world, GateBacklog
  <1>Answer. CASE Answer(t)
    BY <1>Answer, <1>same, <1>world, GateEnd DEF Answer
  <1>Halt. CASE Halt(t)
    <2>1. task[t].pc # "none" /\ Leave(t, FALSE) /\ SetState(t, "blocked")
      BY <1>Halt DEF Halt, Call, At
    <2>2. SameLists
      BY <2>1, SetStateLists
    <2> QED BY <2>1, <2>2, <1>world, GateLeave
  <1>Retry. CASE Retry(t)
    <2>1. task[t].pc # "none" /\ Goto(t, "work") /\ SetState(t, "running")
      BY <1>Retry DEF Retry, Call, At
    <2>2. SameLists
      BY <2>1, SetStateLists
    <2> QED BY <2>1, <2>2, <1>world, <1>plain, GateGoto DEF Earned
  <1>Review. CASE Review(t)
    <2>1. task[t].pc # "none" /\ SetPhase(t, "review", "gate")
      BY <1>Review DEF Review, Call, At
    <2> QED BY <2>1, <1>world, <1>plain, GatePhase DEF Earned
  <1>FinishRun. CASE FinishRun(t)
    <2>1. task[t].pc # "none" /\ Leave(t, FALSE) /\ SetState(t, "done")
      BY <1>FinishRun DEF FinishRun, Call, At
    <2>2. SameLists
      BY <2>1, SetStateLists
    <2> QED BY <2>1, <2>2, <1>world, GateLeave
  <1>Release. CASE Release(t)
    <2> DEFINE y == [R(t) EXCEPT !.driving = FALSE]
    <2>1. /\ task[t].pc # "none" /\ (Goto(t, "failed") \/ End(t))
          /\ run' = run \/ run' = [run EXCEPT ![task[t].run] = y]
      BY <1>Release DEF Release, At
    <2>2. task[t].run \in Runs /\ R(t) \in RunRecords
      BY <2>1, <1>run
    <2>3. y.list = R(t).list
      BY <2>2 DEF RunRecords
    <2> HIDE DEF y
    <2>4. SameLists
      BY <2>1, <2>2, <2>3 DEF SameLists, R, TypeInv, TypeOK
    <2>5. "failed" \in PCs /\ "failed" \notin {"save", "note"} \cup Earned
      BY <1>plain DEF Earned
    <2> QED BY <2>1, <2>4, <2>5, <1>world, GateGoto, GateEnd
  <1>ReportFailed. CASE ReportFailed(t)
    <2>1. task[t].pc # "none" /\ End(t) /\ (SameLists \/ SetState(t, "failed"))
      BY <1>ReportFailed, <1>same DEF ReportFailed, At
    <2>2. SameLists
      BY <2>1, SetStateLists
    <2> QED BY <2>1, <2>2, <1>world, GateEnd
  <1>Confirm. CASE Confirm(t)
    <2>1. /\ task[t].pc # "none" /\ SameLists
          /\ \/ End(t)
             \/ /\ Goto(t, "confirmed")
                /\ R(t).list.features[task[t].feature].state = "awaitingConfirm"
      BY <1>Confirm, <1>same DEF Confirm, Call, At
    <2>2. CASE Goto(t, "confirmed")
               /\ R(t).list.features[task[t].feature].state = "awaitingConfirm"
      <3>1. PassedAll(gates, task[t].feature)
        BY <2>1, <2>2, <1>run DEF GoodList, Settled
      <3>2. "confirmed" \in PCs /\ "confirmed" \notin {"save", "note"}
        BY <1>plain
      <3> QED BY <2>1, <2>2, <3>1, <3>2, <1>world, GateGoto
    <2> QED BY <2>1, <2>2, <1>world, GateEnd
  <1>Confirmed. CASE Confirmed(t)
    <2>1. task[t].pc = "confirmed" /\ SetFeatureState(t, "done", "handoff")
      BY <1>Confirmed DEF Confirmed, Call, At
    <2>2. PassedAll(gates, task[t].feature)
      BY <2>1, <1>task DEF GoodTask, Place
    <2>3. GoodList(gates, WithState(R(t).list, task[t].feature, "done"))
      BY <2>1, <2>2, <1>run, GoodState
    <2> QED BY <2>1, <2>3, <1>world, GateBacklog DEF SetFeatureState, Earned
  <1>Resume. CASE Resume(t)
    <2>1. task[t].pc # "none" /\ (Drive(t, task[t].run) \/ (End(t) /\ SameLists))
      BY <1>Resume, <1>same DEF Resume, At
    <2>2. task[t].run \in Runs
      BY <2>1, <1>run
    <2> QED BY <2>1, <2>2, <1>world, GateDrive, GateEnd DEF world
  <1>Gone. CASE Gone(t)
    BY <1>Gone, <1>same, <1>world, GateLeave DEF Gone
  <1> QED BY <1>InitStart, <1>InitPasses, <1>InitFails, <1>Begin, <1>ResetBlocked, <1>Phases,
             <1>Authoring, <1>RoleGate, <1>GateAdvance, <1>GateBlock, <1>GateAwait, <1>Reload,
             <1>EnterExecuting, <1>Pick, <1>StartFeature, <1>Spawn, <1>Work, <1>VerifyFeature,
             <1>VerifyState, <1>GateRed, <1>QaStart, <1>Green, <1>Park, <1>Handoff,
             <1>RecordFailure, <1>Answer, <1>Halt, <1>Retry, <1>Review, <1>FinishRun,
             <1>Release, <1>ReportFailed, <1>Confirm, <1>Confirmed, <1>Resume, <1>Gone DEF QuietStep

LEMMA NextGates == ASSUME TypeInv, GateInv, [Next]_vars PROVE GateInv'
  <1>types. /\ task \in [Tasks -> TaskRecords] /\ run \in [Runs -> RunRecords] /\ disk \in Disks
            /\ gates \in [Features -> SUBSET {"unit", "qa", "manual", "spec"}]
    BY DEF TypeInv, TypeOK
  <1>task. ASSUME NEW t \in Tasks
           PROVE  /\ task[t] \in TaskRecords /\ task[t].feature \in Features
                  /\ GoodTask(gates, task[t]) /\ GoodList(gates, task[t].list)
    BY <1>types DEF GateInv, GoodTask, TaskRecords
  <1>step. ASSUME NEW t \in Tasks, NEW x, task' = [task EXCEPT ![t] = x], GoodTask(gates', x),
                  \A f \in Features : gates[f] \subseteq gates'[f],
                  GoodList(gates', disk'.list), UNCHANGED run
           PROVE  GateInv'
    <2>1. \A u \in Tasks : GoodTask(gates', task'[u])
      BY <1>step, <1>task, <1>types, GatesGrow
    <2>2. \A r \in Runs : GoodList(gates', run'[r].list)
      BY <1>step, GatesGrow DEF GateInv
    <2> QED BY <1>step, <2>1, <2>2 DEF GateInv
  <1>same. ASSUME UNCHANGED gates PROVE \A f \in Features : gates[f] \subseteq gates'[f]
    BY <1>same
  <1>Save. ASSUME NEW t \in Tasks, Save(t) PROVE GateInv'
    <2> DEFINE x == [task[t] EXCEPT !.pc = task[t].next, !.next = "none", !.list = NoTask.list]
    <2>1. task[t].pc = "save" /\ task' = [task EXCEPT ![t] = x] /\ UNCHANGED <<run, gates>>
      BY <1>Save DEF Save, At
    <2>2. /\ x.list = NoTask.list /\ x.feature = task[t].feature
          /\ x.pc = task[t].next /\ x.next = "none"
      BY <1>task DEF TaskRecords
    <2>3. GoodTask(gates', x)
      BY <2>1, <2>2, <1>task, GoodNothing DEF GoodTask, Place
    <2>4. disk'.list = task[t].list
      BY <1>Save, <1>types DEF Save, Disks
    <2> HIDE DEF x
    <2> QED BY <2>1, <2>3, <2>4, <1>task, <1>step, <1>same
  <1>Note. ASSUME NEW t \in Tasks, Note(t) \/ NoteFails(t) PROVE GateInv'
    <2> DEFINE x == [task[t] EXCEPT !.pc = task[t].next, !.next = "none", !.phase = NoTask.phase]
    <2>1. task[t].pc = "note" /\ task' = [task EXCEPT ![t] = x] /\ UNCHANGED <<run, gates>>
      BY <1>Note DEF Note, NoteFails, At
    <2>2. /\ x.list = task[t].list /\ x.feature = task[t].feature
          /\ x.pc = task[t].next /\ x.next = "none"
      BY <1>task DEF TaskRecords
    <2>3. GoodTask(gates', x)
      BY <2>1, <2>2, <1>task DEF GoodTask, Place
    <2>4. disk'.list = disk.list
      BY <1>Note, <1>types DEF Note, NoteFails, Disks
    <2> HIDE DEF x
    <2> QED BY <2>1, <2>3, <2>4, <1>step, <1>same DEF GateInv
  <1>Decompose. ASSUME NEW t \in Tasks, Decompose(t) PROVE GateInv'
    <2>1. PICK ticked \in SUBSET Features :
            /\ disk' = [disk EXCEPT !.list = [features |-> Derived(ticked), knobs |-> DefaultKnobs]]
            /\ gates' = [f \in Features |-> IF f \in ticked THEN gates[f] \cup {"spec"} ELSE gates[f]]
            /\ task' = [task EXCEPT ![t] = [task[t] EXCEPT !.pc = "save", !.next = "reload",
                          !.list = [features |-> Derived(ticked), knobs |-> disk.list.knobs]]]
      BY <1>Decompose DEF Decompose
    <2>2. \A k : GoodList(gates', [features |-> Derived(ticked), knobs |-> k])
      BY <2>1 DEF GoodList, Derived, NewFeature, Settled, PassedAll
    <2> DEFINE list == [features |-> Derived(ticked), knobs |-> disk.list.knobs]
               x == [task[t] EXCEPT !.pc = "save", !.next = "reload", !.list = list]
    <2>3. disk'.list = [features |-> Derived(ticked), knobs |-> DefaultKnobs]
      BY <2>1, <1>types DEF Disks
    <2>4. task' = [task EXCEPT ![t] = x] /\ UNCHANGED run
      BY <1>Decompose, <2>1 DEF Decompose
    <2>5. GoodList(gates', list)
      BY <2>2
    <2> HIDE DEF list
    <2>6. x.pc = "save" /\ x.next = "reload" /\ x.list = list
      BY <1>task DEF TaskRecords
    <2>7. GoodTask(gates', x)
      BY <2>5, <2>6 DEF GoodTask, Place
    <2>8. \A f \in Features : gates[f] \subseteq gates'[f]
      BY <2>1
    <2> HIDE DEF x
    <2> QED BY <2>2, <2>3, <2>4, <2>7, <2>8, <1>step
  <1>passed. ASSUME NEW t \in Tasks, NEW l, NEW g, Goto(t, l), Passed(t, g), l \notin {"save", "note"},
                    l = "green" => PassedAll(gates', task[t].feature),
                    l = "qa" => "unit" \in gates'[task[t].feature],
                    l \in {"qa", "green"}, UNCHANGED <<run, disk>>
             PROVE  GateInv'
    <2> DEFINE x == [task[t] EXCEPT !.pc = l]
    <2>1. \A f \in Features : gates[f] \subseteq gates'[f]
      BY <1>passed, <1>types DEF Passed
    <2>2. x.pc = l /\ x.list = task[t].list /\ x.feature = task[t].feature
      BY <1>task DEF TaskRecords
    <2>3. GoodList(gates', task[t].list) /\ GoodList(gates', disk'.list)
      BY <2>1, <1>passed, <1>task, GatesGrow DEF GateInv
    <2>4. GoodTask(gates', x)
      BY <2>2, <2>3, <1>passed DEF GoodTask, Place
    <2>5. task' = [task EXCEPT ![t] = x]
      BY <1>passed DEF Goto
    <2> HIDE DEF x
    <2> QED BY <2>1, <2>3, <2>4, <2>5, <1>step, <1>passed
  <1>VerifyGreen. ASSUME NEW t \in Tasks, VerifyGreen(t) PROVE GateInv'
    <2> DEFINE f == task[t].feature
    <2>1. f \in Features /\ UNCHANGED <<run, disk>>
      BY <1>VerifyGreen, <1>task DEF VerifyGreen
    <2>2. CASE task[t].op = "drive"
      <3>1. Passed(t, {"unit"}) /\ Goto(t, "qa")
        BY <2>2, <1>VerifyGreen DEF VerifyGreen
      <3>2. "unit" \in gates'[f]
        BY <3>1, <2>1, <1>types DEF Passed
      <3> QED BY <3>1, <3>2, <2>1, <1>passed
    <2>3. CASE task[t].op # "drive"
      <3>1. Passed(t, {"unit", "manual"}) /\ Goto(t, "green")
        BY <2>3, <1>VerifyGreen DEF VerifyGreen
      <3>2. PassedAll(gates', f)
        BY <3>1, <2>1, <1>types DEF Passed, PassedAll
      <3> QED BY <3>1, <3>2, <2>1, <1>passed
    <2> QED BY <2>2, <2>3
  <1>QaGreen. ASSUME NEW t \in Tasks, QaGreen(t) PROVE GateInv'
    <2> DEFINE f == task[t].feature
    <2>1. /\ f \in Features /\ UNCHANGED <<run, disk>> /\ Passed(t, {"qa"}) /\ Goto(t, "green")
          /\ task[t].pc = "qaRun"
      BY <1>QaGreen, <1>task DEF QaGreen, At
    <2>2. "unit" \in gates[f]
      BY <2>1, <1>task DEF GoodTask, Place
    <2>3. PassedAll(gates', f)
      BY <2>1, <2>2, <1>types DEF Passed, PassedAll
    <2> QED BY <2>1, <2>3, <1>passed
  <1>Fails. ASSUME NEW t \in Tasks, Fails(t) PROVE GateInv'
    <2> DEFINE y == [NoTask EXCEPT !.op = "drive", !.run = task[t].run,
                                   !.pc = "release", !.err = TRUE]
               x == IF task[t].op = "drive" THEN y ELSE NoTask
    <2>1. task' = [task EXCEPT ![t] = x] /\ UNCHANGED <<run, disk, gates>>
      BY <1>Fails DEF Fails, Leave, End
    <2>2. y.pc = "release" /\ y.list = NoTask.list
      BY DEF NoTask
    <2> HIDE DEF y
    <2>3. GoodTask(gates, x)
      BY <2>2, GoodNothing DEF GoodTask, Place
    <2> HIDE DEF x
    <2> QED BY <2>1, <2>3, <1>step, <1>same DEF GateInv
  <1>ClientGone. ASSUME NEW t \in Tasks, ClientGone(t) PROVE GateInv'
    <2>1. task' = [task EXCEPT ![t] = NoTask] /\ UNCHANGED <<run, gates>>
      BY <1>ClientGone DEF ClientGone, End
    <2>2. GoodList(gates, disk'.list)
      BY <1>ClientGone, <1>task, <1>types DEF ClientGone, GateInv, Disks
    <2> QED BY <2>1, <2>2, GoodNothing, <1>step, <1>same
  <1>RunRequest. ASSUME NEW t \in Tasks, NEW r \in Runs, RunRequest(t, r) PROVE GateInv'
    BY <1>RunRequest, GateDrive DEF RunRequest
  <1>ManualRequest. ASSUME NEW t \in Tasks, NEW r \in Runs, NEW op \in Ops, NEW f \in Features,
                           ManualRequest(t, r, op, f)
                    PROVE  GateInv'
    <2> DEFINE x == [NoTask EXCEPT !.op = op, !.pc = op, !.run = r,
                                   !.feature = IF op = "init" THEN 1 ELSE f]
    <2>1. op \in {"init", "verify", "confirm"}
      BY <1>ManualRequest, OpsAssumption DEF ManualRequest
    <2>2. x.pc = op /\ x.list = NoTask.list
      BY DEF NoTask
    <2>3. GoodTask(gates, x)
      BY <2>1, <2>2, GoodNothing DEF GoodTask, Place
    <2>4. task' = [task EXCEPT ![t] = x] /\ UNCHANGED <<run, disk, gates>>
      BY <1>ManualRequest DEF ManualRequest
    <2> HIDE DEF x
    <2> QED BY <2>3, <2>4, <1>step, <1>same DEF GateInv
  <1>replaced. ASSUME NEW r \in Runs, NEW y, run' = [run EXCEPT ![r] = y],
                      UNCHANGED <<disk, task, gates>>, GoodList(gates, y.list)
               PROVE  GateInv'
    <2>1. \A q \in Runs : GoodList(gates, run'[q].list)
      BY <1>replaced, <1>types DEF GateInv
    <2> QED BY <1>replaced, <2>1 DEF GateInv
  <1>Register. ASSUME NEW r \in Runs, Register(r) PROVE GateInv'
    <2> DEFINE y == [NotRegistered EXCEPT !.on = TRUE, !.fresh = FALSE,
                                          !.list = disk.list, !.phase = disk.phase]
    <2>1. run' = [run EXCEPT ![r] = y] /\ UNCHANGED <<disk, task, gates>>
      BY <1>Register DEF Register
    <2>2. y.list = disk.list
      BY DEF NotRegistered
    <2> HIDE DEF y
    <2> QED BY <2>1, <2>2, <1>replaced DEF GateInv
  <1>Stop. ASSUME NEW r \in Runs, Stop(r) PROVE GateInv'
    <2> DEFINE y == [NotRegistered EXCEPT !.fresh = FALSE]
    <2>1. run' = [run EXCEPT ![r] = y] /\ UNCHANGED <<disk, task, gates>>
      BY <1>Stop DEF Stop
    <2>2. y.list = NotRegistered.list
      BY DEF NotRegistered
    <2> HIDE DEF y
    <2> QED BY <2>1, <2>2, GoodNothing, <1>replaced
  <1>Crash. CASE Crash
    <2>1. \A r \in Runs : run'[r].list \in {run[r].list, NotRegistered.list}
      BY <1>Crash DEF Crash, NotRegistered
    <2>2. (\A t \in Tasks : task'[t] = NoTask) /\ UNCHANGED <<disk, gates>>
      BY <1>Crash DEF Crash
    <2> QED BY <2>1, <2>2, GoodNothing DEF GateInv
  <1>stutter. CASE UNCHANGED vars
    BY <1>stutter DEF vars, GateInv
  <1>quiet. ASSUME NEW t \in Tasks, QuietStep(t) PROVE GateInv'
    BY <1>quiet, QuietGates
  <1> QED BY <1>quiet, <1>Save, <1>Note, <1>Decompose, <1>VerifyGreen, <1>QaGreen, <1>Fails,
             <1>ClientGone, <1>RunRequest, <1>ManualRequest, <1>Register, <1>Stop, <1>Crash,
             <1>stutter DEF Next, Step, QuietStep

(* No interleaving of drives, manual verifies, confirms, stops, hang-ups,  *)
(* failed writes and crashes, over any number of runs and features, makes  *)
(* the engine or feature_list.json call a feature done that neither passed *)
(* verify.sh and QA nor was verified by hand nor was ticked in the spec.   *)
THEOREM DoneIsGated == Spec => []DoneWasGated
  <1>1. Init => GateInv
    <2> SUFFICES ASSUME Init PROVE GateInv
      OBVIOUS
    <2>1. /\ disk.list = NewBacklog(knobs) /\ \A t \in Tasks : task[t] = NoTask
          /\ \A r \in Runs : run[r] = NotRegistered
      BY DEF Init
    <2> QED BY <2>1, GoodNothing DEF GateInv
  <1>2. TypeInv /\ GateInv /\ [Next]_vars => GateInv'
    BY NextGates
  <1>3. GateInv => DoneWasGated
    BY DEF GateInv, GoodList, Settled, PassedAll, DoneWasGated, Gated
  <1> QED BY <1>1, <1>2, <1>3, AlwaysTyped, PTL DEF Spec

-------------------------------------------------------------------------------
(* A project at rest. *)
(* Where a task of each kind can be, with the write it owes behind it. *)
VerifyPCs == {"verify", "verifying", "verdict", "green", "red", "park", "handoff", "end"}

InPlace(x) ==
    /\ x.pc = "none" => x = NoTask
    /\ Place(x) \notin {"save", "note"} /\ (x.op # "none" => Place(x) # "none")
    /\ x.pc \in {"save", "note"} => x.next \notin {"release", "failed", "confirm"}
    /\ x.op = "none" => x.pc = "none"
    /\ x.op = "init" => Place(x) \in {"init", "initRun"}
    /\ x.op = "confirm" => Place(x) \in {"confirm", "confirmed", "handoff", "resume"}
    /\ x.op = "verify" => Place(x) \in VerifyPCs
    /\ x.op = "drive" => Place(x) \notin RequestPCs

(* feature_list.json, as d, is the backlog of the run y, or the task x     *)
(* owes it the write; between plan_from_spec and the reload it is newer.   *)
Synced(x, y, d) ==
    /\ x.pc = "save" /\ x.next # "reload" => x.list = y.list
    /\ x.pc \notin {"save", "reload"} => d = y.list

(* The configured knobs are on disk, or the task carries them there. *)
Knobbed(x, d) ==
    /\ x.pc = "save" => x.list.knobs = knobs
    /\ ~(x.pc = "save" /\ x.next = "reload") => d.knobs = knobs

(* What a run says when it rests, and what a task on its way to rest knows. *)
Has(y, st) == \E f \in Features : y.list.features[f].state = st
BlockedOn(y) == Has(y, "blocked") \/ y.phase = "blocked"
AwaitsOn(y) == Has(y, "awaitingConfirm") \/ y.phase = "awaitingConfirm"

Honest(y) ==
    /\ y.state \notin {"initVerifying", "running"}
    /\ y.state = "blocked" => BlockedOn(y)
    /\ y.state = "awaitingConfirmation" => AwaitsOn(y)

Honestly(x, y) ==
    /\ x.pc \in {"none", "release", "failed", "confirm"} => Honest(y)
    /\ Place(x) = "halt" => BlockedOn(y)
    /\ Place(x) = "park" => AwaitsOn(y)
    /\ x.op = "verify" /\ Place(x) \notin {"verify", "verifying"} => y.state = "verifying"

(* What is at work, as long as tasks and runs do not overlap. *)
AtWork(tasks) ==
    IF \E t \in Tasks : tasks[t].pc # "none"
    THEN tasks[CHOOSE t \in Tasks : tasks[t].pc # "none"] ELSE NoTask

Worker == AtWork(task)

Alone ==
    /\ \A t, u \in Tasks : Busy(t) /\ Busy(u) => t = u
    /\ \A r \in Runs : run[r].on =>
          /\ \A q \in Runs : run[q].on => q = r
          /\ \A t \in Tasks : Busy(t) => task[t].run = r

RestInv ==
    /\ \A t \in Tasks : InPlace(task[t])
    /\ \A r \in Runs : ~run[r].on => run[r].state = "idle"
    /\ ~shared =>
         /\ Alone
         /\ Mishaps = 0 => Knobbed(Worker, disk.list)
         /\ \A r \in Runs : run[r].on =>
               /\ used.faults + used.drops = 0 => Synced(Worker, run[r], disk.list)
               /\ Mishaps = 0 => run[r].list.knobs = knobs /\ Honestly(Worker, run[r])

(* What each kind of step does to its task and to its run. *)
OnlyTask(t) == \A u \in Tasks \ {t} : task'[u] = task[u]
SameTask(t) ==
    /\ task'[t].op = task[t].op /\ task'[t].run = task[t].run
    /\ task'[t].next = task[t].next /\ task'[t].list = task[t].list
SameRun(r) ==
    /\ run'[r].on = run[r].on /\ run'[r].list = run[r].list
    /\ run'[r].phase = run[r].phase /\ run'[r].state = run[r].state

OnlyRun(r) == \A q \in Runs \ {r} : run'[q] = run[q]

Went(t, l) == task'[t].pc = l /\ SameTask(t) /\ OnlyTask(t)
Ended(t) == task'[t] = NoTask /\ OnlyTask(t)
Left(t) ==
    /\ OnlyTask(t)
    /\ \/ task[t].op # "drive" /\ task'[t] = NoTask
       \/ /\ task[t].op = "drive" /\ task'[t].op = "drive"
          /\ task'[t].run = task[t].run /\ task'[t].pc = "release"
RunStays(r) == SameRun(r) /\ OnlyRun(r)
Says(r, st) ==
    /\ run'[r].state = st /\ run'[r].on = run[r].on /\ run'[r].list = run[r].list
    /\ run'[r].phase = run[r].phase /\ OnlyRun(r)
Owes(t, list, l) ==
    LET r == task[t].run IN
    /\ task'[t].op = task[t].op /\ task'[t].run = r /\ task'[t].pc = "save"
    /\ task'[t].next = l /\ task'[t].list = list /\ OnlyTask(t)
    /\ run'[r].list = list /\ run'[r].on = run[r].on
    /\ run'[r].phase = run[r].phase /\ run'[r].state = run[r].state /\ OnlyRun(r)
Enters(t, p, l) ==
    LET r == task[t].run IN
    /\ task'[t].op = task[t].op /\ task'[t].run = r /\ OnlyTask(t)
    /\ task'[t].pc = l \/ (task'[t].pc = "note" /\ task'[t].next = l)
    /\ run'[r].phase = p /\ run'[r].on = run[r].on
    /\ run'[r].list = run[r].list /\ run'[r].state = run[r].state /\ OnlyRun(r)
Driven(t, r) ==
    /\ task'[t].op = "drive" /\ task'[t].run = r /\ task'[t].pc = "init" /\ OnlyTask(t)
    /\ RunStays(r)

LEMMA TaskFields ==
    ASSUME TypeInv, NEW t \in Tasks, NEW x, task' = [task EXCEPT ![t] = x]
    PROVE  task'[t] = x /\ OnlyTask(t)
  BY DEF TypeInv, TypeOK, OnlyTask

LEMMA RunFields ==
    ASSUME TypeInv, NEW r \in Runs, NEW y, run' = [run EXCEPT ![r] = y]
    PROVE  run'[r] = y /\ OnlyRun(r)
  BY DEF TypeInv, TypeOK, OnlyRun

LEMMA StayFields ==
    ASSUME TypeInv, NEW r \in Runs, UNCHANGED run
    PROVE  RunStays(r)
  BY DEF RunStays, SameRun, OnlyRun

LEMMA GotoFields ==
    ASSUME TypeInv, NEW t \in Tasks, NEW l, Goto(t, l)
    PROVE  Went(t, l)
  <1> DEFINE x == [task[t] EXCEPT !.pc = l]
  <1>1. task[t] \in TaskRecords
    BY DEF TypeInv, TypeOK
  <1>2. /\ x.pc = l /\ x.op = task[t].op /\ x.run = task[t].run
        /\ x.next = task[t].next /\ x.list = task[t].list
    BY <1>1 DEF TaskRecords
  <1>3. task' = [task EXCEPT ![t] = x]
    BY DEF Goto
  <1> HIDE DEF x
  <1> QED BY <1>2, <1>3, TaskFields DEF Went, SameTask

LEMMA EndFields ==
    ASSUME TypeInv, NEW t \in Tasks, End(t)
    PROVE  Ended(t)
  BY TaskFields DEF End, Ended

LEMMA LeaveFields ==
    ASSUME TypeInv, NEW t \in Tasks, NEW e, Leave(t, e)
    PROVE  Left(t)
  <1> DEFINE x == [NoTask EXCEPT !.op = "drive", !.run = task[t].run,
                                 !.pc = "release", !.err = e]
  <1>1. x.op = "drive" /\ x.run = task[t].run /\ x.pc = "release"
    BY DEF NoTask
  <1>2. task[t].op = "drive" => task' = [task EXCEPT ![t] = x]
    BY DEF Leave
  <1> HIDE DEF x
  <1> QED BY <1>1, <1>2, TaskFields, EndFields DEF Leave, Left, Ended

LEMMA StateFields ==
    ASSUME TypeInv, NEW t \in Tasks, task[t].pc # "none", NEW st, SetState(t, st)
    PROVE  Says(task[t].run, st)
  <1> DEFINE y == [R(t) EXCEPT !.state = st]
  <1>1. task[t].run \in Runs /\ R(t) \in RunRecords
    BY Records
  <1>2. y.state = st /\ y.on = R(t).on /\ y.list = R(t).list /\ y.phase = R(t).phase
    BY <1>1 DEF RunRecords
  <1>3. run' = [run EXCEPT ![task[t].run] = y]
    BY DEF SetState
  <1> HIDE DEF y
  <1> QED BY <1>1, <1>2, <1>3, RunFields DEF R, Says

LEMMA BacklogFields ==
    ASSUME TypeInv, NEW t \in Tasks, task[t].pc # "none", NEW list, NEW l,
           SetBacklog(t, list, l)
    PROVE  Owes(t, list, l)
  <1> DEFINE x == [task[t] EXCEPT !.pc = "save", !.list = list, !.next = l]
             y == [R(t) EXCEPT !.list = list]
  <1>1. task[t] \in TaskRecords /\ task[t].run \in Runs /\ R(t) \in RunRecords
    BY Records
  <1>2. /\ x.op = task[t].op /\ x.run = task[t].run /\ x.pc = "save" /\ x.next = l
        /\ x.list = list
    BY <1>1 DEF TaskRecords
  <1>3. y.list = list /\ y.on = R(t).on /\ y.phase = R(t).phase /\ y.state = R(t).state
    BY <1>1 DEF RunRecords
  <1>4. task' = [task EXCEPT ![t] = x] /\ run' = [run EXCEPT ![task[t].run] = y]
    BY DEF SetBacklog
  <1> HIDE DEF x, y
  <1> QED BY <1>1, <1>2, <1>3, <1>4, TaskFields, RunFields DEF R, Owes

LEMMA PhaseFields ==
    ASSUME TypeInv, NEW t \in Tasks, task[t].pc # "none", NEW p, NEW l, SetPhase(t, p, l)
    PROVE  Enters(t, p, l)
  <1> DEFINE v == [task[t] EXCEPT !.pc = l]
             w == [task[t] EXCEPT !.pc = "note", !.phase = p, !.next = l]
             y == [R(t) EXCEPT !.phase = p, !.phaseAttempts = 0]
  <1>1. task[t] \in TaskRecords /\ task[t].run \in Runs /\ R(t) \in RunRecords
    BY Records
  <1>2. /\ v.op = task[t].op /\ v.run = task[t].run /\ v.pc = l
        /\ w.op = task[t].op /\ w.run = task[t].run /\ w.pc = "note" /\ w.next = l
    BY <1>1 DEF TaskRecords
  <1>3. y.phase = p /\ y.on = R(t).on /\ y.list = R(t).list /\ y.state = R(t).state
    BY <1>1 DEF RunRecords
  <1>4. /\ task' = [task EXCEPT ![t] = v] \/ task' = [task EXCEPT ![t] = w]
        /\ run' = [run EXCEPT ![task[t].run] = y]
    BY DEF SetPhase
  <1> HIDE DEF v, w, y
  <1> QED BY <1>1, <1>2, <1>3, <1>4, TaskFields, RunFields DEF R, Enters

LEMMA DriveFields ==
    ASSUME TypeInv, NEW t \in Tasks, NEW r \in Runs, Drive(t, r)
    PROVE  Driven(t, r)
  <1> DEFINE x == [NoTask EXCEPT !.op = "drive", !.pc = "init", !.run = r]
             y == [run[r] EXCEPT !.driving = TRUE]
  <1>1. x.op = "drive" /\ x.pc = "init" /\ x.run = r
    BY DEF NoTask
  <1>2. y.on = run[r].on /\ y.list = run[r].list /\ y.phase = run[r].phase /\ y.state = run[r].state
    BY DEF TypeInv, TypeOK, RunRecords
  <1>3. task' = [task EXCEPT ![t] = x] /\ run' = [run EXCEPT ![r] = y]
    BY DEF Drive
  <1> HIDE DEF x, y
  <1> QED BY <1>1, <1>2, <1>3, TaskFields, RunFields DEF Driven, RunStays, SameRun

(* A step of a task moves that task and its run, and keeps what a lone     *)
(* task knows of its run and of the disk.                                  *)
Frame(t) ==
    LET r == task[t].run IN
    /\ OnlyTask(t) /\ OnlyRun(r) /\ run'[r].on = run[r].on
    /\ run'[r].on \/ run'[r].state = run[r].state
    /\ task'[t].pc # "none" => task'[t].run = r

Keeping(t) ==
    LET r == task[t].run IN
    /\ Synced(task[t], run[r], disk.list) => Synced(task'[t], run'[r], disk'.list)
    /\ run[r].list.knobs = knobs /\ Knobbed(task[t], disk.list) => run'[r].list.knobs = knobs
    /\ (~run[r].driving \/ task[t].op = "drive") /\ Honestly(task[t], run[r])
          => Honestly(task'[t], run'[r])

KnobsKept(t) ==
    LET r == task[t].run IN
    Knobbed(task[t], disk.list) /\ (run[r].on => run[r].list.knobs = knobs)
       => Knobbed(task'[t], disk'.list)

LEMMA StepKeeps ==
    ASSUME TypeInv, NEW t \in Tasks, task[t].pc # "none", InPlace(task[t]), Step(t)
    PROVE  /\ Frame(t) /\ InPlace(task'[t]) /\ UNCHANGED <<knobs, shared, used>>
           /\ run[task[t].run].on => Keeping(t)
           /\ KnobsKept(t)
  <1> DEFINE r == task[t].run
  <1> USE DEF Frame, KnobsKept, Keeping, InPlace, Place, VerifyPCs, RequestPCs, Synced, Knobbed,
              Honestly, Honest, BlockedOn, AwaitsOn, SameTask, SameRun, Went, Ended, Left,
              RunStays, Says, Owes, Enters, Driven, Ops
  <1>0. /\ r \in Runs /\ R(t) = run[r] /\ task[t].op \in Ops
        /\ NoTask.pc = "none" /\ NoTask.op = "none" /\ NoTask.next = "none"
    BY Records DEF R, NoTask, TaskRecords
  <1>knobs. ASSUME NEW st
            PROVE  WithState(run[r].list, task[t].feature, st).knobs = run[r].list.knobs
    BY <1>0, Records DEF WithState, WithFeature, Backlogs
  <1>await. /\ task[t].feature \in Features
            /\ LET list == WithState(run[r].list, task[t].feature, "awaitingConfirm") IN
               \A y : y.list = list => Has(y, "awaitingConfirm")
    <2>1. /\ task[t].feature \in Features
          /\ WithState(run[r].list, task[t].feature, "awaitingConfirm").features[task[t].feature].state
               = "awaitingConfirm"
      BY <1>0, Records DEF WithState, WithFeature, Backlogs
    <2> QED BY <2>1 DEF Has
  <1>has. ASSUME run'[r].list = run[r].list PROVE \A st : Has(run'[r], st) <=> Has(run[r], st)
    BY <1>has DEF Has
  <1>InitStart. CASE InitStart(t)
    <2>1. /\ UNCHANGED <<knobs, shared, used>>
          /\ task[t].pc = "init" /\ run[r].on /\ UNCHANGED disk
          /\ Says(r, "initVerifying") /\ Went(t, "initRun")
      BY <1>InitStart, <1>0, StateFields, GotoFields DEF InitStart, Call, At, world
    <2> QED BY <1>0, <2>1
  <1>InitPasses. CASE InitPasses(t)
    <2>1. /\ UNCHANGED <<knobs, shared, used>>
          /\ task[t].pc = "initRun" /\ run[r].on /\ UNCHANGED disk
          /\ Says(r, "idle")
          /\ \/ task[t].op = "drive" /\ Went(t, "begin")
             \/ task[t].op # "drive" /\ Ended(t)
      BY <1>InitPasses, <1>0, StateFields, GotoFields, EndFields DEF InitPasses, Call, At, world
    <2> QED BY <1>0, <2>1
  <1>InitFails. CASE InitFails(t)
    <2>1. /\ UNCHANGED <<knobs, shared, used>>
          /\ task[t].pc = "initRun" /\ run[r].on /\ UNCHANGED disk
          /\ Says(r, "failed") /\ Left(t)
      BY <1>InitFails, <1>0, StateFields, LeaveFields DEF InitFails, Call, At, world
    <2> QED BY <1>0, <2>1, <1>has
  <1>Begin. CASE Begin(t)
    <2>1. /\ UNCHANGED <<knobs, shared, used>>
          /\ task[t].pc = "begin" /\ run[r].on /\ UNCHANGED disk
          /\ Says(r, "running") /\ Went(t, "reset")
      BY <1>Begin, <1>0, StateFields, GotoFields DEF Begin, Call, At, world
    <2> QED BY <1>0, <2>1
  <1>ResetBlocked. CASE ResetBlocked(t)
    <2>1. /\ UNCHANGED <<knobs, shared, used>>
          /\ task[t].pc = "reset" /\ run[r].on /\ UNCHANGED disk
          /\ \/ Went(t, "phases") /\ RunStays(r)
             \/ Owes(t, Unblocked(run[r].list), "phases")
      BY <1>ResetBlocked, <1>0, GotoFields, StayFields, BacklogFields DEF ResetBlocked, Call, At, world
    <2>2. Unblocked(run[r].list).knobs = run[r].list.knobs
      BY <1>0, Records DEF Unblocked, Backlogs
    <2> QED BY <1>0, <2>1, <2>2
  <1>Phases. CASE Phases(t)
    <2> DEFINE x == IF disk.list.knobs.roles THEN [task[t] EXCEPT !.pc = "authoring", !.phases = TRUE]
                                             ELSE [task[t] EXCEPT !.pc = "pick"]
    <2>1. /\ UNCHANGED <<knobs, shared, used, run>> /\ task' = [task EXCEPT ![t] = x]
          /\ task[t].pc = "phases" /\ run[r].on /\ UNCHANGED disk
      BY <1>Phases, <1>0 DEF Phases, Call, At, world
    <2>2. x.pc \in {"authoring", "pick"} /\ x.op = task[t].op /\ x.run = r
      BY <1>0, Records DEF TaskRecords
    <2> HIDE DEF x
    <2>3. task'[t] = x /\ OnlyTask(t) /\ RunStays(r)
      BY <1>0, <2>1, TaskFields, StayFields
    <2> QED BY <1>0, <2>1, <2>2, <2>3, <1>has
  <1>Authoring. CASE Authoring(t)
    <2>1. /\ UNCHANGED <<knobs, shared, used>>
          /\ task[t].pc = "authoring" /\ run[r].on /\ UNCHANGED disk
          /\ Enters(t, "authoring", "gate")
      BY <1>Authoring, <1>0, PhaseFields DEF Authoring, Call, At, world
    <2> QED BY <1>0, <2>1, <1>has
  <1>RoleGate. CASE RoleGate(t)
    <2> DEFINE y == [R(t) EXCEPT !.phaseAttempts = R(t).phaseAttempts + 1]
    <2>1. /\ UNCHANGED <<knobs, shared, used>> /\ run' = [run EXCEPT ![r] = y]
          /\ task[t].pc = "gate" /\ run[r].on /\ UNCHANGED disk
      BY <1>RoleGate, <1>0 DEF RoleGate, Call, At, world
    <2>3. PICK b \in BOOLEAN : Goto(t, GateDecision(b, R(t).phaseAttempts + 1, disk.list.knobs))
      BY <1>RoleGate DEF RoleGate
    <2>4. R(t).phaseAttempts + 1 \in Nat /\ disk.list.knobs \in KnobRecords
      BY <1>0, Records DEF TypeInv, TypeOK, Disks, Backlogs, RunRecords
    <2>5. \E l \in {"advance", "gate", "await", "block"} : Went(t, l)
      BY <2>3, <2>4, GateDecisionTypes, GotoFields
    <2>6. y.on = run[r].on /\ y.list = run[r].list /\ y.phase = run[r].phase /\ y.state = run[r].state
      BY <1>0, Records DEF RunRecords
    <2>2. RunStays(r)
      <3> HIDE DEF y
      <3> QED BY <1>0, <2>1, <2>6, RunFields
    <2> HIDE DEF y
    <2> QED BY <1>0, <2>1, <2>2, <2>5, <1>has
  <1>GateAdvance. CASE GateAdvance(t)
    <2>1. /\ UNCHANGED <<knobs, shared, used>>
          /\ task[t].pc = "advance" /\ run[r].on /\ UNCHANGED disk
          /\ \/ Enters(t, "architecture", "gate")
             \/ Enters(t, "decompose", "decompose")
             \/ Enters(t, "done", "finish")
      BY <1>GateAdvance, <1>0, PhaseFields DEF GateAdvance, Call, At, world
    <2> QED BY <1>0, <2>1, <1>has
  <1>GateBlock. CASE GateBlock(t)
    <2>1. /\ UNCHANGED <<knobs, shared, used>>
          /\ task[t].pc = "block" /\ run[r].on /\ UNCHANGED disk
          /\ Enters(t, "blocked", "halt")
      BY <1>GateBlock, <1>0, PhaseFields DEF GateBlock, Call, At, world
    <2> QED BY <1>0, <2>1, <1>has
  <1>GateAwait. CASE GateAwait(t)
    <2>1. /\ UNCHANGED <<knobs, shared, used>>
          /\ task[t].pc = "await" /\ run[r].on /\ UNCHANGED disk
          /\ Enters(t, "awaitingConfirm", "park")
      BY <1>GateAwait, <1>0, PhaseFields DEF GateAwait, Call, At, world
    <2> QED BY <1>0, <2>1, <1>has
  <1>Reload. CASE Reload(t)
    <2> DEFINE y == [R(t) EXCEPT !.list = disk.list]
    <2>1. /\ UNCHANGED <<knobs, shared, used>> /\ run' = [run EXCEPT ![r] = y]
          /\ task[t].pc = "reload" /\ run[r].on /\ UNCHANGED disk /\ Went(t, "enter")
      BY <1>Reload, <1>0, GotoFields DEF Reload, Call, At, world
    <2>2. /\ y.on = run[r].on /\ y.list = disk.list /\ y.phase = run[r].phase
          /\ y.state = run[r].state
      BY <1>0, Records DEF RunRecords
    <2> HIDE DEF y
    <2>3. run'[r] = y /\ OnlyRun(r)
      BY <1>0, <2>1, RunFields
    <2> QED BY <1>0, <2>1, <2>2, <2>3
  <1>EnterExecuting. CASE EnterExecuting(t)
    <2>1. /\ UNCHANGED <<knobs, shared, used>>
          /\ task[t].pc = "enter" /\ run[r].on /\ UNCHANGED disk
          /\ Enters(t, "executing", "pick")
      BY <1>EnterExecuting, <1>0, PhaseFields DEF EnterExecuting, Call, At, world
    <2> QED BY <1>0, <2>1, <1>has
  <1>Pick. CASE Pick(t)
    <2> DEFINE x(f) == [task[t] EXCEPT !.pc = "start", !.feature = f]
    <2>1. /\ UNCHANGED <<knobs, shared, used, run>>
          /\ task[t].pc = "pick" /\ run[r].on /\ UNCHANGED disk
          /\ \/ \E l \in {"review", "finish"} : Went(t, l)
             \/ \E f : task' = [task EXCEPT ![t] = x(f)]
      BY <1>Pick, <1>0, GotoFields DEF Pick, Call, At, world
    <2>2. \A f : x(f).pc = "start" /\ x(f).op = task[t].op /\ x(f).run = r
      BY <1>0, Records DEF TaskRecords
    <2> HIDE DEF x
    <2>3. RunStays(r)
      BY <1>0, <2>1, StayFields
    <2>4. CASE \E l \in {"review", "finish"} : Went(t, l)
      BY <1>0, <2>1, <2>3, <2>4, <1>has
    <2>5. ASSUME NEW f, task' = [task EXCEPT ![t] = x(f)]
          PROVE  task'[t].pc = "start" /\ task'[t].op = task[t].op /\ task'[t].run = r /\ OnlyTask(t)
      <3>1. task'[t] = x(f) /\ OnlyTask(t)
        BY <2>5, TaskFields
      <3> QED BY <2>2, <3>1
    <2>6. CASE \E f : task' = [task EXCEPT ![t] = x(f)]
      BY <1>0, <2>1, <2>3, <2>5, <2>6, <1>has
    <2> QED BY <2>1, <2>4, <2>6
  <1>StartFeature. CASE StartFeature(t)
    <2>1. /\ UNCHANGED <<knobs, shared, used>>
          /\ task[t].pc = "start" /\ run[r].on /\ UNCHANGED disk
          /\ Says(r, "running") /\ Went(t, "spawn")
      BY <1>StartFeature, <1>0, StateFields, GotoFields DEF StartFeature, Call, At, world
    <2> QED BY <1>0, <2>1
  <1>Spawn. CASE Spawn(t)
    <2>1. /\ UNCHANGED <<knobs, shared, used>>
          /\ task[t].pc = "spawn" /\ run[r].on /\ UNCHANGED disk
          /\ Owes(t, WithState(run[r].list, task[t].feature, "coding"), "work")
      BY <1>Spawn, <1>0, BacklogFields DEF Spawn, Call, At, world, SetFeatureState
    <2> QED BY <1>0, <2>1, <1>knobs
  <1>Work. CASE Work(t)
    <2>1. /\ UNCHANGED <<knobs, shared, used>>
          /\ task[t].pc = "work" /\ UNCHANGED disk
          /\ RunStays(r) /\ Went(t, "verify")
      BY <1>Work, <1>0, GotoFields, StayFields DEF Work, At, world
    <2> QED BY <1>0, <2>1, <1>has
  <1>VerifyFeature. CASE VerifyFeature(t)
    <2>1. /\ UNCHANGED <<knobs, shared, used>>
          /\ task[t].pc = "verify" /\ run[r].on /\ UNCHANGED disk
          /\ Owes(t, WithState(run[r].list, task[t].feature, "verifying"), "verifying")
      BY <1>VerifyFeature, <1>0, BacklogFields DEF VerifyFeature, Call, At, world, SetFeatureState
    <2> QED BY <1>0, <2>1, <1>knobs
  <1>VerifyState. CASE VerifyState(t)
    <2>1. /\ UNCHANGED <<knobs, shared, used>>
          /\ task[t].pc = "verifying" /\ run[r].on /\ UNCHANGED disk
          /\ Says(r, "verifying") /\ Went(t, "verdict")
      BY <1>VerifyState, <1>0, StateFields, GotoFields DEF VerifyState, Call, At, world
    <2> QED BY <1>0, <2>1
  <1>VerifyGreen. CASE VerifyGreen(t)
    <2>1. /\ UNCHANGED <<knobs, shared, used>>
          /\ task[t].pc = "verdict" /\ UNCHANGED disk
          /\ RunStays(r) /\ Went(t, IF task[t].op = "drive" THEN "qa" ELSE "green")
      BY <1>VerifyGreen, <1>0, GotoFields, StayFields DEF VerifyGreen, At
    <2> QED BY <1>0, <2>1, <1>has
  <1>GateRed. CASE GateRed(t)
    <2>1. /\ UNCHANGED <<knobs, shared, used>>
          /\ task[t].pc \in {"verdict", "qaRun"} /\ UNCHANGED disk
          /\ RunStays(r) /\ Went(t, "red")
      BY <1>GateRed, <1>0, GotoFields, StayFields DEF GateRed, At, world
    <2> QED BY <1>0, <2>1, <1>has
  <1>QaStart. CASE QaStart(t)
    <2>1. /\ UNCHANGED <<knobs, shared, used>>
          /\ task[t].pc = "qa" /\ run[r].on /\ UNCHANGED disk
          /\ Owes(t, WithState(run[r].list, task[t].feature, "readyToTest"), "qaRun")
      BY <1>QaStart, <1>0, BacklogFields DEF QaStart, Call, At, world, SetFeatureState
    <2> QED BY <1>0, <2>1, <1>knobs
  <1>QaGreen. CASE QaGreen(t)
    <2>1. /\ UNCHANGED <<knobs, shared, used>>
          /\ task[t].pc = "qaRun" /\ UNCHANGED disk
          /\ RunStays(r) /\ Went(t, "green")
      BY <1>QaGreen, <1>0, GotoFields, StayFields DEF QaGreen, At
    <2> QED BY <1>0, <2>1, <1>has
  <1>Green. CASE Green(t)
    <2>1. UNCHANGED <<knobs, shared, used>> /\ task[t].pc = "green" /\ run[r].on /\ UNCHANGED disk
      BY <1>Green, <1>0 DEF Green, Call, At, world
    <2>2. CASE Owes(t, WithState(run[r].list, task[t].feature, "awaitingConfirm"), "park")
      <3>1. AwaitsOn(run'[r])
        BY <2>2, <1>await
      <3> QED BY <1>0, <2>1, <2>2, <3>1, <1>knobs
    <2>3. CASE Owes(t, WithState(run[r].list, task[t].feature, "done"), "handoff")
      BY <1>0, <2>1, <2>3, <1>knobs
    <2> QED BY <1>Green, <1>0, <2>2, <2>3, BacklogFields DEF Green, SetFeatureState, Call, At
  <1>Park. CASE Park(t)
    <2>1. /\ UNCHANGED <<knobs, shared, used>>
          /\ task[t].pc = "park" /\ run[r].on /\ UNCHANGED disk
          /\ Says(r, "awaitingConfirmation") /\ Left(t)
      BY <1>Park, <1>0, StateFields, LeaveFields DEF Park, Call, At, world
    <2> QED BY <1>0, <2>1, <1>has
  <1>Handoff. CASE Handoff(t)
    <2>1. /\ UNCHANGED <<knobs, shared, used>>
          /\ task[t].pc = "handoff" /\ run[r].on /\ UNCHANGED disk
          /\ RunStays(r)
          /\ \/ task[t].op = "drive" /\ Went(t, "pick")
             \/ task[t].op = "confirm" /\ Went(t, "resume")
             \/ task[t].op \notin {"drive", "confirm"} /\ Ended(t)
      BY <1>Handoff, <1>0, GotoFields, EndFields, StayFields DEF Handoff, Call, At, world
    <2> QED BY <1>0, <2>1, <1>has
  <1>RecordFailure. CASE RecordFailure(t)
    <2> DEFINE n == R(t).list.features[task[t].feature].attempts + 1
               blocked == n >= R(t).list.knobs.retries
               x == [state |-> IF blocked THEN "blocked" ELSE "coding", attempts |-> n]
               l == CASE task[t].op # "drive" -> "end"
                      [] task[t].op = "drive" /\ blocked -> "halt"
                      [] OTHER -> "retry"
               list == WithFeature(R(t).list, task[t].feature, x)
    <2>1. /\ task[t].pc = "red" /\ run[r].on /\ UNCHANGED <<disk, knobs, shared, used>>
          /\ SetBacklog(t, list, l)
      BY <1>RecordFailure, <1>0 DEF RecordFailure, Call, At, world
    <2>2. list.knobs = run[r].list.knobs /\ list.features[task[t].feature] = x /\ task[t].feature \in Features
      BY <1>0, Records DEF WithFeature, Backlogs
    <2>3. \/ task[t].op # "drive" /\ l = "end"
          \/ task[t].op = "drive" /\ l = "halt" /\ x.state = "blocked"
          \/ task[t].op = "drive" /\ l = "retry"
      OBVIOUS
    <2> HIDE DEF x, l, list
    <2>4. Owes(t, list, l)
      BY <2>1, BacklogFields
    <2>5. x.state = "blocked" => Has(run'[r], "blocked")
      BY <2>2, <2>4 DEF Has
    <2> QED BY <1>0, <2>1, <2>2, <2>3, <2>4, <2>5
  <1>Answer. CASE Answer(t)
    <2>1. /\ UNCHANGED <<knobs, shared, used>>
          /\ task[t].pc = "end" /\ UNCHANGED disk
          /\ RunStays(r) /\ Ended(t)
      BY <1>Answer, <1>0, EndFields, StayFields DEF Answer, At, world
    <2> QED BY <1>0, <2>1, <1>has
  <1>Halt. CASE Halt(t)
    <2>1. /\ UNCHANGED <<knobs, shared, used>>
          /\ task[t].pc = "halt" /\ run[r].on /\ UNCHANGED disk
          /\ Says(r, "blocked") /\ Left(t)
      BY <1>Halt, <1>0, StateFields, LeaveFields DEF Halt, Call, At, world
    <2> QED BY <1>0, <2>1, <1>has
  <1>Retry. CASE Retry(t)
    <2>1. /\ UNCHANGED <<knobs, shared, used>>
          /\ task[t].pc = "retry" /\ run[r].on /\ UNCHANGED disk
          /\ Says(r, "running") /\ Went(t, "work")
      BY <1>Retry, <1>0, StateFields, GotoFields DEF Retry, Call, At, world
    <2> QED BY <1>0, <2>1
  <1>Review. CASE Review(t)
    <2>1. /\ UNCHANGED <<knobs, shared, used>>
          /\ task[t].pc = "review" /\ run[r].on /\ UNCHANGED disk
          /\ Enters(t, "review", "gate")
      BY <1>Review, <1>0, PhaseFields DEF Review, Call, At, world
    <2> QED BY <1>0, <2>1, <1>has
  <1>FinishRun. CASE FinishRun(t)
    <2>1. /\ UNCHANGED <<knobs, shared, used>>
          /\ task[t].pc = "finish" /\ run[r].on /\ UNCHANGED disk
          /\ Says(r, "done") /\ Left(t)
      BY <1>FinishRun, <1>0, StateFields, LeaveFields DEF FinishRun, Call, At, world
    <2> QED BY <1>0, <2>1, <1>has
  <1>Release. CASE Release(t)
    <2> DEFINE y == [R(t) EXCEPT !.driving = FALSE]
    <2>1. /\ UNCHANGED <<knobs, shared, used>> /\ task[t].pc = "release" /\ UNCHANGED disk
          /\ UNCHANGED run \/ run' = [run EXCEPT ![r] = y]
          /\ Went(t, "failed") \/ Ended(t)
      BY <1>Release, <1>0, GotoFields, EndFields DEF Release, At, world
    <2>6. y.on = run[r].on /\ y.list = run[r].list /\ y.phase = run[r].phase /\ y.state = run[r].state
      BY <1>0, Records DEF RunRecords
    <2>2. RunStays(r)
      <3> HIDE DEF y
      <3> QED BY <1>0, <2>1, <2>6, RunFields, StayFields
    <2>3. task[t].op = "drive"
      BY <1>0, <2>1
    <2> QED BY <1>0, <2>1, <2>2, <2>3, <1>has
  <1>ReportFailed. CASE ReportFailed(t)
    <2>1. /\ UNCHANGED <<knobs, shared, used>>
          /\ task[t].pc = "failed" /\ UNCHANGED disk /\ Ended(t)
          /\ \/ run[r].on /\ Says(r, "failed")
             \/ ~run[r].on /\ RunStays(r)
      BY <1>ReportFailed, <1>0, EndFields, StayFields, StateFields DEF ReportFailed, At, world
    <2> QED BY <1>0, <2>1
  <1>Confirm. CASE Confirm(t)
    <2>1. /\ UNCHANGED <<knobs, shared, used>>
          /\ task[t].pc = "confirm" /\ run[r].on /\ UNCHANGED disk
          /\ RunStays(r) /\ (Went(t, "confirmed") \/ Ended(t))
      BY <1>Confirm, <1>0, GotoFields, EndFields, StayFields DEF Confirm, Call, At, world
    <2> QED BY <1>0, <2>1, <1>has
  <1>Confirmed. CASE Confirmed(t)
    <2>1. /\ UNCHANGED <<knobs, shared, used>>
          /\ task[t].pc = "confirmed" /\ run[r].on /\ UNCHANGED disk
          /\ Owes(t, WithState(run[r].list, task[t].feature, "done"), "handoff")
      BY <1>Confirmed, <1>0, BacklogFields DEF Confirmed, Call, At, world, SetFeatureState
    <2> QED BY <1>0, <2>1, <1>knobs
  <1>Resume. CASE Resume(t)
    <2>1. /\ UNCHANGED <<knobs, shared, used>>
          /\ task[t].pc = "resume" /\ UNCHANGED disk
          /\ \/ Driven(t, r)
             \/ (~run[r].on \/ run[r].driving) /\ Ended(t) /\ RunStays(r)
      BY <1>Resume, <1>0, DriveFields, EndFields, StayFields DEF Resume, At, world, Claimable
    <2> QED BY <1>0, <2>1
  <1>Gone. CASE Gone(t)
    <2>1. /\ UNCHANGED <<knobs, shared, used>>
          /\ task[t].pc \notin Elsewhere /\ ~run[r].on /\ UNCHANGED disk
          /\ RunStays(r) /\ Left(t)
      BY <1>Gone, <1>0, LeaveFields, StayFields DEF Gone, world
    <2> QED BY <1>0, <2>1 DEF Elsewhere
  <1>Save. CASE Save(t)
    <2> DEFINE x == [task[t] EXCEPT !.pc = task[t].next, !.next = "none", !.list = NoTask.list]
    <2>1. /\ task[t].pc = "save" /\ UNCHANGED <<run, knobs, shared, used>>
          /\ task' = [task EXCEPT ![t] = x] /\ disk' = [disk EXCEPT !.list = task[t].list]
      BY <1>Save DEF Save, At
    <2>2. x.op = task[t].op /\ x.run = r /\ x.pc = task[t].next
      BY Records DEF TaskRecords
    <2>3. disk'.list = task[t].list
      BY <2>1 DEF TypeInv, TypeOK, Disks
    <2> HIDE DEF x
    <2>4. task'[t] = x /\ OnlyTask(t) /\ RunStays(r)
      BY <1>0, <2>1, TaskFields, StayFields
    <2> QED BY <1>0, <2>1, <2>2, <2>3, <2>4, <1>has
  <1>Note. CASE Note(t)
    <2> DEFINE x == [task[t] EXCEPT !.pc = task[t].next, !.next = "none", !.phase = NoTask.phase]
    <2>1. /\ task[t].pc = "note" /\ UNCHANGED <<run, knobs, shared, used>>
          /\ disk'.list = disk.list /\ task' = [task EXCEPT ![t] = x]
      BY <1>Note DEF Note, At, TypeInv, TypeOK, Disks
    <2>2. x.op = task[t].op /\ x.run = r /\ x.pc = task[t].next
      BY Records DEF TaskRecords
    <2> HIDE DEF x
    <2>4. task'[t] = x /\ OnlyTask(t) /\ RunStays(r)
      BY <1>0, <2>1, TaskFields, StayFields
    <2> QED BY <1>0, <2>1, <2>2, <2>4, <1>has
  <1>Decompose. CASE Decompose(t)
    <2>1. PICK fs : /\ disk' = [disk EXCEPT !.list = [features |-> fs, knobs |-> DefaultKnobs]]
                    /\ task' = [task EXCEPT ![t] = [task[t] EXCEPT !.pc = "save", !.next = "reload",
                                   !.list = [features |-> fs, knobs |-> disk.list.knobs]]]
      BY <1>Decompose DEF Decompose
    <2> DEFINE x == [task[t] EXCEPT !.pc = "save", !.next = "reload",
                                    !.list = [features |-> fs, knobs |-> disk.list.knobs]]
    <2>2. /\ x.op = task[t].op /\ x.run = r /\ x.pc = "save" /\ x.next = "reload"
          /\ x.list.knobs = disk.list.knobs /\ task' = [task EXCEPT ![t] = x]
      BY <2>1, Records DEF TaskRecords
    <2>3. task[t].pc = "decompose" /\ UNCHANGED <<run, knobs, shared, used>>
      BY <1>Decompose DEF Decompose, At
    <2> HIDE DEF x
    <2>4. task'[t] = x /\ OnlyTask(t) /\ RunStays(r)
      BY <1>0, <2>2, <2>3, TaskFields, StayFields
    <2> QED BY <1>0, <2>2, <2>3, <2>4
  <1> QED BY <1>InitStart, <1>InitPasses, <1>InitFails, <1>Begin, <1>ResetBlocked, <1>Phases, <1>Authoring,
             <1>RoleGate, <1>GateAdvance, <1>GateBlock, <1>GateAwait, <1>Reload, <1>EnterExecuting, <1>Pick,
             <1>StartFeature, <1>Spawn, <1>Work, <1>VerifyFeature, <1>VerifyState, <1>VerifyGreen, <1>GateRed,
             <1>QaStart, <1>QaGreen, <1>Green, <1>Park, <1>Handoff, <1>RecordFailure, <1>Answer,
             <1>Halt, <1>Retry, <1>Review, <1>FinishRun, <1>Release, <1>ReportFailed, <1>Confirm,
             <1>Confirmed, <1>Resume, <1>Gone, <1>Save, <1>Note, <1>Decompose
          DEF Step


LEMMA OneAtWork ==
    ASSUME NEW tasks, NEW t \in Tasks, \A u \in Tasks \ {t} : tasks[u].pc = "none",
           tasks[t].pc = "none" => tasks[t] = NoTask
    PROVE  AtWork(tasks) = tasks[t]
  <1>1. CASE tasks[t].pc # "none"
    <2>1. (CHOOSE u \in Tasks : tasks[u].pc # "none") = t
      BY <1>1
    <2> QED BY <1>1, <2>1 DEF AtWork
  <1>2. CASE tasks[t].pc = "none"
    BY <1>2 DEF AtWork
  <1> QED BY <1>1, <1>2

LEMMA NoneAtWork ==
    ASSUME NEW tasks, \A t \in Tasks : tasks[t].pc = "none"
    PROVE  AtWork(tasks) = NoTask
  BY DEF AtWork

(* A lone task steps. *)
LEMMA LoneStep ==
    ASSUME TypeInv, DriverInv, RestInv, NEW t \in Tasks, Step(t)
    PROVE  RestInv'
  <1> DEFINE r == task[t].run
  <1>0. task[t].pc # "none" /\ Busy(t) /\ r \in Runs
    <2>1. task[t].pc # "none"
      BY DEF Step, Save, Note, InitStart, InitPasses, InitFails, Begin, ResetBlocked, Phases,
             Authoring, RoleGate, GateAdvance, GateBlock, GateAwait, Decompose, Reload,
             EnterExecuting, Pick, StartFeature, Spawn, Work, VerifyFeature, VerifyState,
             VerifyGreen, GateRed, QaStart, QaGreen, Green, Park, Handoff, RecordFailure, Answer,
             Halt, Retry, Review, FinishRun, Release, ReportFailed, Confirm, Confirmed, Resume,
             Gone, Call, At, Elsewhere
    <2> QED BY <2>1, Records DEF Busy
  <1>1. /\ Frame(t) /\ InPlace(task'[t]) /\ UNCHANGED <<knobs, shared, used>>
        /\ run[r].on => Keeping(t)
        /\ KnobsKept(t)
    BY <1>0, StepKeeps DEF RestInv
  <1>2. /\ \A u \in Tasks \ {t} : task'[u] = task[u]
        /\ \A q \in Runs \ {r} : run'[q] = run[q]
        /\ run'[r].on = run[r].on /\ (run'[r].on \/ run'[r].state = run[r].state)
        /\ task'[t].pc # "none" => task'[t].run = r
    BY <1>1 DEF Frame, OnlyTask, OnlyRun
  <1>3. (\A u \in Tasks : InPlace(task'[u])) /\ \A q \in Runs : ~run'[q].on => run'[q].state = "idle"
    BY <1>0, <1>1, <1>2 DEF RestInv
  <1>4. ASSUME ~shared
        PROVE  /\ Alone'
               /\ Mishaps = 0 => Knobbed(Worker', disk'.list)
               /\ \A q \in Runs : run'[q].on =>
                     /\ used.faults + used.drops = 0 => Synced(Worker', run'[q], disk'.list)
                     /\ Mishaps = 0 => run'[q].list.knobs = knobs /\ Honestly(Worker', run'[q])
    <2>1. /\ Alone /\ (Mishaps = 0 => Knobbed(Worker, disk.list))
          /\ \A q \in Runs : run[q].on =>
                /\ used.faults + used.drops = 0 => Synced(Worker, run[q], disk.list)
                /\ Mishaps = 0 => run[q].list.knobs = knobs /\ Honestly(Worker, run[q])
      BY <1>4 DEF RestInv
    <2>2. \A u \in Tasks \ {t} : task[u].pc = "none" /\ task'[u].pc = "none"
      BY <1>0, <1>2, <2>1 DEF Alone, Busy
    <2>3. Worker = task[t] /\ Worker' = task'[t]
      BY <1>0, <1>1, <2>2, OneAtWork DEF Worker, InPlace
    <2>4. \A q \in Runs : run[q].on => q = r
      BY <1>0, <2>1 DEF Alone
    <2>5. Alone'
      BY <1>2, <2>2, <2>4 DEF Alone, Busy
    <2>6. Mishaps = 0 => Knobbed(Worker', disk'.list)
      BY <1>0, <1>1, <2>1, <2>3 DEF KnobsKept
    <2>7. run[r].on /\ run[r].driving => task[t].op = "drive"
      <3>1. SUFFICES ASSUME run[r].on, run[r].driving PROVE task[t].op = "drive"
        OBVIOUS
      <3>2. PICK u \in Tasks : Drives(u, r)
        BY <1>0, <3>1 DEF DriverInv, OneDriver
      <3>3. task[u].pc # "none"
        BY <3>2 DEF DriverInv, FitsOp, Drives
      <3> QED BY <2>2, <3>2, <3>3 DEF Drives
    <2>8. ASSUME run[r].on
          PROVE  /\ used.faults + used.drops = 0 => Synced(Worker', run'[r], disk'.list)
                 /\ Mishaps = 0 => run'[r].list.knobs = knobs /\ Honestly(Worker', run'[r])
      BY <1>0, <1>1, <2>1, <2>3, <2>7, <2>8 DEF Keeping
    <2> QED BY <1>2, <2>4, <2>5, <2>6, <2>8
  <1>5. Mishaps' = Mishaps /\ used' = used /\ knobs' = knobs /\ shared' = shared
    BY <1>1 DEF Mishaps
  <1> QED BY <1>3, <1>4, <1>5 DEF RestInv, Knobbed, Alone

(* After a mishap other than a crash only the places and the runs count. *)
LEMMA MishapStep ==
    ASSUME TypeInv, RestInv, NEW t \in Tasks, NEW x, task[t].pc # "none",
           task' = [task EXCEPT ![t] = x], InPlace(x), x.pc # "none" => x.run = task[t].run,
           UNCHANGED <<run, knobs, shared>>,
           used'.faults + used'.drops # 0 /\ Mishaps' # 0
    PROVE  RestInv'
  <1>1. task'[t] = x /\ OnlyTask(t)
    BY TaskFields
  <1>2. \A u \in Tasks : InPlace(task'[u])
    BY <1>1 DEF OnlyTask, RestInv
  <1>3. Alone => Alone'
    BY <1>1 DEF OnlyTask, Alone, Busy
  <1> QED BY <1>2, <1>3 DEF RestInv

LEMMA NextRests == ASSUME TypeInv, DriverInv, RestInv, [Next]_vars PROVE RestInv'
  <1>used. /\ used.faults \in Nat /\ used.drops \in Nat /\ used.crashes \in Nat
           /\ used \in [requests : Nat, faults : Nat, drops : Nat, crashes : Nat]
    BY DEF TypeInv, TypeOK
  <1>none. /\ NoTask.pc = "none" /\ NoTask.op = "none" /\ NoTask.next = "none"
           /\ NotRegistered.state = "idle" /\ ~NotRegistered.on
    BY DEF NoTask, NotRegistered
  <1>spent. ASSUME used' = [used EXCEPT !.requests = @ + 1]
            PROVE  Mishaps' = Mishaps /\ used'.faults = used.faults /\ used'.drops = used.drops
    BY <1>used, <1>spent DEF Mishaps
  <1>fault. ASSUME \/ used' = [used EXCEPT !.faults = @ + 1] \/ used' = [used EXCEPT !.drops = @ + 1]
            PROVE  used'.faults + used'.drops # 0 /\ Mishaps' # 0
    BY <1>used, <1>fault DEF Mishaps
  <1>1. ASSUME NEW t \in Tasks, NoteFails(t) PROVE RestInv'
    <2> DEFINE x == [task[t] EXCEPT !.pc = task[t].next, !.next = "none", !.phase = NoTask.phase]
    <2>1. /\ task[t].pc = "note" /\ UNCHANGED <<run, knobs, shared>>
          /\ task' = [task EXCEPT ![t] = x]
      BY <1>1 DEF NoteFails, At
    <2>2. x.op = task[t].op /\ x.run = task[t].run /\ x.pc = task[t].next /\ task[t].op \in Ops
      BY <2>1, Records DEF TaskRecords
    <2> HIDE DEF x
    <2>3. InPlace(task[t])
      BY DEF RestInv
    <2>4. InPlace(x)
      BY <2>1, <2>2, <2>3 DEF InPlace, Place, VerifyPCs, RequestPCs, Ops
    <2> QED BY <1>1, <1>fault, <2>1, <2>2, <2>4, MishapStep DEF NoteFails
  <1>2. ASSUME NEW t \in Tasks, Fails(t) PROVE RestInv'
    <2> DEFINE x == [NoTask EXCEPT !.op = "drive", !.run = task[t].run, !.pc = "release", !.err = TRUE]
    <2>1. /\ task[t].pc # "none" /\ UNCHANGED <<run, knobs, shared>>
          /\ task' = [task EXCEPT ![t] = x] \/ task' = [task EXCEPT ![t] = NoTask]
      BY <1>2 DEF Fails, Fallible, Leave, End
    <2>2. x.op = "drive" /\ x.run = task[t].run /\ x.pc = "release"
      BY DEF NoTask
    <2> HIDE DEF x
    <2>3. InPlace(x) /\ InPlace(NoTask)
      BY <2>2, <1>none DEF InPlace, Place, RequestPCs
    <2>4. used'.faults + used'.drops # 0 /\ Mishaps' # 0
      BY <1>2, <1>fault DEF Fails
    <2> QED BY <1>none, <2>1, <2>2, <2>3, <2>4, MishapStep
  <1>3. ASSUME NEW t \in Tasks, ClientGone(t) PROVE RestInv'
    <2>1. InPlace(NoTask)
      BY <1>none DEF InPlace, Place
    <2>2. used'.faults + used'.drops # 0 /\ Mishaps' # 0
      BY <1>3, <1>fault DEF ClientGone
    <2> QED BY <1>3, <1>none, <2>1, <2>2, MishapStep DEF ClientGone, Busy, End
  <1>request. ASSUME NEW t \in Tasks, NEW r \in Runs, NEW x, Request(t), run[r].on,
                     OnlyTask(t), task'[t] = x, RunStays(r), x.run = r, InPlace(x),
                     x.pc \in {"init", "verify", "confirm"}, UNCHANGED <<disk, knobs>>
              PROVE  RestInv'
    <2>1. \A q \in Runs : /\ run'[q].on = run[q].on /\ run'[q].state = run[q].state
                          /\ run'[q].list = run[q].list /\ run'[q].phase = run[q].phase
      BY <1>request DEF RunStays, SameRun, OnlyRun
    <2>2. (\A u \in Tasks : InPlace(task'[u])) /\ \A q \in Runs : ~run'[q].on => run'[q].state = "idle"
      BY <1>request, <2>1 DEF RestInv, OnlyTask
    <2>3. ASSUME ~shared'
          PROVE  /\ Alone'
                 /\ Mishaps' = 0 => Knobbed(Worker', disk.list)
                 /\ \A q \in Runs : run'[q].on =>
                     /\ used'.faults + used'.drops = 0 => Synced(Worker', run'[q], disk.list)
                     /\ Mishaps' = 0 => run'[q].list.knobs = knobs /\ Honestly(Worker', run'[q])
      <3>1. ~shared /\ \A u \in Tasks : task[u].pc = "none"
        BY <1>request, <2>3 DEF Request, Overlaps, Busy
      <3>2. \A u \in Tasks \ {t} : task'[u].pc = "none"
        BY <1>request, <3>1 DEF OnlyTask
      <3>3. Worker = NoTask /\ Worker' = x
        BY <1>request, <3>1, <3>2, NoneAtWork, OneAtWork DEF Worker
      <3>4. Alone /\ (Mishaps = 0 => Knobbed(NoTask, disk.list))
            /\ \A q \in Runs : run[q].on =>
                /\ used.faults + used.drops = 0 => Synced(NoTask, run[q], disk.list)
                /\ Mishaps = 0 => run[q].list.knobs = knobs /\ Honestly(NoTask, run[q])
        BY <3>1, <3>3 DEF RestInv
      <3>5. Alone'
        BY <1>request, <2>1, <3>2, <3>4 DEF Alone, Busy
      <3>6. \A q \in Runs : Honest(run'[q]) <=> Honest(run[q])
        BY <2>1 DEF Honest, BlockedOn, AwaitsOn, Has
      <3>7. Mishaps' = Mishaps /\ used'.faults = used.faults /\ used'.drops = used.drops
        BY <1>request, <1>spent DEF Request
      <3>8. /\ Knobbed(NoTask, disk.list) => Knobbed(x, disk.list)
            /\ \A q \in Runs : Synced(NoTask, run[q], disk.list) => Synced(x, run'[q], disk.list)
        BY <1>request, <1>none, <2>1 DEF Knobbed, Synced
      <3>9. \A q \in Runs : Honestly(NoTask, run[q]) => Honestly(x, run'[q])
        BY <1>request, <1>none, <3>6 DEF Honestly, Place, InPlace, VerifyPCs
      <3> QED BY <2>1, <3>3, <3>4, <3>5, <3>7, <3>8, <3>9
    <2> QED BY <1>request, <2>2, <2>3 DEF RestInv, Knobbed, Alone
  <1>4. ASSUME NEW t \in Tasks, NEW r \in Runs, RunRequest(t, r) PROVE RestInv'
    <2>1. Driven(t, r) /\ run[r].on /\ Request(t) /\ UNCHANGED <<disk, knobs>>
      BY <1>4, DriveFields DEF RunRequest, Claimable
    <2>2. InPlace(task'[t])
      BY <2>1 DEF Driven, InPlace, Place, RequestPCs
    <2> QED BY <2>1, <2>2, <1>request DEF Driven
  <1>5. ASSUME NEW t \in Tasks, NEW r \in Runs, NEW op \in Ops, NEW f \in Features,
               ManualRequest(t, r, op, f)
        PROVE  RestInv'
    <2> DEFINE x == [NoTask EXCEPT !.op = op, !.pc = op, !.run = r,
                                   !.feature = IF op = "init" THEN 1 ELSE f]
    <2>1. op \in {"init", "verify", "confirm"} /\ Request(t) /\ run[r].on
      BY <1>5, OpsAssumption DEF ManualRequest
    <2>2. x.op = op /\ x.pc = op /\ x.run = r
      BY DEF NoTask
    <2>3. task' = [task EXCEPT ![t] = x] /\ UNCHANGED <<run, disk, knobs>>
      BY <1>5 DEF ManualRequest
    <2> HIDE DEF x
    <2>4. task'[t] = x /\ OnlyTask(t) /\ RunStays(r)
      BY <2>3, TaskFields, StayFields
    <2>5. InPlace(x)
      BY <2>1, <2>2 DEF InPlace, Place, VerifyPCs
    <2> QED BY <2>1, <2>2, <2>3, <2>4, <2>5, <1>request
  <1>6. ASSUME NEW r \in Runs, Register(r) PROVE RestInv'
    <2> DEFINE y == [NotRegistered EXCEPT !.on = TRUE, !.fresh = FALSE,
                                          !.list = disk.list, !.phase = disk.phase]
    <2>1. run' = [run EXCEPT ![r] = y] /\ UNCHANGED <<disk, task, knobs>>
      BY <1>6 DEF Register
    <2>2. y.on /\ y.list = disk.list /\ y.state = "idle"
      BY DEF NotRegistered
    <2> HIDE DEF y
    <2>3. run'[r] = y /\ OnlyRun(r)
      BY <2>1, RunFields
    <2>4. (\A u \in Tasks : InPlace(task'[u])) /\ \A q \in Runs : ~run'[q].on => run'[q].state = "idle"
      BY <2>1, <2>2, <2>3 DEF RestInv, OnlyRun
    <2>5. ASSUME ~shared'
          PROVE  /\ Alone'
                 /\ Mishaps' = 0 => Knobbed(Worker', disk.list)
                 /\ \A q \in Runs : run'[q].on =>
                     /\ used'.faults + used'.drops = 0 => Synced(Worker', run'[q], disk.list)
                     /\ Mishaps' = 0 => run'[q].list.knobs = knobs /\ Honestly(Worker', run'[q])
      <3>1. ~shared /\ (\A u \in Tasks : task[u].pc = "none") /\ \A q \in Runs : ~run[q].on
        BY <1>6, <2>5 DEF Register, Overlaps, Busy
      <3>2. Worker = NoTask /\ Worker' = NoTask
        BY <2>1, <3>1, NoneAtWork DEF Worker
      <3>3. Mishaps = 0 => Knobbed(NoTask, disk.list)
        BY <3>1, <3>2 DEF RestInv
      <3>4. Alone'
        BY <2>1, <2>3, <3>1 DEF Alone, Busy, OnlyRun
      <3>5. Mishaps' = Mishaps
        BY <1>6, <1>spent DEF Register
      <3>6. \A q \in Runs : run'[q].on => run'[q] = y
        BY <2>3, <3>1 DEF OnlyRun
      <3>7. Synced(NoTask, y, disk.list) /\ Honestly(NoTask, y)
        BY <2>2, <1>none DEF Synced, Honestly, Honest, Place
      <3>8. Knobbed(NoTask, disk.list) => y.list.knobs = knobs
        BY <2>2, <1>none DEF Knobbed
      <3> QED BY <3>2, <3>3, <3>4, <3>5, <3>6, <3>7, <3>8
    <2> QED BY <2>1, <2>4, <2>5 DEF RestInv, Knobbed, Alone
  <1>7. ASSUME NEW r \in Runs, Stop(r) PROVE RestInv'
    <2> DEFINE y == [NotRegistered EXCEPT !.fresh = FALSE]
    <2>1. run' = [run EXCEPT ![r] = y] /\ UNCHANGED <<disk, task, knobs, shared>>
      BY <1>7 DEF Stop
    <2>2. ~y.on /\ y.state = "idle"
      BY DEF NotRegistered
    <2> HIDE DEF y
    <2>3. run'[r] = y /\ OnlyRun(r)
      BY <2>1, RunFields
    <2>4. \A q \in Runs : (~run'[q].on => run'[q].state = "idle") /\ (run'[q].on => run[q].on /\ run'[q] = run[q])
      BY <2>2, <2>3 DEF RestInv, OnlyRun
    <2>5. Alone => Alone'
      BY <2>1, <2>4 DEF Alone, Busy
    <2>6. Mishaps' = Mishaps /\ used'.faults = used.faults /\ used'.drops = used.drops
      BY <1>7, <1>spent DEF Stop
    <2>7. Worker' = Worker
      BY <2>1 DEF Worker
    <2> QED BY <2>1, <2>4, <2>5, <2>6, <2>7 DEF RestInv, Knobbed
  <1>8. CASE Crash
    <2>1. (\A t \in Tasks : task'[t] = NoTask) /\ Mishaps' # 0
      BY <1>8, <1>used DEF Crash, Mishaps
    <2>2. \A r \in Runs : ~run'[r].on /\ run'[r].state = "idle"
      BY <1>8, <1>none DEF Crash, RestInv, NotRegistered
    <2>3. InPlace(NoTask)
      BY <1>none DEF InPlace, Place
    <2> QED BY <1>none, <2>1, <2>2, <2>3 DEF RestInv, Alone, Busy
  <1>9. CASE UNCHANGED vars
    BY <1>9 DEF vars, RestInv, Alone, Busy, Worker, Mishaps, Knobbed
  <1>10. ASSUME NEW t \in Tasks, Step(t) PROVE RestInv'
    BY <1>10, LoneStep
  <1> QED BY <1>1, <1>2, <1>3, <1>4, <1>5, <1>6, <1>7, <1>8, <1>9, <1>10 DEF Next

LEMMA AlwaysRests == Spec => []RestInv
  <1>1. ASSUME Init PROVE RestInv
    <2>1. /\ \A t \in Tasks : task[t] = NoTask
          /\ \A r \in Runs : ~run[r].on /\ run[r].state = "idle"
          /\ NoTask.pc = "none" /\ NoTask.op = "none"
      BY <1>1 DEF Init, NotRegistered, NoTask
    <2>2. Worker = NoTask
      BY <2>1, NoneAtWork DEF Worker
    <2>3. disk.list.knobs = knobs
      BY <1>1 DEF Init, NewBacklog
    <2> QED BY <2>1, <2>2, <2>3 DEF RestInv, InPlace, Place, Alone, Busy, Knobbed
  <1>2. TypeInv /\ DriverInv /\ RestInv /\ [Next]_vars => RestInv'
    BY NextRests
  <1> QED BY <1>1, <1>2, AlwaysTyped, AlwaysDriven, PTL DEF Spec

(* What the invariant says of a project nobody works on. *)
LEMMA AtRest ==
    ASSUME RestInv, Resting
    PROVE  /\ Mishaps = 0 => disk.list.knobs = knobs
           /\ \A r \in Runs : ~run[r].on => run[r].state = "idle"
           /\ \A r \in Runs : run[r].on =>
                 /\ used.faults + used.drops = 0 => disk.list = run[r].list
                 /\ Mishaps = 0 => Honest(run[r])
  <1>1. Worker = NoTask /\ NoTask.pc = "none"
    BY NoneAtWork DEF Resting, Busy, Worker, NoTask
  <1> QED BY <1>1 DEF RestInv, Resting, Knobbed, Synced, Honestly

(* A decompose that is not cut short keeps the configured retries,         *)
(* confirmations and roles (copy_knobs), at whatever point it is made.     *)
THEOREM KnobsStay == Spec => []KnobsSurvive
  <1>1. RestInv => KnobsSurvive
    BY AtRest DEF KnobsSurvive
  <1> QED BY <1>1, AlwaysRests, PTL

(* A run nobody works on says what it waits for: the states the board      *)
(* shows at rest are none of those of a run at work.                       *)
THEOREM RestSaysWhy == Spec => []RestIsHonest
  <1>1. RestInv => RestIsHonest
    BY AtRest DEF RestIsHonest, Honest, BlockedOn, AwaitsOn, Has
  <1> QED BY <1>1, AlwaysRests, PTL

(* save_features: "the board on disk always matches the live run" when     *)
(* nothing overlapped and no write failed, crashes included.               *)
THEOREM DiskFollows == Spec => []DiskIsCurrent
  <1>1. RestInv => DiskIsCurrent
    BY AtRest DEF DiskIsCurrent, Resting
  <1> QED BY <1>1, AlwaysRests, PTL
===============================================================================
