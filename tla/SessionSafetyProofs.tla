-------------------------- MODULE SessionSafetyProofs --------------------------
(* What follows from the leases: a stop is not undone behind the user's    *)
(* back, a crash sampled before a write never retires what came after it,  *)
(* a stopped session's hook token is refused, and only a pane that was     *)
(* found to be the session's own is destroyed.                             *)
EXTENDS SessionLifecycleProofs

LEMMA LeaseHolderIsUser ==
    ASSUME TypeOK, LeaseInv, NEW p \in Procs, pc[p] \in LockedPCs, req[p].op \notin BootOps
    PROVE  sessLease[req[p].sess] = p /\ p \in Users
  <1>1. pc[p] # "idle"
    BY DEF LockedPCs, LoadedPCs, LaunchPCs, StopPCs
  <1> QED
    BY <1>1 DEF LeaseInv, LeasesMatch, OpsInPlace, TypeOK, Procs

(* Who writes rows, and how: the lease holder, or an insert or the         *)
(* watchdog on a row that is not stopped.                                  *)
LEMMA NextRespectsStop == TypeOK /\ LeaseInv /\ [Next]_vars => RespectsStop
  <1> SUFFICES ASSUME TypeOK, LeaseInv, [Next]_vars PROVE RespectsStop
    OBVIOUS
  <1> USE DEF LoadedPCs, LaunchPCs, StopPCs
  <1>0. ASSUME NEW p \in Procs
        PROVE  /\ OpFits(req[p].op, pc[p]) /\ SnapshotOf(p) /\ PrivateTo(p)
               /\ Target(p) \in Targets /\ Target(p) # NoTarget
               /\ \A t \in Targets : pane[t].inc \in Nat
    BY TargetsTyped, ConstantsTyped, PanesTyped
       DEF LeaseInv, OpsInPlace, SnapshotIsCurrent, NewIdIsPrivate, Target, TypeOK
  <1>1. CASE row' = row
    BY <1>1 DEF RespectsStop
  <1>2. ASSUME NEW p \in Procs, NEW s \in Sessions, pc[p] \in LockedPCs, req[p].sess = s,
               req[p].op \in {"start", "attach"} \cup DeleteOps,
               \A q \in Sessions \ {s} : row'[q] = row[q]
        PROVE  RespectsStop
    BY <1>2, LeaseHolderIsUser DEF RespectsStop, BootOps, DeleteOps
  <1>3. ASSUME NEW s \in Sessions,
               row[s].status # "stopped" \/ row'[s].status = "stopped",
               \A q \in Sessions \ {s} : row'[q] = row[q]
        PROVE  RespectsStop
    BY <1>3 DEF RespectsStop
  <1>4. ASSUME NEW p \in Procs, NEW s \in Sessions, Insert(p, s)
        PROVE  RespectsStop
    <2>1. row' = row \/ (row[s].status # "stopped" /\ \A q \in Sessions \ {s} : row'[q] = row[q])
      BY <1>0, <1>4 DEF Insert, At, OpFits, CreateOps, PrivateTo, Exists, TypeOK, RowsOK
    <2> QED
      BY <1>1, <1>3, <2>1
  <1>5. ASSUME NEW p \in Procs, NEW s \in Sessions,
               RotateIdle(p, s) \/ Reattach(p, s) \/ Commit(p, s)
        PROVE  RespectsStop
    <2>1. /\ pc[p] \in LaunchPCs /\ pc[p] \in LockedPCs /\ req[p].sess = s
          /\ \A q \in Sessions \ {s} : row'[q] = row[q]
      BY <1>5 DEF RotateIdle, Reattach, Commit, SetRow, At, LockedPCs, TypeOK, RowsOK
    <2>2. req[p].op = "start" \/ row[s].status # "stopped"
      BY <1>0, <2>1 DEF OpFits, SnapshotOf, StartOps, BootOps
    <2> QED
      BY <1>2, <1>3, <2>1, <2>2
  <1>6. ASSUME NEW p \in Procs, NEW s \in Sessions, Record(p, s)
        PROVE  RespectsStop
    <2>1. pc[p] \in LockedPCs /\ req[p].sess = s /\ \A q \in Sessions \ {s} : row'[q] = row[q]
      BY <1>6 DEF Record, SetRow, At, LockedPCs, TypeOK, RowsOK
    <2>2. req[p].op \in DeleteOps \/ row'[s].status = "stopped"
      <3>1. row[s].inc \in Nat
        BY RowsTyped DEF TypeOK, RowsOK
      <3> QED
        BY <1>0, <1>6, <3>1, SetRowTyped DEF Record, Statuses
    <2> QED
      BY <1>2, <1>3, <2>1, <2>2
  <1>7. ASSUME NEW p \in Procs, NEW s \in Sessions, AttachArm(p, s)
        PROVE  RespectsStop
    <2>1. /\ pc[p] \in LockedPCs /\ req[p].sess = s /\ req[p].op = "attach"
          /\ \A q \in Sessions \ {s} : row'[q] = row[q]
      BY <1>7 DEF AttachArm, SetRow, At, LockedPCs, TypeOK, RowsOK
    <2> QED
      BY <1>2, <2>1
  <1>8. ASSUME NEW p \in Procs, NEW s \in Sessions,
               PatchFlags(p, s) \/ \E n \in Names : Patch(p, s, n)
        PROVE  RespectsStop
    <2>0. row[s] \in Rows
      BY DEF TypeOK, RowsOK
    <2>1. row'[s].status = row[s].status /\ \A q \in Sessions \ {s} : row'[q] = row[q]
      <3>1. CASE PatchFlags(p, s)
        <4>1. PICK edit \in FlagEdits :
                 row' = [row EXCEPT ![s] = [row[s] EXCEPT !.ext = row[s].ext /\ edit = "keep",
                                                          !.ver = row[s].ver + 1]]
          BY <3>1 DEF PatchFlags
        <4> QED
          BY <2>0, <4>1 DEF Rows, TypeOK, RowsOK
      <3>2. CASE \E n \in Names : Patch(p, s, n)
        <4>1. PICK n \in Names :
                 row' = [row EXCEPT ![s] = [row[s] EXCEPT !.name = n, !.ver = row[s].ver + 1]]
          BY <3>2 DEF Patch
        <4> QED
          BY <2>0, <4>1 DEF Rows, TypeOK, RowsOK
      <3> QED
        BY <1>8, <3>1, <3>2
    <2> QED
      BY <1>3, <2>1
  <1>9. ASSUME NEW s \in Sessions, PatchTool(s) \/ CommitCrash(s)
        PROVE  RespectsStop
    <2>1. /\ row'[s].status = row[s].status \/ row[s].status = "running"
          /\ \A q \in Sessions \ {s} : row'[q] = row[q]
      BY <1>9 DEF PatchTool, CommitCrash, Matches, SetRow, TypeOK, RowsOK, Rows
    <2> QED
      BY <1>3, <2>1
  <1>10. CASE Startup \/ World
    <2>1. row' = row
      BY <1>10 DEF Startup, BootList, BootListRunning, BootDone, BootNext,
                   World, Crash, PaneExits, PrintsSignature, UserCreatesPane
    <2> QED
      BY <1>1, <2>1
  <1>11. CASE Watchdog
    <2>1. row' = row \/ \E s \in Sessions : PatchTool(s) \/ CommitCrash(s)
      BY <1>11 DEF Watchdog, ReconcileList, ReconcileApply, SampleCrash, SampleTool
    <2> QED
      BY <1>1, <1>9, <2>1
  <1>12. ASSUME NEW p \in Procs, NEW s \in Sessions,
                \/ \E op \in Ops : Request(p, op, s) \/ RequestNew(p, op, s)
                \/ Acquire(p, s) \/ Faulty(p, s)
         PROVE  RespectsStop
    <2>1. row' = row
      BY <1>12 DEF Request, RequestNew, Acquire, AcquireHost, AcquireSession, Faulty, CallFails,
                   LaunchFails, MarkFails, CommitFails, DeleteUntorn, ClientGone
    <2> QED
      BY <1>1, <2>1
  <1>13. ASSUME NEW p \in Procs, NEW s \in Sessions, Advance(p, s)
         PROVE  RespectsStop
    <2>1. CASE \/ EnterHandoff(p, s) \/ Adopt(p, s) \/ PassGate(p, s) \/ Refused(p, s)
               \/ StartProbe(p, s) \/ Verify(p, s) \/ VerifyConflict(p, s) \/ RotateKill(p, s)
               \/ Launch(p, s) \/ NameTaken(p, s) \/ MarkOwner(p, s) \/ MarkGeneration(p, s)
               \/ MarkGone(p, s) \/ StopProbe(p, s) \/ Kill(p, s) \/ Cleanup(p, s)
      <3>1. row' = row
        BY <2>1 DEF EnterHandoff, Adopt, PassGate, Refused, StartProbe, Verify, VerifyConflict,
                    RotateKill, Launch, NameTaken, MarkOwner, MarkGeneration, MarkGone, StopProbe, Kill, Cleanup
      <3> QED
        BY <1>1, <3>1
    <2> QED
      BY <1>4, <1>5, <1>6, <1>7, <1>8, <1>13, <2>1 DEF Advance
  <1>14. CASE UNCHANGED vars
    BY <1>1, <1>14 DEF vars
  <1> QED
    BY <1>10, <1>11, <1>12, <1>13, <1>14 DEF Next, Handlers

(* "so startup can never undo the user's stop": a stopped session is only  *)
(* brought back or removed by a user's start, attach or delete.            *)
THEOREM StopRespected == Spec => StopIsRespected
  <1>1. TypeOK /\ LeaseInv /\ [Next]_vars => [RespectsStop]_vars
    BY NextRespectsStop
  <1> QED
    BY <1>1, TypeCorrect, LeasesHold, PTL DEF Spec, StopIsRespected

-------------------------------------------------------------------------------
(* The steps that write rows, and those that touch panes. *)
LEMMA RowWriters ==
    ASSUME [Next]_vars, row' # row
    PROVE  \E s \in Sessions :
              \/ PatchTool(s) \/ CommitCrash(s)
              \/ \E p \in Procs :
                    \/ Insert(p, s) \/ RotateIdle(p, s) \/ Reattach(p, s) \/ Commit(p, s)
                    \/ Record(p, s) \/ AttachArm(p, s) \/ PatchFlags(p, s)
                    \/ \E n \in Names : Patch(p, s, n)
  <1>1. ~(Startup \/ World \/ UNCHANGED vars)
    BY DEF Startup, BootList, BootListRunning, BootDone, BootNext,
           World, Crash, PaneExits, PrintsSignature, UserCreatesPane, vars
  <1>2. Watchdog => \E s \in Sessions : PatchTool(s) \/ CommitCrash(s)
    BY DEF Watchdog, ReconcileList, ReconcileApply, SampleCrash, SampleTool
  <1>3. ASSUME NEW p \in Procs, NEW s \in Sessions
        PROVE  /\ ~\E op \in Ops : Request(p, op, s) \/ RequestNew(p, op, s)
               /\ ~(Acquire(p, s) \/ Faulty(p, s))
    BY DEF Request, RequestNew, Acquire, AcquireHost, AcquireSession, Faulty, CallFails,
           LaunchFails, MarkFails, CommitFails, DeleteUntorn, ClientGone
  <1>4. ASSUME NEW p \in Procs, NEW s \in Sessions, Advance(p, s)
        PROVE  \/ Insert(p, s) \/ RotateIdle(p, s) \/ Reattach(p, s) \/ Commit(p, s)
               \/ Record(p, s) \/ AttachArm(p, s) \/ PatchFlags(p, s)
               \/ \E n \in Names : Patch(p, s, n)
    BY <1>4 DEF Advance, EnterHandoff, Adopt, PassGate, Refused, StartProbe, Verify,
                VerifyConflict, RotateKill, Launch, NameTaken, MarkOwner, MarkGeneration,
                MarkGone, StopProbe, Kill, Cleanup
  <1> QED
    BY <1>1, <1>2, <1>3, <1>4 DEF Next, Handlers

LEMMA PaneWriters ==
    ASSUME [Next]_vars, pane' # pane
    PROVE  \/ \E t \in Targets : PaneExits(t) \/ PrintsSignature(t)
           \/ \E s \in Sessions : UserCreatesPane(s)
           \/ \E p \in Procs, s \in Sessions :
                 \/ RotateKill(p, s) \/ Kill(p, s) \/ MarkFails(p, s) \/ CommitFails(p, s)
                 \/ Verify(p, s) \/ MarkOwner(p, s) \/ MarkGeneration(p, s) \/ Launch(p, s)
  <1>1. ~(Startup \/ Watchdog \/ Crash \/ UNCHANGED vars)
    BY DEF Startup, BootList, BootListRunning, BootDone, BootNext, Crash, vars, Watchdog,
           ReconcileList, ReconcileApply, SampleCrash, SampleTool, PatchTool, CommitCrash
  <1>2. ASSUME NEW p \in Procs, NEW s \in Sessions
        PROVE  /\ ~\E op \in Ops : Request(p, op, s) \/ RequestNew(p, op, s)
               /\ ~Acquire(p, s)
               /\ Faulty(p, s) => MarkFails(p, s) \/ CommitFails(p, s)
    BY DEF Request, RequestNew, Acquire, AcquireHost, AcquireSession, Faulty, CallFails,
           LaunchFails, DeleteUntorn, ClientGone
  <1>3. ASSUME NEW p \in Procs, NEW s \in Sessions, Advance(p, s)
        PROVE  \/ RotateKill(p, s) \/ Kill(p, s) \/ Verify(p, s) \/ MarkOwner(p, s)
               \/ MarkGeneration(p, s) \/ Launch(p, s)
    BY <1>3 DEF Advance, EnterHandoff, Insert, Adopt, PassGate, Refused, StartProbe,
                VerifyConflict, RotateIdle, Reattach, NameTaken, MarkGone, Commit, StopProbe,
                Record, Cleanup, AttachArm, PatchFlags, Patch
  <1> QED
    BY <1>1, <1>2, <1>3 DEF Next, Handlers, World

LEMMA WatchWriters ==
    ASSUME [Next]_vars, watch' # watch
    PROVE  \/ Crash \/ ReconcileApply
           \/ \E s \in Sessions : SampleCrash(s) \/ SampleTool(s) \/ PatchTool(s) \/ CommitCrash(s)
  <1>1. ASSUME NEW p \in Procs, NEW s \in Sessions
        PROVE  /\ ~\E op \in Ops : Request(p, op, s) \/ RequestNew(p, op, s)
               /\ ~(Acquire(p, s) \/ Faulty(p, s) \/ Advance(p, s))
    BY DEF observer, Request, RequestNew, Acquire, AcquireHost, AcquireSession, Faulty, CallFails,
           LaunchFails, MarkFails, CommitFails, DeleteUntorn, ClientGone, Advance, EnterHandoff,
           Insert, Adopt, PassGate, Refused, StartProbe, Verify, VerifyConflict, RotateKill,
           RotateIdle, Reattach, Launch, NameTaken, MarkOwner, MarkGeneration, MarkGone, Commit,
           StopProbe, Kill, Record, Cleanup, AttachArm, PatchFlags, Patch
  <1> QED
    BY <1>1 DEF Next, Handlers, Startup, BootList, BootListRunning, BootDone, BootNext, World,
                PaneExits, PrintsSignature, UserCreatesPane, vars, Watchdog, ReconcileList, observer

LEMMA SeenWriters ==
    ASSUME [Next]_vars, seen' # seen
    PROVE  Crash \/ ReconcileApply \/ ReconcileList
  <1>1. ASSUME NEW p \in Procs, NEW s \in Sessions
        PROVE  /\ ~\E op \in Ops : Request(p, op, s) \/ RequestNew(p, op, s)
               /\ ~(Acquire(p, s) \/ Faulty(p, s) \/ Advance(p, s))
    BY DEF observer, Request, RequestNew, Acquire, AcquireHost, AcquireSession, Faulty, CallFails,
           LaunchFails, MarkFails, CommitFails, DeleteUntorn, ClientGone, Advance, EnterHandoff,
           Insert, Adopt, PassGate, Refused, StartProbe, Verify, VerifyConflict, RotateKill,
           RotateIdle, Reattach, Launch, NameTaken, MarkOwner, MarkGeneration, MarkGone, Commit,
           StopProbe, Kill, Record, Cleanup, AttachArm, PatchFlags, Patch
  <1> QED
    BY <1>1 DEF Next, Handlers, Startup, BootList, BootListRunning, BootDone, BootNext, World,
                PaneExits, PrintsSignature, UserCreatesPane, vars, Watchdog, SampleCrash,
                SampleTool, PatchTool, CommitCrash, observer

LEMMA SetRowWrites ==
    ASSUME TypeOK, NEW s \in Sessions, NEW st \in Statuses,
           NEW t \in Targets \cup {NoTarget}, NEW i \in Nat, SetRow(s, st, t, i)
    PROVE  /\ row'[s].status = st /\ row'[s].target = t /\ row'[s].inc = i
           /\ row'[s].ver = row[s].ver + 1
           /\ row'[s].ext = row[s].ext /\ row'[s].name = row[s].name
           /\ \A q \in Sessions \ {s} : row'[q] = row[q]
  <1>1. row[s] \in Rows /\ row \in [Sessions -> Rows]
    BY DEF TypeOK, RowsOK
  <1>2. row' = [row EXCEPT ![s] = Written(row[s], st, t, i)]
    BY DEF SetRow, Written
  <1>3. row[s].ver + 1 \in Nat
    BY <1>1, RowsTyped
  <1> QED
    BY <1>1, <1>2, <1>3 DEF Written, Rows

(* A patch by a handler or by the watchdog: the version alone moves, and   *)
(* with it the name or the marker. *)
Touched(s) ==
    /\ row'[s].status = row[s].status /\ row'[s].target = row[s].target
    /\ row'[s].inc = row[s].inc /\ row'[s].ver = row[s].ver + 1
    /\ \A q \in Sessions \ {s} : row'[q] = row[q]

LEMMA PatchesTouch ==
    ASSUME TypeOK, NEW s \in Sessions, row' # row,
           \/ PatchTool(s)
           \/ \E p \in Procs : PatchFlags(p, s) \/ \E n \in Names : Patch(p, s, n)
    PROVE  Touched(s) /\ Exists(s)
  <1>1. row[s] \in Rows /\ row \in [Sessions -> Rows]
    BY DEF TypeOK, RowsOK
  <1>2. row[s].ver + 1 \in Nat
    BY <1>1, RowsTyped
  <1>3. CASE PatchTool(s)
    <2>1. row' = [row EXCEPT ![s] = [row[s] EXCEPT !.ver = row[s].ver + 1]]
      BY <1>3 DEF PatchTool
    <2> QED
      BY <1>1, <1>2, <1>3, <2>1 DEF Touched, Rows, PatchTool
  <1>4. ASSUME NEW p \in Procs, NEW n \in Names, Patch(p, s, n)
        PROVE  Touched(s) /\ Exists(s)
    <2> DEFINE r == [row[s] EXCEPT !.name = n, !.ver = row[s].ver + 1]
    <2>1. row' = [row EXCEPT ![s] = r]
      BY <1>4 DEF Patch
    <2>2. /\ r.status = row[s].status /\ r.target = row[s].target
          /\ r.inc = row[s].inc /\ r.ver = row[s].ver + 1
      BY <1>1, <1>2 DEF Rows
    <2> HIDE DEF r
    <2> QED
      BY <1>1, <1>4, <2>1, <2>2 DEF Touched, Patch
  <1>5. ASSUME NEW p \in Procs, PatchFlags(p, s)
        PROVE  Touched(s) /\ Exists(s)
    <2>1. PICK e \in BOOLEAN :
             row' = [row EXCEPT ![s] = [row[s] EXCEPT !.ext = e, !.ver = row[s].ver + 1]]
      <3>1. PICK edit \in FlagEdits :
               row' = [row EXCEPT ![s] = [row[s] EXCEPT !.ext = row[s].ext /\ edit = "keep",
                                                        !.ver = row[s].ver + 1]]
        BY <1>5 DEF PatchFlags
      <3>2. (row[s].ext /\ edit = "keep") \in BOOLEAN
        OBVIOUS
      <3> QED
        BY <3>1, <3>2
    <2> QED
      BY <1>1, <1>2, <1>5, <2>1 DEF Touched, Rows, PatchFlags
  <1> QED
    BY <1>3, <1>4, <1>5

-------------------------------------------------------------------------------
(* What a watch task or the watchdog's list knows of a row is no newer     *)
(* than the row, every write makes the row newer, and a Running row is tied*)
(* to no younger pane than the one that has its name.                      *)
AgesOrdered ==
    \A s \in Sessions :
        /\ watch[s].ver <= row[s].ver /\ seen.rows[s].ver <= row[s].ver
        /\ row[s].status = "running" => row[s].inc <= pane[row[s].target].inc
        /\ row[s].status = "unborn" => row[s].ver = 0
        /\ ~Exists(s) => row[s].target = NoTarget

CrashInv == AgesOrdered /\ CrashCommitIsCurrent

RowAges(s) ==
    \/ row'[s] = row[s]
    \/ /\ row'[s].ver = row[s].ver + 1 /\ Exists(s)'
       /\ row'[s].status = "running" => row'[s].inc <= pane[row'[s].target].inc
    \/ /\ row'[s].ver = row[s].ver /\ row'[s].status = "deleted"
       /\ row'[s].target = NoTarget

PaneAges(t) ==
    \/ pane'[t].inc > pane[t].inc
    \/ /\ pane'[t].inc = pane[t].inc
       /\ pane'[t].live => /\ pane[t].live
                           /\ pane[t].marked => pane'[t].marked
                           /\ pane[t].sig => pane'[t].sig

LEMMA RowsAge ==
    ASSUME TypeOK, LeaseInv, AgesOrdered, [Next]_vars
    PROVE  \A s \in Sessions : RowAges(s)
  <1>1. CASE row' = row
    BY <1>1 DEF RowAges
  <1>2. ASSUME NEW s \in Sessions, RowAges(s), \A q \in Sessions \ {s} : row'[q] = row[q]
        PROVE  \A q \in Sessions : RowAges(q)
    BY <1>2 DEF RowAges
  <1>3. /\ \A t \in Targets : pane[t].inc \in Nat /\ pane[t].inc <= pane[t].inc
        /\ \A s \in Sessions : row[s].inc \in Nat /\ row[s].ver \in Nat
        /\ \A p \in Procs : Target(p) \in Targets /\ Target(p) # NoTarget
        /\ NoTarget \notin Targets
    <2>1. \A t \in Targets : pane[t].inc \in Nat
      BY DEF TypeOK, Panes
    <2> QED
      BY <2>1, RowsTyped, TargetsTyped, ConstantsTyped DEF TypeOK, RowsOK, Target
  <1>4. ASSUME NEW s \in Sessions, NEW st \in Statuses \ {"unborn", "deleted"},
               NEW t \in Targets \cup {NoTarget}, NEW i \in Nat, SetRow(s, st, t, i),
               st = "running" => t \in Targets /\ i = pane[t].inc
        PROVE  \A q \in Sessions : RowAges(q)
    <2>1. RowAges(s)
      BY <1>3, <1>4, SetRowWrites DEF RowAges, Exists
    <2> QED
      BY <1>2, <1>4, <2>1, SetRowWrites
  <1>5. ASSUME NEW s \in Sessions, Touched(s), Exists(s)
        PROVE  \A q \in Sessions : RowAges(q)
    <2>1. RowAges(s)
      BY <1>5 DEF Touched, RowAges, Exists, AgesOrdered
    <2> QED
      BY <1>2, <1>5, <2>1 DEF Touched
  <1>6. ASSUME NEW p \in Procs, NEW s \in Sessions, Insert(p, s), row' # row
        PROVE  \A q \in Sessions : RowAges(q)
    <2>1. /\ row' = [row EXCEPT ![s] = NewRow] \/ row' = [row EXCEPT ![s] = ExternalRow(s)]
          /\ row[s].status = "unborn"
      <3>1. PrivateTo(p) /\ OpFits(req[p].op, "insert") /\ pc[p] = "insert" /\ req[p].sess = s
        BY <1>6 DEF LeaseInv, NewIdIsPrivate, OpsInPlace, Insert, At
      <3>2. UserTarget(s) # NoTarget
        BY <1>3 DEF UserTarget, Targets
      <3>3. CASE req[p].op = "attach"
        <4>1. ~Exists(s) /\ row' = [row EXCEPT ![s] = ExternalRow(s)]
              /\ (row[s].status = "unborn" \/ row[s].target = UserTarget(s))
          BY <1>6, <3>3 DEF Insert
        <4> QED
          BY <3>2, <4>1 DEF AgesOrdered
      <3>4. CASE req[p].op # "attach"
        BY <1>6, <3>1, <3>4 DEF Insert, PrivateTo, OpFits
      <3> QED
        BY <3>3, <3>4
    <2>2. NewRow.status = "idle" /\ NewRow.ver = 1
          /\ ExternalRow(s).status = "stopped" /\ ExternalRow(s).ver = 1
      BY DEF NewRow, ExternalRow, NoRow
    <2>3. RowAges(s)
      BY <2>1, <2>2 DEF RowAges, Exists, AgesOrdered, TypeOK, RowsOK
    <2>4. \A q \in Sessions \ {s} : row'[q] = row[q]
      BY <2>1 DEF TypeOK, RowsOK
    <2> QED
      BY <1>2, <2>3, <2>4
  <1>7. ASSUME NEW p \in Procs, NEW s \in Sessions, row' # row,
               \/ RotateIdle(p, s) \/ Reattach(p, s) \/ Commit(p, s) \/ AttachArm(p, s)
        PROVE  \A q \in Sessions : RowAges(q)
    <2>1. UserTarget(s) \in Targets
      BY DEF UserTarget, Targets
    <2>2. \/ SetRow(s, "idle", NoTarget, row[s].inc)
          \/ SetRow(s, "running", Target(p), pane[Target(p)].inc)
          \/ SetRow(s, "running", UserTarget(s), pane[UserTarget(s)].inc)
      BY <1>7 DEF RotateIdle, Reattach, Commit, AttachArm
    <2> QED
      BY <1>3, <1>4, <2>1, <2>2 DEF Statuses
  <1>8. ASSUME NEW p \in Procs, NEW s \in Sessions, Record(p, s)
        PROVE  \A q \in Sessions : RowAges(q)
    <2>1. CASE req[p].op \in DeleteOps
      <3>1. row' = [row EXCEPT ![s] = DeletedRow(row[s].ver)]
        BY <1>8, <2>1 DEF Record
      <3>2. /\ DeletedRow(row[s].ver).status = "deleted" /\ DeletedRow(row[s].ver).ver = row[s].ver
            /\ DeletedRow(row[s].ver).target = NoTarget
        BY DEF DeletedRow, NoRow
      <3>3. RowAges(s)
        BY <3>1, <3>2 DEF RowAges, TypeOK, RowsOK
      <3> QED
        BY <1>2, <3>1, <3>3
    <2>2. CASE req[p].op \notin DeleteOps
      <3>1. SetRow(s, "stopped", IF snap[p].ext THEN Target(p) ELSE NoTarget, row[s].inc)
        BY <1>8, <2>2 DEF Record
      <3> QED
        BY <1>3, <1>4, <3>1 DEF Statuses
    <2> QED
      BY <2>1, <2>2
  <1>9. ASSUME NEW s \in Sessions, CommitCrash(s), row' # row
        PROVE  \A q \in Sessions : RowAges(q)
    <2>1. SetRow(s, "crashed", NoTarget, row[s].inc)
      BY <1>9 DEF CommitCrash
    <2> QED
      BY <1>3, <1>4, <2>1 DEF Statuses
  <1> QED
    BY <1>1, <1>5, <1>6, <1>7, <1>8, <1>9, RowWriters, PatchesTouch

LEMMA PanesAge ==
    ASSUME TypeOK, [Next]_vars
    PROVE  \A t \in Targets : PaneAges(t)
  <1>0. \A t \in Targets : pane[t] \in Panes /\ pane[t].inc \in Nat
    BY DEF TypeOK, Panes
  <1>1. CASE pane' = pane
    BY <1>1 DEF PaneAges
  <1>2. ASSUME NEW t \in Targets, NEW q, pane' = [pane EXCEPT ![t] = q],
               \/ q.inc = pane[t].inc + 1
               \/ /\ q.inc = pane[t].inc
                  /\ q.live => /\ pane[t].live
                               /\ pane[t].marked => q.marked
                               /\ pane[t].sig => q.sig
        PROVE  \A u \in Targets : PaneAges(u)
    BY <1>0, <1>2 DEF PaneAges, TypeOK
  <1>3. \A p \in Procs : Target(p) \in Targets
    BY TargetsTyped DEF Target, TypeOK
  <1>4. ASSUME NEW t \in Targets
        PROVE  /\ Dead(pane[t]).inc = pane[t].inc /\ ~Dead(pane[t]).live
               /\ \A b \in BOOLEAN : [Dead(pane[t]) EXCEPT !.killed = b].inc = pane[t].inc
                                     /\ ~[Dead(pane[t]) EXCEPT !.killed = b].live
               /\ [pane[t] EXCEPT !.marked = TRUE].inc = pane[t].inc
               /\ [pane[t] EXCEPT !.marked = TRUE].marked
               /\ [pane[t] EXCEPT !.marked = TRUE].live = pane[t].live
               /\ [pane[t] EXCEPT !.marked = TRUE].sig = pane[t].sig
               /\ [pane[t] EXCEPT !.gen = TRUE].inc = pane[t].inc
               /\ [pane[t] EXCEPT !.gen = TRUE].live = pane[t].live
               /\ [pane[t] EXCEPT !.gen = TRUE].sig = pane[t].sig
               /\ [pane[t] EXCEPT !.gen = TRUE].marked = pane[t].marked
               /\ [pane[t] EXCEPT !.sig = TRUE].inc = pane[t].inc
               /\ [pane[t] EXCEPT !.sig = TRUE].sig
               /\ [pane[t] EXCEPT !.sig = TRUE].live = pane[t].live
               /\ [pane[t] EXCEPT !.sig = TRUE].marked = pane[t].marked
    BY <1>0 DEF Panes, Dead
  <1>5. ASSUME NEW t \in Targets, KillAt(t)
        PROVE  \A u \in Targets : PaneAges(u)
    <2>1. (pane[t].killed \/ pane[t].live) \in BOOLEAN
      BY <1>0 DEF Panes
    <2> QED
      BY <1>2, <1>4, <1>5, <2>1 DEF KillAt
  <1>6. ASSUME NEW p \in Procs, NEW s \in Sessions,
               \/ RotateKill(p, s) \/ Kill(p, s) \/ MarkFails(p, s) \/ CommitFails(p, s)
        PROVE  \A t \in Targets : PaneAges(t)
    <2>1. KillAt(Target(p)) \/ pane' = pane
      BY <1>6, HeldKills DEF RotateKill, Kill, MarkFails, CommitFails
    <2> QED
      BY <1>1, <1>3, <1>5, <2>1
  <1>7. ASSUME NEW p \in Procs, NEW s \in Sessions,
               Verify(p, s) \/ MarkOwner(p, s) \/ MarkGeneration(p, s)
        PROVE  \A t \in Targets : PaneAges(t)
    <2> DEFINE m == [pane[Target(p)] EXCEPT !.marked = TRUE]
               g == [pane[Target(p)] EXCEPT !.gen = TRUE]
    <2>1. pane' = [pane EXCEPT ![Target(p)] = m] \/ pane' = [pane EXCEPT ![Target(p)] = g]
      BY <1>7 DEF Verify, MarkOwner, MarkGeneration
    <2>2. /\ m.inc = pane[Target(p)].inc /\ g.inc = pane[Target(p)].inc
          /\ m.live = pane[Target(p)].live /\ g.live = pane[Target(p)].live
          /\ m.sig = pane[Target(p)].sig /\ g.sig = pane[Target(p)].sig
          /\ m.marked /\ g.marked = pane[Target(p)].marked
      BY <1>3, <1>4
    <2> HIDE DEF m, g
    <2> QED
      BY <1>2, <1>3, <2>1, <2>2
  <1>8. ASSUME NEW p \in Procs, NEW s \in Sessions, Launch(p, s)
        PROVE  \A t \in Targets : PaneAges(t)
    <2> DEFINE q == [DeadPane EXCEPT !.live = TRUE, !.inc = pane[Target(p)].inc + 1]
    <2>1. pane' = [pane EXCEPT ![Target(p)] = q] /\ q.inc = pane[Target(p)].inc + 1
      BY <1>8 DEF Launch, DeadPane
    <2> QED
      BY <1>2, <1>3, <2>1
  <1>9. ASSUME NEW s \in Sessions, UserCreatesPane(s)
        PROVE  \A t \in Targets : PaneAges(t)
    <2> DEFINE q == [DeadPane EXCEPT !.live = TRUE, !.user = TRUE,
                                     !.inc = pane[UserTarget(s)].inc + 1]
    <2>1. pane' = [pane EXCEPT ![UserTarget(s)] = q] /\ q.inc = pane[UserTarget(s)].inc + 1
      BY <1>9 DEF UserCreatesPane, DeadPane
    <2>2. UserTarget(s) \in Targets
      BY DEF UserTarget, Targets
    <2> QED
      BY <1>2, <2>1, <2>2
  <1>10. ASSUME NEW t \in Targets, PaneExits(t) \/ PrintsSignature(t)
         PROVE  \A u \in Targets : PaneAges(u)
    BY <1>2, <1>4, <1>10 DEF PaneExits, PrintsSignature
  <1> QED
    BY <1>1, <1>6, <1>7, <1>8, <1>9, <1>10, PaneWriters

(* The watch of one session: it only samples under the host lease, and     *)
(* learns a version from the row or from a list no newer than the row.     *)
WatchAges(s) ==
    /\ watch'[s].ver <= row'[s].ver
    /\ \/ watch'[s].phase # "commit"
       \/ watch'[s] = watch[s]
       \/ /\ row' = row /\ pane' = pane
          /\ watch'[s].inc = row[s].inc
          /\ LET q == pane[watch'[s].target] IN ~(q.live /\ ~q.sig)

LEMMA WatchesAge ==
    ASSUME TypeOK, LeaseInv, AgesOrdered, [Next]_vars
    PROVE  \A s \in Sessions : WatchAges(s)
  <1>0. \A s \in Sessions :
           /\ row[s].ver \in Nat /\ row'[s].ver \in Nat /\ row[s].ver <= row'[s].ver
           /\ watch[s] \in Watches /\ watch[s].ver \in Nat /\ seen.rows[s].ver \in Nat
    <2>1. TypeOK'
      BY NextTyped
    <2>2. \A s \in Sessions : row[s].ver \in Nat /\ row'[s].ver \in Nat /\ seen.rows[s].ver \in Nat
      BY <2>1, RowsTyped DEF TypeOK, RowsOK
    <2>3. \A s \in Sessions : watch[s] \in Watches /\ watch[s].ver \in Nat
      BY DEF TypeOK, Watches
    <2> QED
      BY <2>2, <2>3, RowsAge DEF RowAges
  <1>1. ASSUME NEW s \in Sessions, watch'[s] = watch[s]
        PROVE  WatchAges(s)
    BY <1>0, <1>1 DEF AgesOrdered, WatchAges
  <1>2. ASSUME NEW s \in Sessions, watch'[s].ver = 0, watch'[s].phase # "commit"
        PROVE  WatchAges(s)
    BY <1>0, <1>2 DEF WatchAges
  <1>3. NoWatch.ver = 0 /\ NoWatch.phase # "commit"
        /\ [NoWatch EXCEPT !.phase = "ended"].ver = 0
        /\ [NoWatch EXCEPT !.phase = "ended"].phase # "commit"
    BY DEF NoWatch
  <1>4. CASE Crash
    BY <1>2, <1>3, <1>4 DEF Crash
  <1>5. CASE ReconcileApply
    <2>1. TAKE s \in Sessions
    <2>2. watch'[s] = Rewatched(watch[s], seen.rows[s]) /\ row' = row
      BY <1>5 DEF ReconcileApply
    <2>3. CASE watch'[s] \in {watch[s], NoWatch}
      BY <1>1, <1>2, <1>3, <2>3
    <2>4. CASE watch'[s] = [phase |-> "sleep", target |-> seen.rows[s].target,
                            ver |-> seen.rows[s].ver, inc |-> 0]
      BY <2>2, <2>4 DEF AgesOrdered, WatchAges
    <2> QED
      BY <2>2, <2>3, <2>4 DEF Rewatched
  <1>6. ASSUME NEW s \in Sessions, \A q \in Sessions \ {s} : watch'[q] = watch[q], WatchAges(s)
        PROVE  \A q \in Sessions : WatchAges(q)
    BY <1>1, <1>6
  <1>7. ASSUME NEW s \in Sessions, SampleCrash(s)
        PROVE  \A q \in Sessions : WatchAges(q)
    <2>1. watch' = [watch EXCEPT ![s] = [watch[s] EXCEPT !.phase = "commit", !.inc = row[s].inc]]
          /\ row' = row /\ pane' = pane
      BY <1>7 DEF SampleCrash
    <2>2. watch'[s].inc = row[s].inc /\ watch'[s].target = watch[s].target
          /\ watch'[s].ver = watch[s].ver
      BY <1>0, <2>1 DEF Watches, TypeOK
    <2>3. LET q == pane[watch[s].target] IN ~(q.live /\ ~q.sig)
      BY <1>7 DEF SampleCrash
    <2>4. WatchAges(s)
      BY <2>1, <2>2, <2>3 DEF WatchAges, AgesOrdered
    <2> QED
      BY <1>6, <2>1, <2>4 DEF TypeOK
  <1>8. ASSUME NEW s \in Sessions, SampleTool(s)
        PROVE  \A q \in Sessions : WatchAges(q)
    <2>1. watch' = [watch EXCEPT ![s] = [watch[s] EXCEPT !.phase = "patch"]] /\ row' = row
      BY <1>8 DEF SampleTool
    <2>2. watch'[s].phase = "patch" /\ watch'[s].ver = watch[s].ver
      BY <1>0, <2>1 DEF Watches, TypeOK
    <2>3. WatchAges(s)
      BY <2>1, <2>2 DEF WatchAges, AgesOrdered
    <2> QED
      BY <1>6, <2>1, <2>3 DEF TypeOK
  <1>9. ASSUME NEW s \in Sessions, PatchTool(s)
        PROVE  \A q \in Sessions : WatchAges(q)
    <2>1. CASE Exists(s)
      <3>1. /\ row' = [row EXCEPT ![s] = [row[s] EXCEPT !.ver = row[s].ver + 1]]
            /\ watch' = [watch EXCEPT ![s] = [watch[s] EXCEPT !.phase = "sleep",
                                                              !.ver = row[s].ver + 1]]
        BY <1>9, <2>1 DEF PatchTool
      <3>2. row'[s].ver = row[s].ver + 1
        BY <3>1 DEF TypeOK, RowsOK, Rows
      <3>3. watch'[s].phase = "sleep" /\ watch'[s].ver = row[s].ver + 1
        BY <1>0, <3>1 DEF TypeOK, Watches
      <3>4. WatchAges(s)
        BY <1>0, <3>2, <3>3 DEF WatchAges
      <3> QED
        BY <1>6, <3>1, <3>4 DEF TypeOK
    <2>2. CASE ~Exists(s)
      <3>1. row' = row /\ watch' = [watch EXCEPT ![s] = [watch[s] EXCEPT !.phase = "sleep"]]
        BY <1>9, <2>2 DEF PatchTool
      <3>2. watch'[s].phase = "sleep" /\ watch'[s].ver = watch[s].ver
        BY <1>0, <3>1 DEF TypeOK, Watches
      <3>3. WatchAges(s)
        BY <3>1, <3>2 DEF WatchAges, AgesOrdered
      <3> QED
        BY <1>6, <3>1, <3>3 DEF TypeOK
    <2> QED
      BY <2>1, <2>2
  <1>10. ASSUME NEW s \in Sessions, CommitCrash(s)
         PROVE  \A q \in Sessions : WatchAges(q)
    <2>1. watch' = [watch EXCEPT ![s] = [NoWatch EXCEPT !.phase = "ended"]]
      BY <1>10 DEF CommitCrash
    <2>2. WatchAges(s)
      BY <1>2, <1>3, <2>1 DEF TypeOK
    <2> QED
      BY <1>6, <2>1, <2>2 DEF TypeOK
  <1>11. CASE watch' = watch
    BY <1>1, <1>11
  <1> QED
    BY <1>4, <1>5, <1>7, <1>8, <1>9, <1>10, <1>11, WatchWriters

(* When the compare-and-set would succeed no write came since the sample,  *)
(* and a pane that took the name since is another one.                     *)
LEMMA NextCrashes == TypeOK /\ LeaseInv /\ CrashInv /\ [Next]_vars => CrashInv'
  <1> SUFFICES ASSUME TypeOK, LeaseInv, CrashInv, [Next]_vars PROVE CrashInv'
    OBVIOUS
  <1>0. TypeOK' /\ AgesOrdered
    BY NextTyped DEF CrashInv
  <1>1. ASSUME NEW s \in Sessions
        PROVE  RowAges(s) /\ WatchAges(s) /\ (row[s].target \in Targets => PaneAges(row[s].target))
               /\ (row'[s].target \in Targets => PaneAges(row'[s].target))
    BY <1>0, RowsAge, WatchesAge, PanesAge
  <1>2. ASSUME NEW s \in Sessions
        PROVE  /\ row[s] \in Rows /\ row'[s] \in Rows
               /\ row[s].ver \in Nat /\ row[s].inc \in Nat
               /\ row'[s].ver \in Nat /\ row'[s].inc \in Nat
               /\ row[s].status = "running" => row[s].target \in Targets
               /\ row'[s].status = "running" => row'[s].target \in Targets
               /\ watch[s].ver \in Nat /\ watch'[s].ver \in Nat
               /\ seen.rows[s].ver \in Nat /\ seen'.rows[s].ver \in Nat
    BY <1>0, RowsTyped DEF TypeOK, RowsOK, Watches
  <1>3. \A t \in Targets : pane[t].inc \in Nat /\ pane'[t].inc \in Nat
    BY <1>0 DEF TypeOK, Panes
  <1>4. ASSUME NEW s \in Sessions PROVE seen'.rows[s].ver <= row'[s].ver
    <2>1. CASE seen' = seen
      BY <1>0, <1>1, <1>2, <2>1 DEF RowAges, AgesOrdered
    <2>2. CASE seen' = NothingSeen
      BY <1>2, <2>2 DEF NothingSeen, NoRow
    <2>3. CASE ReconcileList
      <3>1. row' = row /\ seen'.rows[s] = Listed(row[s])
        BY <2>3 DEF ReconcileList
      <3>2. Listed(row[s]).ver \in {row[s].ver, 0}
        BY <1>2 DEF Listed, NoRow, Rows
      <3> QED
        BY <1>2, <3>1, <3>2
    <2> QED
      BY <2>1, <2>2, <2>3, SeenWriters DEF Crash, ReconcileApply
  <1>5. AgesOrdered'
    <2>1. ASSUME NEW s \in Sessions, row'[s].status = "running"
          PROVE  row'[s].inc <= pane'[row'[s].target].inc
      <3>1. row'[s].inc <= pane[row'[s].target].inc
        BY <1>0, <1>1, <2>1 DEF RowAges, AgesOrdered
      <3>2. pane[row'[s].target].inc <= pane'[row'[s].target].inc
        BY <1>1, <1>2, <1>3, <2>1 DEF PaneAges
      <3> QED
        BY <1>2, <1>3, <2>1, <3>1, <3>2
    <2>2. ASSUME NEW s \in Sessions
          PROVE  /\ row'[s].status = "unborn" => row'[s].ver = 0
                 /\ ~Exists(s)' => row'[s].target = NoTarget
      BY <1>0, <1>1 DEF RowAges, AgesOrdered, Exists
    <2> QED
      BY <1>1, <1>4, <2>1, <2>2 DEF AgesOrdered, WatchAges
  <1>6. ASSUME NEW s \in Sessions, watch'[s].phase = "commit", Matches(row'[s], watch'[s])
        PROVE  /\ row'[s].inc = watch'[s].inc
               /\ LET q == pane'[row'[s].target] IN ~(q.live /\ ~q.sig /\ q.inc = row'[s].inc)
    <2>1. row'[s].status = "running" /\ row'[s].target = watch'[s].target
          /\ row'[s].ver = watch'[s].ver
      BY <1>6 DEF Matches
    <2>2. CASE watch'[s] = watch[s]
      <3>1. row'[s].ver <= row[s].ver
        BY <1>0, <2>1, <2>2 DEF AgesOrdered
      <3>2. row'[s] = row[s]
        BY <1>1, <1>2, <2>1, <3>1 DEF RowAges
      <3>3. /\ row[s].inc = watch[s].inc
            /\ LET q == pane[row[s].target] IN ~(q.live /\ ~q.sig /\ q.inc = row[s].inc)
        BY <1>6, <2>2, <3>2 DEF CrashInv, CrashCommitIsCurrent
      <3>4. row[s].inc <= pane[row[s].target].inc
        BY <1>0, <2>1, <3>2 DEF AgesOrdered
      <3>5. PaneAges(row[s].target) /\ row[s].target \in Targets
        BY <1>1, <1>2, <2>1, <3>2
      <3> DEFINE t == row[s].target
      <3>6. pane[t].inc \in Nat /\ pane'[t].inc \in Nat /\ row[s].inc \in Nat
        BY <1>2, <1>3, <3>2, <3>5
      <3>7. ~(pane'[t].live /\ ~pane'[t].sig /\ pane'[t].inc = row[s].inc)
        <4>1. CASE pane'[t].inc > pane[t].inc
          BY <3>4, <3>6, <4>1
        <4>2. CASE pane'[t].inc = pane[t].inc /\ (pane'[t].live => pane[t].live /\ (pane[t].sig => pane'[t].sig))
          BY <3>3, <4>2
        <4> QED
          BY <3>5, <3>6, <4>1, <4>2 DEF PaneAges
      <3> QED
        BY <2>2, <3>2, <3>3, <3>7
    <2>3. CASE /\ row' = row /\ pane' = pane
               /\ watch'[s].inc = row[s].inc
               /\ LET q == pane[watch'[s].target] IN ~(q.live /\ ~q.sig)
      BY <2>1, <2>3
    <2> QED
      BY <1>1, <1>6, <2>2, <2>3 DEF WatchAges
  <1> QED
    BY <1>5, <1>6 DEF CrashInv, CrashCommitIsCurrent

LEMMA InitCrashes == Init => CrashInv
  <1> SUFFICES ASSUME Init PROVE CrashInv
    OBVIOUS
  <1>1. TypeOK
    BY InitTyped
  <1>2. ASSUME NEW s \in Sessions
        PROVE  /\ row[s].ver \in Nat /\ row[s].inc = 0
               /\ row[s].status = "unborn" => row[s].ver = 0
               /\ ~Exists(s) => row[s].target = NoTarget
    <2>1. PICK left \in [Sessions -> {"unborn", "idle", "running", "external"}] :
             row = [q \in Sessions |-> LeftRow(q, left[q])]
      BY DEF Init
    <2>2. row[s] = LeftRow(s, left[s])
      BY <2>1
    <2>3. LeftRow(s, left[s]).inc = 0 /\ LeftRow(s, left[s]).ver \in {0, 1}
      BY DEF LeftRow, ExternalRow, NoRow
    <2>4. CASE left[s] \in {"running", "external"}
      BY <2>2, <2>3, <2>4 DEF LeftRow, ExternalRow, NoRow, Exists
    <2>5. CASE left[s] \in {"unborn", "idle"}
      <3>1. LeftRow(s, left[s]) = [NoRow EXCEPT !.status = left[s]]
        BY <2>5 DEF LeftRow
      <3> QED
        BY <2>2, <3>1, ConstantsTyped DEF NoRow
    <2> QED
      BY <2>1, <2>4, <2>5
  <1>3. ASSUME NEW s \in Sessions PROVE watch[s] = NoWatch /\ seen.rows[s] = NoRow
    BY DEF Init, NothingSeen
  <1>4. NoWatch.ver = 0 /\ NoWatch.phase = "off" /\ NoRow.ver = 0
    BY DEF NoWatch, NoRow
  <1>5. ASSUME NEW s \in Sessions, row[s].status = "running" PROVE row[s].inc <= pane[row[s].target].inc
    <2>1. pane[row[s].target].inc \in Nat
      BY <1>1, <1>5, RowsTyped DEF TypeOK, RowsOK, Panes
    <2> QED
      BY <1>2, <2>1
  <1> QED
    BY <1>2, <1>3, <1>4, <1>5 DEF CrashInv, AgesOrdered, CrashCommitIsCurrent

LEMMA CrashesKnown == Spec => []CrashInv
  <1>1. Init => CrashInv
    BY InitCrashes
  <1>2. TypeOK /\ LeaseInv /\ CrashInv /\ [Next]_vars => CrashInv'
    BY NextCrashes
  <1> QED
    BY <1>1, <1>2, TypeCorrect, LeasesHold, PTL DEF Spec

(* The watchdog's compare-and-set on a stale sample fails: a crash observed*)
(* before a stop, a restart or a reattach never retires what came after.   *)
THEOREM CrashIsCurrent == Spec => []CrashCommitIsCurrent
  <1>1. CrashInv => CrashCommitIsCurrent
    BY DEF CrashInv
  <1> QED
    BY <1>1, CrashesKnown, PTL

-------------------------------------------------------------------------------
(* A handler's place, request and snapshot change by its own step only.    *)
Mine(q) ==
    \A p \in Procs \ {q} : pc'[p] = pc[p] /\ req'[p] = req[p] /\ snap'[p] = snap[p]

LEMMA StepIsOwn ==
    ASSUME TypeOK, NEW q \in Procs, NEW s \in Sessions,
           \/ \E op \in Ops : Request(q, op, s) \/ RequestNew(q, op, s)
           \/ Acquire(q, s) \/ Advance(q, s) \/ Faulty(q, s)
    PROVE  Mine(q)
  <1>1. Finish(q) => Mine(q)
    BY DEF Finish, Mine, TypeOK
  <1>2. ASSUME NEW l, pc' = [pc EXCEPT ![q] = l], req' = req,
               snap' = snap \/ \E r : snap' = [snap EXCEPT ![q] = r]
        PROVE  Mine(q)
    BY <1>2 DEF Mine, TypeOK
  <1>3. CASE \E op \in Ops : Request(q, op, s) \/ RequestNew(q, op, s)
    BY <1>3 DEF Request, RequestNew, Mine, TypeOK
  <1>4. CASE Acquire(q, s) \/ EnterHandoff(q, s) \/ Adopt(q, s)
    BY <1>2, <1>4 DEF Acquire, AcquireHost, AcquireSession, EnterHandoff, Adopt
  <1>5. CASE \/ PassGate(q, s) \/ StartProbe(q, s) \/ RotateKill(q, s) \/ RotateIdle(q, s)
             \/ Launch(q, s) \/ MarkGeneration(q, s) \/ StopProbe(q, s) \/ Kill(q, s)
             \/ DeleteUntorn(q, s) \/ Verify(q, s) \/ MarkOwner(q, s)
    <2>1. \E l : Goto(q, l)
      BY <1>5 DEF PassGate, StartProbe, RotateKill, RotateIdle, Launch, MarkGeneration, StopProbe,
                  Kill, DeleteUntorn, Verify, MarkOwner
    <2>2. snap' = snap \/ \E r : snap' = [snap EXCEPT ![q] = r]
      BY <1>5 DEF PassGate, StartProbe, RotateKill, RotateIdle, Launch, MarkGeneration, StopProbe,
                  Kill, DeleteUntorn, Verify, MarkOwner
    <2> QED
      BY <1>2, <2>1, <2>2 DEF Goto
  <1>6. CASE Insert(q, s)
    <2>1. \/ Finish(q)
          \/ (\E l : Goto(q, l)) /\ (snap' = snap \/ \E r : snap' = [snap EXCEPT ![q] = r])
      BY <1>6 DEF Insert
    <2> QED
      BY <1>1, <1>2, <2>1 DEF Goto
  <1>7. CASE Record(q, s)
    <2>1. Finish(q) \/ (Goto(q, "cleanup") /\ snap' = snap)
      BY <1>7 DEF Record
    <2> QED
      BY <1>1, <1>2, <2>1 DEF Goto
  <1>8. CASE \/ Refused(q, s) \/ VerifyConflict(q, s) \/ Reattach(q, s) \/ NameTaken(q, s)
             \/ MarkGone(q, s) \/ Commit(q, s) \/ Cleanup(q, s) \/ AttachArm(q, s)
             \/ PatchFlags(q, s) \/ (\E n \in Names : Patch(q, s, n)) \/ CallFails(q, s)
             \/ LaunchFails(q, s) \/ MarkFails(q, s) \/ CommitFails(q, s) \/ ClientGone(q, s)
    <2>1. Finish(q)
      BY <1>8 DEF Refused, VerifyConflict, Reattach, NameTaken, MarkGone, Commit, Cleanup,
                  AttachArm, PatchFlags, Patch, CallFails, LaunchFails, MarkFails, CommitFails,
                  ClientGone
    <2> QED
      BY <1>1, <2>1
  <1> QED
    BY <1>3, <1>4, <1>5, <1>6, <1>7, <1>8 DEF Advance, Faulty, Acquire

LEMMA PlaceWriters ==
    ASSUME TypeOK, [Next]_vars, NEW p \in Procs, pc[p] # "idle",
           ~(pc'[p] = pc[p] /\ req'[p] = req[p] /\ snap'[p] = snap[p])
    PROVE  \/ Crash
           \/ \E s \in Sessions : Acquire(p, s) \/ Advance(p, s) \/ Faulty(p, s)
  <1>1. CASE Startup
    <2>1. pc[Boot] = "idle" /\ Mine(Boot)
      BY <1>1 DEF Startup, BootList, BootListRunning, BootDone, BootNext, control, Mine, TypeOK
    <2> QED
      BY <2>1 DEF Mine
  <1>2. CASE Watchdog \/ (World /\ ~Crash) \/ UNCHANGED vars
    <2>1. pc' = pc /\ req' = req /\ snap' = snap
      BY <1>2 DEF Watchdog, ReconcileList, ReconcileApply, SampleCrash, SampleTool, PatchTool,
                  CommitCrash, World, PaneExits, PrintsSignature, UserCreatesPane, control, vars
    <2> QED
      BY <2>1
  <1>3. ASSUME NEW q \in Procs, NEW s \in Sessions,
               \/ \E op \in Ops : Request(q, op, s) \/ RequestNew(q, op, s)
               \/ Acquire(q, s) \/ Advance(q, s) \/ Faulty(q, s)
        PROVE  Acquire(p, s) \/ Advance(p, s) \/ Faulty(p, s)
    <2>1. Mine(q)
      BY <1>3, StepIsOwn
    <2>2. q = p
      BY <2>1 DEF Mine
    <2> QED
      BY <1>3, <2>2 DEF Request, RequestNew
  <1> QED
    BY <1>1, <1>2, <1>3 DEF Next, Handlers, World

(* Failed calls, hung-up clients and daemon crashes are only ever counted. *)
LEMMA MishapsGrow ==
    ASSUME TypeOK, [Next]_vars
    PROVE  /\ used.drops \in Nat /\ used.faults \in Nat /\ used.crashes \in Nat
           /\ used'.drops \in Nat /\ used'.faults \in Nat /\ used'.crashes \in Nat
           /\ used'.drops >= used.drops /\ used'.faults >= used.faults
           /\ used'.crashes >= used.crashes
           /\ (\E p \in Procs, s \in Sessions : ClientGone(p, s)) => used'.drops > used.drops
           /\ (\E p \in Procs, s \in Sessions :
                  \/ CallFails(p, s) \/ LaunchFails(p, s) \/ MarkFails(p, s) \/ CommitFails(p, s)
                  \/ DeleteUntorn(p, s)) => used'.faults > used.faults
           /\ Crash => used'.crashes > used.crashes
  <1>0. used \in Usage /\ used.drops \in Nat /\ used.faults \in Nat /\ used.crashes \in Nat
    BY DEF TypeOK, Usage
  <1>1. ASSUME NEW p \in Procs, NEW s \in Sessions, ClientGone(p, s)
        PROVE  used' = [used EXCEPT !.drops = @ + 1]
    BY <1>1 DEF ClientGone
  <1>2. ASSUME NEW p \in Procs, NEW s \in Sessions,
               \/ CallFails(p, s) \/ LaunchFails(p, s) \/ MarkFails(p, s) \/ CommitFails(p, s)
               \/ DeleteUntorn(p, s)
        PROVE  used' = [used EXCEPT !.faults = @ + 1]
    BY <1>2 DEF CallFails, LaunchFails, MarkFails, CommitFails, DeleteUntorn, Fault
  <1>3. Crash => used' = [used EXCEPT !.crashes = @ + 1]
    BY DEF Crash
  <1>4. \/ used' = used
        \/ used' = [used EXCEPT !.requests = @ + 1] \/ used' = [used EXCEPT !.launches = @ + 1]
        \/ used' = [used EXCEPT !.tools = @ + 1] \/ used' = [used EXCEPT !.users = @ + 1]
        \/ used' = [used EXCEPT !.drops = @ + 1] \/ used' = [used EXCEPT !.faults = @ + 1]
        \/ used' = [used EXCEPT !.crashes = @ + 1]
    <2>1. ASSUME NEW p \in Procs, NEW s \in Sessions,
                 \/ \E op \in Ops : Request(p, op, s) \/ RequestNew(p, op, s)
                 \/ Acquire(p, s) \/ Advance(p, s)
          PROVE  \/ used' = used \/ used' = [used EXCEPT !.requests = @ + 1]
                 \/ used' = [used EXCEPT !.launches = @ + 1]
      BY <2>1 DEF Request, RequestNew, Acquire, AcquireHost, AcquireSession, Advance, EnterHandoff,
                  Insert, Adopt, PassGate, Refused, StartProbe, Verify, VerifyConflict, RotateKill,
                  RotateIdle, Reattach, Launch, NameTaken, MarkOwner, MarkGeneration, MarkGone,
                  Commit, StopProbe, Kill, Record, Cleanup, AttachArm, PatchFlags, Patch
    <2>2. CASE Startup \/ Watchdog \/ (World /\ ~Crash) \/ UNCHANGED vars
      BY <2>2 DEF Startup, BootList, BootListRunning, BootDone, BootNext, World, PaneExits,
                  PrintsSignature, UserCreatesPane, vars, Watchdog, ReconcileList, ReconcileApply,
                  SampleCrash, SampleTool, PatchTool, CommitCrash
    <2> QED
      BY <1>1, <1>2, <1>3, <2>1, <2>2 DEF Next, Handlers, Faulty, World
  <1> DEFINE Grown == /\ used'.drops \in Nat /\ used'.faults \in Nat /\ used'.crashes \in Nat
                      /\ used'.drops >= used.drops /\ used'.faults >= used.faults
                      /\ used'.crashes >= used.crashes
  <1>5. ASSUME \/ used' = used \/ used' = [used EXCEPT !.requests = @ + 1]
               \/ used' = [used EXCEPT !.launches = @ + 1] \/ used' = [used EXCEPT !.tools = @ + 1]
               \/ used' = [used EXCEPT !.users = @ + 1]
        PROVE  Grown
    <2>1. used'.drops = used.drops /\ used'.faults = used.faults /\ used'.crashes = used.crashes
      BY <1>0, <1>5 DEF Usage
    <2> QED
      BY <1>0, <2>1
  <1>6. used' = [used EXCEPT !.drops = @ + 1] => Grown /\ used'.drops > used.drops
    BY <1>0 DEF Usage
  <1>7. used' = [used EXCEPT !.faults = @ + 1] => Grown /\ used'.faults > used.faults
    BY <1>0 DEF Usage
  <1>8. used' = [used EXCEPT !.crashes = @ + 1] => Grown /\ used'.crashes > used.crashes
    BY <1>0 DEF Usage
  <1>9. Grown
    BY <1>4, <1>5, <1>6, <1>7, <1>8
  <1> HIDE DEF Grown
  <1>10. (\E p \in Procs, s \in Sessions : ClientGone(p, s)) => used'.drops > used.drops
    BY <1>1, <1>6
  <1>11. (\E p \in Procs, s \in Sessions :
            \/ CallFails(p, s) \/ LaunchFails(p, s) \/ MarkFails(p, s) \/ CommitFails(p, s)
            \/ DeleteUntorn(p, s)) => used'.faults > used.faults
    BY <1>2, <1>7
  <1>12. Crash => used'.crashes > used.crashes
    BY <1>3, <1>8
  <1> QED
    BY <1>0, <1>9, <1>10, <1>11, <1>12 DEF Grown

-------------------------------------------------------------------------------
(* Until a handler is dropped: a hook token belongs to a session that was  *)
(* created, and one of a stopped session is about to be taken back or to   *)
(* be confirmed by the new pane's commit.                                  *)
HookInv ==
    used.drops = 0 =>
        \A s \in Sessions : s \in hook =>
            /\ row[s].status # "unborn"
            /\ row[s].status = "stopped" =>
                  \E p \in Procs : pc[p] \in {"commit", "cleanup"} /\ req[p].sess = s

LEMMA HookWriters ==
    ASSUME [Next]_vars, NEW s \in Sessions, s \in hook'
    PROVE  s \in hook \/ \E p \in Procs : Launch(p, s)
  <1>1. ASSUME NEW p \in Procs, NEW q \in Sessions, Advance(p, q)
        PROVE  s \in hook \/ Launch(p, s)
    BY <1>1 DEF Advance, EnterHandoff, Insert, Adopt, PassGate, Refused, StartProbe, Verify,
                VerifyConflict, RotateKill, RotateIdle, Reattach, Launch, NameTaken, MarkOwner,
                MarkGeneration, MarkGone, Commit, StopProbe, Kill, Record, Cleanup, AttachArm,
                PatchFlags, Patch
  <1>2. ASSUME NEW p \in Procs, NEW q \in Sessions,
               \/ \E op \in Ops : Request(p, op, q) \/ RequestNew(p, op, q)
               \/ Acquire(p, q) \/ Faulty(p, q)
        PROVE  s \in hook
    BY <1>2 DEF Request, RequestNew, Acquire, AcquireHost, AcquireSession, Faulty, CallFails,
                LaunchFails, MarkFails, CommitFails, DeleteUntorn, ClientGone
  <1>3. CASE Startup \/ Watchdog \/ World \/ UNCHANGED vars
    BY <1>3 DEF Startup, BootList, BootListRunning, BootDone, BootNext, World, Crash, PaneExits,
                PrintsSignature, UserCreatesPane, vars, Watchdog, ReconcileList, ReconcileApply,
                SampleCrash, SampleTool, PatchTool, CommitCrash
  <1> QED
    BY <1>1, <1>2, <1>3 DEF Next, Handlers

(* How a session comes to be stopped. *)
LEMMA StopWriters ==
    ASSUME TypeOK, LeaseInv, AgesOrdered, [Next]_vars, NEW s \in Sessions,
           row'[s].status = "stopped", row[s].status # "stopped"
    PROVE  \/ row[s].status = "unborn" /\ hook' = hook
           \/ \E p \in Procs : pc'[p] = "cleanup" /\ req'[p].sess = s
  <1>0. row \in [Sessions -> Rows] /\ \A p \in Procs : Target(p) \in Targets
    BY TargetsTyped DEF TypeOK, RowsOK, Target
  <1>1. PICK q \in Sessions :
           \/ PatchTool(q) \/ CommitCrash(q)
           \/ \E p \in Procs :
                 \/ Insert(p, q) \/ RotateIdle(p, q) \/ Reattach(p, q) \/ Commit(p, q)
                 \/ Record(p, q) \/ AttachArm(p, q) \/ PatchFlags(p, q)
                 \/ \E n \in Names : Patch(p, q, n)
    BY RowWriters
  <1>2. CASE PatchTool(q) \/ \E p \in Procs : PatchFlags(p, q) \/ \E n \in Names : Patch(p, q, n)
    BY <1>2, PatchesTouch DEF Touched
  <1>3. ASSUME NEW st \in Statuses \ {"stopped"}, NEW t \in Targets \cup {NoTarget}, NEW i \in Nat
        PROVE  ~SetRow(q, st, t, i)
    BY <1>3, SetRowWrites
  <1>4. /\ \A t \in Targets : pane[t].inc \in Nat
        /\ row[q].inc \in Nat /\ UserTarget(q) \in Targets
    BY <1>0, RowsTyped, TargetsTyped DEF TypeOK, Panes, UserTarget, Targets
  <1>5. CASE \/ CommitCrash(q)
             \/ \E p \in Procs : RotateIdle(p, q) \/ Reattach(p, q) \/ Commit(p, q) \/ AttachArm(p, q)
    <2>1. \/ SetRow(q, "crashed", NoTarget, row[q].inc) \/ SetRow(q, "idle", NoTarget, row[q].inc)
          \/ \E t \in Targets : SetRow(q, "running", t, pane[t].inc)
      BY <1>0, <1>4, <1>5 DEF CommitCrash, RotateIdle, Reattach, Commit, AttachArm
    <2> QED
      BY <1>3, <1>4, <2>1 DEF Statuses
  <1>6. ASSUME NEW p \in Procs, Insert(p, q)
        PROVE  row[s].status = "unborn" /\ hook' = hook
    <2>1. PrivateTo(p) /\ OpFits(req[p].op, "insert") /\ pc[p] = "insert" /\ req[p].sess = q
      BY <1>6 DEF LeaseInv, NewIdIsPrivate, OpsInPlace, Insert, At
    <2>2. UserTarget(q) # NoTarget
      BY ConstantsTyped, <1>4
    <2>3. /\ \A x \in Sessions \ {q} : row'[x] = row[x]
          /\ \/ row' = row \/ row[q].status = "unborn"
             \/ row[q].target = UserTarget(q) /\ ~Exists(q)
      <3>1. CASE req[p].op = "attach"
        BY <1>0, <1>6, <3>1 DEF Insert
      <3>2. CASE req[p].op # "attach"
        BY <1>0, <1>6, <2>1, <3>2 DEF Insert, PrivateTo, OpFits
      <3> QED
        BY <3>1, <3>2
    <2>4. row[s].status = "unborn"
      BY <2>2, <2>3 DEF AgesOrdered
    <2> QED
      BY <1>6, <2>4 DEF Insert
  <1>7. ASSUME NEW p \in Procs, Record(p, q)
        PROVE  pc'[p] = "cleanup" /\ req'[p].sess = s
    <2>1. CASE req[p].op \in DeleteOps
      <3>1. row' = [row EXCEPT ![q] = DeletedRow(row[q].ver)]
        BY <1>7, <2>1 DEF Record
      <3>2. DeletedRow(row[q].ver).status = "deleted"
        BY DEF DeletedRow, NoRow
      <3> QED
        BY <1>0, <3>1, <3>2
    <2>2. CASE req[p].op \notin DeleteOps
      <3>1. /\ SetRow(q, "stopped", IF snap[p].ext THEN Target(p) ELSE NoTarget, row[q].inc)
            /\ Goto(p, "cleanup") /\ req[p].sess = q
        BY <1>7, <2>2 DEF Record, At
      <3>2. \A x \in Sessions \ {q} : row'[x] = row[x]
        BY <3>1 DEF SetRow, TypeOK, RowsOK
      <3>3. s = q
        BY <3>2
      <3> QED
        BY <3>1, <3>3 DEF Goto, TypeOK
    <2> QED
      BY <2>1, <2>2
  <1> QED
    BY <1>1, <1>2, <1>5, <1>6, <1>7

LEMMA NextHooks ==
    ASSUME TypeOK, LeaseInv, AgesOrdered, HookInv, [Next]_vars
    PROVE  HookInv'
  <1> SUFFICES ASSUME used'.drops = 0, NEW s \in Sessions, s \in hook'
               PROVE  /\ row'[s].status # "unborn"
                      /\ row'[s].status = "stopped" =>
                            \E p \in Procs : pc'[p] \in {"commit", "cleanup"} /\ req'[p].sess = s
    BY DEF HookInv
  <1> USE DEF LoadedPCs, LaunchPCs, StopPCs
  <1>1. used.drops = 0 /\ ~\E p \in Procs, q \in Sessions : ClientGone(p, q)
    BY MishapsGrow
  <1>2. RowAges(s)
    BY RowsAge
  <1>3. ASSUME NEW p \in Procs, Launch(p, s)
        PROVE  row'[s] = row[s] /\ Exists(s) /\ (s \in hook \/ (pc'[p] = "commit" /\ req'[p].sess = s))
    <2>1. SnapshotOf(p)
      BY DEF LeaseInv, SnapshotIsCurrent
    <2> QED
      BY <1>3, <2>1 DEF Launch, At, SnapshotOf, Goto, TypeOK
  <1>4. row[s].status # "unborn"
    BY <1>1, <1>3, HookWriters DEF HookInv, Exists
  <1>5. row'[s].status # "unborn"
    BY <1>2, <1>4 DEF RowAges, Exists
  <1>6. ASSUME row'[s].status = "stopped"
        PROVE  \E p \in Procs : pc'[p] \in {"commit", "cleanup"} /\ req'[p].sess = s
    <2>1. CASE row[s].status # "stopped"
      BY <1>4, <1>6, <2>1, StopWriters
    <2>2. CASE row[s].status = "stopped" /\ s \notin hook
      BY <1>3, <2>2, HookWriters
    <2>3. CASE row[s].status = "stopped" /\ s \in hook
      <3>1. PICK p \in Procs : pc[p] \in {"commit", "cleanup"} /\ req[p].sess = s
        BY <1>1, <2>3 DEF HookInv
      <3>2. CASE pc'[p] = pc[p] /\ req'[p] = req[p]
        BY <3>1, <3>2
      <3>3. CASE ~(pc'[p] = pc[p] /\ req'[p] = req[p])
        <4>1. ~Crash
          BY DEF Crash
        <4>2. PICK q \in Sessions : Acquire(p, q) \/ Advance(p, q) \/ Faulty(p, q)
          BY <3>1, <3>3, <4>1, PlaceWriters
        <4>3. Commit(p, s) \/ CommitFails(p, s) \/ Cleanup(p, s)
          BY <1>1, <3>1, <4>2
             DEF Acquire, AcquireHost, AcquireSession, Advance, EnterHandoff, Insert, Adopt,
                 PassGate, Refused, StartProbe, Verify, VerifyConflict, RotateKill, RotateIdle,
                 Reattach, Launch, NameTaken, MarkOwner, MarkGeneration, MarkGone, Commit,
                 StopProbe, Kill, Record, Cleanup, AttachArm, PatchFlags, Patch, Faulty, At,
                 CallFails, Fallible, LaunchFails, MarkFails, CommitFails, DeleteUntorn
        <4>4. CASE Commit(p, s)
          <5>1. /\ SetRow(s, "running", Target(p), pane[Target(p)].inc)
                /\ Target(p) \in Targets /\ pane[Target(p)].inc \in Nat
            BY <4>4, TargetsTyped DEF Commit, TypeOK, Target, Panes
          <5> QED
            BY <1>6, <5>1, SetRowWrites DEF Statuses
        <4>5. CASE CommitFails(p, s) \/ Cleanup(p, s)
          BY <4>5 DEF CommitFails, Cleanup
        <4> QED
          BY <4>3, <4>4, <4>5
      <3> QED
        BY <3>2, <3>3
    <2> QED
      BY <2>1, <2>2, <2>3
  <1> QED
    BY <1>5, <1>6

(* A stop that is complete takes the pane's hook token with it, and no     *)
(* launch that failed afterwards leaves one behind.                        *)
THEOREM HooksRejected == Spec => []StoppedRejectsHooks
  <1>1. Init => HookInv
    BY DEF Init, HookInv
  <1>2. TypeOK /\ LeaseInv /\ CrashInv /\ HookInv /\ [Next]_vars => HookInv'
    BY NextHooks DEF CrashInv
  <1>3. TypeOK /\ LeaseInv /\ HookInv => StoppedRejectsHooks
    <2> SUFFICES ASSUME TypeOK, LeaseInv, HookInv, used.drops = 0, NEW s \in Sessions,
                        row[s].status = "stopped", s \in hook
                 PROVE  sessLease[s] # NoProc
      BY DEF StoppedRejectsHooks
    <2>1. PICK p \in Procs : pc[p] \in {"commit", "cleanup"} /\ req[p].sess = s
      BY DEF HookInv
    <2>2. sessLease[s] = p
      BY <2>1 DEF LeaseInv, LeasesMatch, LockedPCs, LoadedPCs, LaunchPCs, StopPCs
    <2> QED
      BY <2>2, DistinctAssumption
  <1> QED
    BY <1>1, <1>2, <1>3, TypeCorrect, LeasesHold, CrashesKnown, PTL DEF Spec

-------------------------------------------------------------------------------
(* How a handler comes by what it has loaded: it goes on with it, having   *)
(* perhaps noted the id of its pane; it loads its session under the lease; *)
(* or it has just inserted the row.                                        *)
Loaded == {"adopt"} \cup LoadedPCs
Harmless == {"reattach", "record", "cleanup"}

KeptLoad(p) ==
    /\ pc[p] \in Loaded
    /\ pc'[p] \in Harmless \/ pc[p] \notin Harmless
    /\ snap'[p].target = snap[p].target /\ snap'[p].name = snap[p].name
    /\ snap'[p].ext = snap[p].ext /\ snap'[p].status = snap[p].status

FreshLoad(p) ==
    /\ pc[p] = "locked" /\ row' = row /\ pane' = pane /\ snap'[p] = row[req[p].sess]
    /\ pc'[p] \in {"reattach", "record"} \/ ~row[req[p].sess].ext
    /\ pc'[p] \in {"launch", "verify", "reattach", "record", "kill"}
    /\ pc'[p] = "kill" => ~IsSsh(req[p].sess)

NewLoad(p) == pc'[p] = "adopt" /\ snap'[p] = NewRow

LEMMA StepLoads ==
    ASSUME TypeOK, NEW p \in Procs, NEW s \in Sessions, pc'[p] \in Loaded,
           Acquire(p, s) \/ Advance(p, s) \/ Faulty(p, s)
    PROVE  req'[p] = req[p] /\ (KeptLoad(p) \/ FreshLoad(p) \/ NewLoad(p))
  <1> USE DEF LoadedPCs, LaunchPCs, StopPCs, Loaded, Harmless
  <1>1. ~Finish(p)
    BY DEF Finish, TypeOK
  <1>2. ASSUME NEW l \in PCs, Goto(p, l) PROVE pc'[p] = l /\ req' = req
    BY <1>2 DEF Goto, TypeOK
  <1>3. CASE AcquireHost(p, s) \/ AcquireSession(p, s) \/ EnterHandoff(p, s) \/ PassGate(p, s)
    BY <1>3 DEF AcquireHost, AcquireSession, EnterHandoff, PassGate, Goto, TypeOK
  <1>4. CASE Insert(p, s)
    <2>1. req[p].op = "attach" => Goto(p, "gate")
      BY <1>1, <1>4 DEF Insert
    <2>2. req[p].op # "attach"
      BY <1>2, <2>1 DEF PCs
    <2>3. /\ row' = [row EXCEPT ![s] = NewRow]
          /\ Goto(p, "adopt") /\ snap' = [snap EXCEPT ![p] = row'[s]]
      BY <1>1, <1>4, <2>2 DEF Insert
    <2>4. row'[s] = NewRow
      BY <2>3 DEF TypeOK, RowsOK
    <2> QED
      BY <2>3, <2>4 DEF NewLoad, Goto, TypeOK
  <1>5. CASE Adopt(p, s)
    BY <1>5 DEF Adopt, At, KeptLoad, TypeOK
  <1>6. CASE StartProbe(p, s)
    <2>1. PICK l \in {"launch", "verify", "reattach"} :
             Goto(p, l) /\ (l = "reattach" \/ ~row[s].ext)
      BY <1>6 DEF StartProbe
    <2> QED
      BY <1>2, <1>6, <2>1 DEF StartProbe, At, FreshLoad, PCs, TypeOK
  <1>7. CASE StopProbe(p, s)
    <2>1. PICK l \in {"record", "kill", "verify"} :
             /\ Goto(p, l) /\ (l = "record" \/ ~row[s].ext)
             /\ l = "kill" => ~IsSsh(s)
      BY <1>7 DEF StopProbe, Teardown
    <2> QED
      BY <1>2, <1>7, <2>1 DEF StopProbe, At, FreshLoad, PCs, TypeOK
  <1>8. CASE DeleteUntorn(p, s)
    BY <1>2, <1>8 DEF DeleteUntorn, At, KeptLoad, FreshLoad, PCs, TypeOK
  <1>9. CASE Verify(p, s) \/ MarkOwner(p, s)
    <2>1. Target(p) \in Targets /\ pane[Target(p)].inc \in Nat
      BY TargetsTyped DEF Target, TypeOK, Panes
    <2>2. /\ snap'[p].target = snap[p].target /\ snap'[p].name = snap[p].name
          /\ snap'[p].ext = snap[p].ext /\ snap'[p].status = snap[p].status
      BY <1>9, <2>1, NotedTyped DEF Verify, MarkOwner
    <2> QED
      BY <1>2, <1>9, <2>2 DEF Verify, MarkOwner, At, KeptLoad, PCs, Goto
  <1>10. CASE \/ RotateKill(p, s) \/ RotateIdle(p, s) \/ Launch(p, s) \/ MarkGeneration(p, s)
              \/ Kill(p, s)
    <2>1. snap' = snap /\ pc[p] \in Loaded \ Harmless /\ \E l : Goto(p, l)
      BY <1>10 DEF RotateKill, RotateIdle, Launch, MarkGeneration, Kill, At
    <2> QED
      BY <2>1 DEF KeptLoad, Goto
  <1>11. CASE Record(p, s)
    BY <1>1, <1>2, <1>11 DEF Record, At, KeptLoad, PCs
  <1> QED
    BY <1>1, <1>3, <1>4, <1>5, <1>6, <1>7, <1>8, <1>9, <1>10, <1>11
       DEF Acquire, Advance, Faulty, Refused, VerifyConflict, Reattach, NameTaken, MarkGone,
           Commit, Cleanup, AttachArm, PatchFlags, Patch, CallFails, LaunchFails, MarkFails,
           CommitFails, ClientGone

LEMMA NextLoads ==
    ASSUME TypeOK, [Next]_vars, NEW p \in Procs, pc'[p] \in Loaded
    PROVE  /\ req'[p] = req[p]
           /\ \/ pc'[p] = pc[p] /\ snap'[p] = snap[p]
              \/ KeptLoad(p) \/ FreshLoad(p) \/ NewLoad(p)
  <1>1. ~Crash
    BY DEF Crash, Loaded, LoadedPCs, LaunchPCs, StopPCs
  <1>2. CASE pc'[p] = pc[p] /\ req'[p] = req[p] /\ snap'[p] = snap[p]
    BY <1>2
  <1>3. CASE pc[p] # "idle" /\ ~(pc'[p] = pc[p] /\ req'[p] = req[p] /\ snap'[p] = snap[p])
    <2>1. PICK s \in Sessions : Acquire(p, s) \/ Advance(p, s) \/ Faulty(p, s)
      BY <1>1, <1>3, PlaceWriters
    <2>2. req'[p] = req[p] /\ (KeptLoad(p) \/ FreshLoad(p) \/ NewLoad(p))
      BY <2>1, StepLoads
    <2> QED
      BY <2>2
  <1>4. CASE pc[p] = "idle"
    <2>1. pc'[p] \notin {"idle", "host", "gate"} /\ pc'[p] # pc[p]
      BY <1>4 DEF Loaded, LoadedPCs, LaunchPCs, StopPCs
    <2>2. ~(Watchdog \/ (World /\ ~Crash) \/ UNCHANGED vars)
      BY <2>1 DEF Watchdog, ReconcileList, ReconcileApply, SampleCrash, SampleTool, PatchTool,
                  CommitCrash, World, PaneExits, PrintsSignature, UserCreatesPane, control, vars
    <2>3. ~Startup
      BY <2>1, ConstantsTyped
         DEF Startup, BootList, BootListRunning, BootDone, BootNext, control, TypeOK
    <2>4. PICK q \in Procs, s \in Sessions :
             \/ \E op \in Ops : Request(q, op, s) \/ RequestNew(q, op, s)
             \/ Acquire(q, s) \/ Advance(q, s) \/ Faulty(q, s)
      BY <1>1, <2>2, <2>3 DEF Next, Handlers, World
    <2>5. q = p
      BY <2>1, <2>4, StepIsOwn DEF Mine
    <2>6. ~\E op \in Ops : Request(p, op, s) \/ RequestNew(p, op, s)
      BY <2>1 DEF Request, RequestNew, TypeOK
    <2>7. Acquire(p, s) \/ Advance(p, s) \/ Faulty(p, s)
      BY <2>4, <2>5, <2>6
    <2>8. req'[p] = req[p] /\ (KeptLoad(p) \/ FreshLoad(p) \/ NewLoad(p))
      BY <2>7, StepLoads
    <2> QED
      BY <2>8
  <1> QED
    BY <1>2, <1>3, <1>4

-------------------------------------------------------------------------------
(* Every session works on targets of its own, and no handler that may kill *)
(* a pane loaded an external record.                                       *)
TargetsOwned ==
    /\ \A s \in Sessions : row[s].target = NoTarget \/ row[s].target[2] = s
    /\ \A p \in Procs : pc[p] \in Loaded =>
          /\ snap[p].target = NoTarget \/ snap[p].target[2] = req[p].sess
          /\ pc[p] \notin Harmless => ~snap[p].ext

LEMMA OwnTarget ==
    ASSUME TypeOK, TargetsOwned, NEW p \in Procs, pc[p] \in Loaded
    PROVE  Target(p) \in Targets /\ Target(p) # NoTarget /\ Target(p)[2] = req[p].sess
  <1>1. snap[p] \in Rows /\ req[p].sess \in Sessions
    BY DEF TypeOK
  <1>2. Target(p) \in Targets /\ Target(p) # NoTarget
    BY <1>1, TargetsTyped, ConstantsTyped DEF Target
  <1> QED
    BY <1>1, <1>2 DEF Target, TmuxTarget, ManagedTarget, TargetsOwned

LEMMA NextOwned ==
    ASSUME TypeOK, TargetsOwned, [Next]_vars
    PROVE  TargetsOwned'
  <1> USE DEF LoadedPCs, LaunchPCs, StopPCs, Loaded, Harmless
  <1>1. ASSUME NEW s \in Sessions PROVE row'[s].target = NoTarget \/ row'[s].target[2] = s
    <2>1. CASE row' = row
      BY <2>1 DEF TargetsOwned
    <2>2. ASSUME NEW q \in Sessions, NEW t, t = NoTarget \/ t[2] = q, row'[q].target = t,
                 \A x \in Sessions \ {q} : row'[x] = row[x]
          PROVE  row'[s].target = NoTarget \/ row'[s].target[2] = s
      BY <2>2 DEF TargetsOwned
    <2>3. /\ row \in [Sessions -> Rows] /\ \A t \in Targets : pane[t].inc \in Nat
          /\ \A q \in Sessions : row[q].inc \in Nat /\ UserTarget(q) \in Targets
                                 /\ UserTarget(q)[2] = q
      BY RowsTyped DEF TypeOK, RowsOK, Panes, UserTarget, Targets
    <2>4. CASE row' # row
      <3>1. PICK q \in Sessions :
               \/ PatchTool(q) \/ CommitCrash(q)
               \/ \E p \in Procs :
                     \/ Insert(p, q) \/ RotateIdle(p, q) \/ Reattach(p, q) \/ Commit(p, q)
                     \/ Record(p, q) \/ AttachArm(p, q) \/ PatchFlags(p, q)
                     \/ \E n \in Names : Patch(p, q, n)
        BY <2>4, RowWriters
      <3>2. CASE PatchTool(q) \/ \E p \in Procs : PatchFlags(p, q) \/ \E n \in Names : Patch(p, q, n)
        BY <2>4, <3>2, PatchesTouch DEF Touched, TargetsOwned
      <3>3. ASSUME NEW st \in Statuses, NEW t \in Targets \cup {NoTarget}, NEW i \in Nat,
                   SetRow(q, st, t, i), t = NoTarget \/ t[2] = q
            PROVE  row'[s].target = NoTarget \/ row'[s].target[2] = s
        BY <2>2, <3>3, SetRowWrites
      <3>4. CASE CommitCrash(q) \/ \E p \in Procs : RotateIdle(p, q) \/ AttachArm(p, q)
        <4>1. \/ SetRow(q, "crashed", NoTarget, row[q].inc) \/ SetRow(q, "idle", NoTarget, row[q].inc)
              \/ SetRow(q, "running", UserTarget(q), pane[UserTarget(q)].inc)
          BY <2>4, <3>4 DEF CommitCrash, RotateIdle, AttachArm
        <4> QED
          BY <2>3, <3>3, <4>1 DEF Statuses
      <3>5. ASSUME NEW p \in Procs, Reattach(p, q) \/ Commit(p, q)
            PROVE  row'[s].target = NoTarget \/ row'[s].target[2] = s
        <4>1. /\ SetRow(q, "running", Target(p), pane[Target(p)].inc)
              /\ pc[p] \in Loaded /\ req[p].sess = q
          BY <2>4, <3>5 DEF Reattach, Commit, At
        <4> QED
          BY <2>3, <3>3, <4>1, OwnTarget DEF Statuses
      <3>6. ASSUME NEW p \in Procs, Record(p, q)
            PROVE  row'[s].target = NoTarget \/ row'[s].target[2] = s
        <4>1. CASE req[p].op \in DeleteOps
          <5>1. row' = [row EXCEPT ![q] = DeletedRow(row[q].ver)]
            BY <3>6, <4>1 DEF Record
          <5>2. DeletedRow(row[q].ver).target = NoTarget
            BY DEF DeletedRow, NoRow
          <5> QED
            BY <2>2, <2>3, <5>1, <5>2
        <4>2. CASE req[p].op \notin DeleteOps
          <5>1. PICK t \in {Target(p), NoTarget} : SetRow(q, "stopped", t, row[q].inc)
            BY <3>6, <4>2 DEF Record
          <5>2. pc[p] \in Loaded /\ req[p].sess = q
            BY <3>6 DEF Record, At
          <5> QED
            BY <2>3, <3>3, <5>1, <5>2, OwnTarget DEF Statuses
        <4> QED
          BY <4>1, <4>2
      <3>7. ASSUME NEW p \in Procs, Insert(p, q)
            PROVE  row'[s].target = NoTarget \/ row'[s].target[2] = s
        <4>1. \/ row' = row \/ row' = [row EXCEPT ![q] = NewRow]
              \/ row' = [row EXCEPT ![q] = ExternalRow(q)]
          BY <3>7 DEF Insert
        <4>2. NewRow.target = NoTarget /\ ExternalRow(q).target = UserTarget(q)
          BY DEF NewRow, ExternalRow, NoRow
        <4> QED
          BY <2>1, <2>2, <2>3, <4>1, <4>2
      <3> QED
        BY <3>1, <3>2, <3>4, <3>5, <3>6, <3>7
    <2> QED
      BY <2>1, <2>4
  <1>2. ASSUME NEW p \in Procs, pc'[p] \in Loaded
        PROVE  /\ snap'[p].target = NoTarget \/ snap'[p].target[2] = req'[p].sess
               /\ pc'[p] \notin Harmless => ~snap'[p].ext
    <2>1. NewRow.target = NoTarget /\ ~NewRow.ext
      BY DEF NewRow, NoRow
    <2>2. req[p].sess \in Sessions /\ req'[p] = req[p]
      BY <1>2, NextLoads DEF TypeOK
    <2> QED
      BY <1>2, <2>1, <2>2, NextLoads DEF KeptLoad, FreshLoad, NewLoad, TargetsOwned
  <1> QED
    BY <1>1, <1>2 DEF TargetsOwned

(* A handler that verified or marked an ssh pane knows its id: the pane    *)
(* that has that id carries the owner marker as long as it lives, and one  *)
(* that took the name since has a later id.                                *)
HeldPCs == {"rotate", "markGen", "commit", "kill"}

Owned(q, i) == i <= q.inc /\ (q.live /\ i = q.inc => q.marked)

OwnsPane(p) ==
    pc[p] \in HeldPCs /\ IsSsh(req[p].sess) => Owned(pane[Target(p)], snap[p].inc)

OwnInv == TargetsOwned /\ \A p \in Procs : OwnsPane(p)

LEMMA OwnedStays ==
    ASSUME TypeOK, [Next]_vars, NEW t \in Targets, NEW i \in Nat, Owned(pane[t], i)
    PROVE  Owned(pane'[t], i)
  <1>1. PaneAges(t) /\ pane[t].inc \in Nat /\ pane'[t].inc \in Nat
    BY PanesAge, NextTyped DEF TypeOK, Panes
  <1>2. CASE pane'[t].inc > pane[t].inc
    BY <1>1, <1>2 DEF Owned
  <1>3. CASE /\ pane'[t].inc = pane[t].inc
             /\ pane'[t].live => pane[t].live /\ (pane[t].marked => pane'[t].marked)
    <2>1. pane'[t].live /\ i = pane'[t].inc => pane'[t].marked
      BY <1>3 DEF Owned
    <2> QED
      BY <1>3, <2>1 DEF Owned
  <1> QED
    BY <1>1, <1>2, <1>3 DEF PaneAges

LEMMA NextOwns ==
    ASSUME TypeOK, OwnInv, [Next]_vars, NEW p \in Procs
    PROVE  OwnsPane(p)'
  <1> USE DEF LoadedPCs, LaunchPCs, StopPCs, Loaded, Harmless, HeldPCs
  <1> SUFFICES ASSUME pc'[p] \in HeldPCs, IsSsh(req'[p].sess)
               PROVE  Owned(pane'[Target(p)'], snap'[p].inc)
    BY DEF OwnsPane
  <1>1. /\ Target(p) \in Targets /\ pane[Target(p)].inc \in Nat /\ pane'[Target(p)].inc \in Nat
        /\ snap[p].inc \in Nat /\ req[p].sess \in Sessions
    <2>1. TypeOK' /\ Target(p) \in Targets
      BY NextTyped, TargetsTyped DEF TypeOK, Target
    <2> QED
      BY <2>1, RowsTyped DEF TypeOK, Panes
  <1>2. req'[p] = req[p]
    BY NextLoads
  <1>3. CASE pc'[p] = pc[p] /\ snap'[p] = snap[p]
    <2>1. Target(p)' = Target(p) /\ OwnsPane(p)
      BY <1>2, <1>3 DEF Target, OwnInv
    <2>2. Owned(pane[Target(p)], snap[p].inc)
      BY <1>2, <1>3, <2>1 DEF OwnsPane
    <2> QED
      BY <1>1, <1>3, <2>1, <2>2, OwnedStays
  <1>4. CASE ~(pc'[p] = pc[p] /\ snap'[p] = snap[p])
    <2>1. pc[p] # "idle" /\ ~Crash
      BY <1>4, NextLoads DEF KeptLoad, FreshLoad, NewLoad, Crash
    <2>2. PICK s \in Sessions : Acquire(p, s) \/ Advance(p, s) \/ Faulty(p, s)
      BY <1>4, <2>1, PlaceWriters
    <2>3. \/ Verify(p, s) \/ MarkOwner(p, s) \/ MarkGeneration(p, s) \/ FreshLoad(p)
          \/ Launch(p, s)
      <3>1. ~Finish(p) /\ \A l : Goto(p, l) => pc'[p] = l
        BY DEF Finish, Goto, TypeOK
      <3>2. KeptLoad(p) \/ FreshLoad(p)
        BY <2>2, StepLoads DEF NewLoad
      <3>3. CASE pc[p] \in Loaded
        BY <2>2, <3>1, <3>3
           DEF Acquire, AcquireHost, AcquireSession, Advance, EnterHandoff, Insert, Adopt, At,
               PassGate, Refused, StartProbe, VerifyConflict, RotateKill, RotateIdle, Reattach,
               NameTaken, MarkGone, Commit, StopProbe, Kill, Record, Cleanup, AttachArm,
               PatchFlags, Patch, Faulty, CallFails, LaunchFails, MarkFails, CommitFails,
               DeleteUntorn, ClientGone, TypeOK
      <3> QED
        BY <3>2, <3>3 DEF KeptLoad
    <2>4. CASE FreshLoad(p)
      BY <1>2, <2>4 DEF FreshLoad
    <2>5. CASE Launch(p, s)
      BY <1>2, <2>5 DEF Launch, At, Goto, TypeOK
    <2>6. CASE Verify(p, s) \/ MarkOwner(p, s)
      <3>1. /\ snap' = [snap EXCEPT ![p].inc = pane[Target(p)].inc]
            /\ pane' = [pane EXCEPT ![Target(p)].marked = TRUE]
        BY <2>6 DEF Verify, MarkOwner
      <3> DEFINE i == pane[Target(p)].inc
      <3>2. i \in Nat /\ snap' = [snap EXCEPT ![p].inc = i]
        BY <1>1, <3>1
      <3> HIDE DEF i
      <3>3. snap'[p].inc = i /\ TmuxTarget(snap'[p], req[p].sess) = TmuxTarget(snap[p], req[p].sess)
        BY <1>1, <3>2, NotedTyped
      <3>4. Target(p)' = Target(p)
        BY <1>2, <3>3 DEF Target
      <3>5. pane'[Target(p)].marked /\ pane'[Target(p)].inc = pane[Target(p)].inc
        BY <1>1, <3>1 DEF TypeOK, Panes
      <3> QED
        BY <1>1, <3>3, <3>4, <3>5 DEF i, Owned
    <2>7. CASE MarkGeneration(p, s)
      <3>1. snap' = snap /\ pc[p] = "markGen" /\ Target(p)' = Target(p)
        BY <1>2, <2>7 DEF MarkGeneration, At, Target
      <3>2. Owned(pane[Target(p)], snap[p].inc)
        BY <1>2, <3>1 DEF OwnInv, OwnsPane
      <3> QED
        BY <1>1, <3>1, <3>2, OwnedStays
    <2> QED
      BY <2>3, <2>4, <2>5, <2>6, <2>7
  <1> QED
    BY <1>3, <1>4

LEMMA NextDestroys == TypeOK /\ LeaseInv /\ OwnInv /\ [Next]_vars => DestroysOwned
  <1> SUFFICES ASSUME TypeOK, LeaseInv, OwnInv, [Next]_vars,
                      NEW t \in Targets, pane'[t].killed, ~pane[t].killed
               PROVE  \E p \in Procs : /\ sessLease[t[2]] = p
                                       /\ IsSsh(t[2]) => pane[t].marked \/ pc[p] = "mark"
    BY DEF DestroysOwned
  <1> USE DEF LoadedPCs, LaunchPCs, StopPCs, Loaded, Harmless, HeldPCs
  <1>0. pane \in [Targets -> Panes] /\ \A p \in Procs : Target(p) \in Targets
    BY TargetsTyped DEF TypeOK, Target
  <1>1. ASSUME NEW u \in Targets, NEW q, pane' = [pane EXCEPT ![u] = q], ~q.killed \/ q.killed = pane[u].killed
        PROVE  FALSE
    BY <1>0, <1>1
  <1>2. ASSUME NEW p \in Procs, KillAt(Target(p)) PROVE t = Target(p) /\ pane[t].live
    BY <1>0, <1>2 DEF KillAt, Dead, Panes
  <1>3. ASSUME NEW p \in Procs, NEW s \in Sessions,
               \/ RotateKill(p, s) \/ Kill(p, s) \/ MarkFails(p, s) \/ CommitFails(p, s)
        PROVE  \E q \in Procs : /\ sessLease[t[2]] = q
                                /\ IsSsh(t[2]) => pane[t].marked \/ pc[q] = "mark"
    <2>1. /\ pc[p] \in HeldPCs \cup {"mark"} /\ req[p].sess = s
          /\ KillHeld(p) \/ RollBack(p)
      BY <1>3 DEF RotateKill, Kill, MarkFails, CommitFails, At
    <2>2. KillAt(Target(p)) /\ (pc[p] = "mark" \/ HoldsPane(p))
      BY <2>1 DEF KillHeld, RollBack
    <2>3. t = Target(p) /\ pane[t].live /\ t[2] = s
      BY <1>2, <2>1, <2>2, OwnTarget DEF OwnInv
    <2>4. sessLease[s] = p
      BY <2>1 DEF LeaseInv, LeasesMatch, LockedPCs
    <2>5. IsSsh(s) => pane[t].marked \/ pc[p] = "mark"
      BY <2>1, <2>2, <2>3 DEF OwnInv, OwnsPane, Owned, TargetsOwned, HoldsPane
    <2> QED
      BY <2>3, <2>4, <2>5
  <1>4. ASSUME NEW p \in Procs, NEW s \in Sessions,
               Verify(p, s) \/ MarkOwner(p, s) \/ MarkGeneration(p, s) \/ Launch(p, s)
        PROVE  FALSE
    <2> DEFINE m == [pane[Target(p)] EXCEPT !.marked = TRUE]
               g == [pane[Target(p)] EXCEPT !.gen = TRUE]
               n == [DeadPane EXCEPT !.live = TRUE, !.inc = pane[Target(p)].inc + 1]
    <2>1. \/ pane' = [pane EXCEPT ![Target(p)] = m] \/ pane' = [pane EXCEPT ![Target(p)] = g]
          \/ pane' = [pane EXCEPT ![Target(p)] = n]
      BY <1>4 DEF Verify, MarkOwner, MarkGeneration, Launch
    <2>2. m.killed = pane[Target(p)].killed /\ g.killed = pane[Target(p)].killed /\ ~n.killed
      BY <1>0 DEF Panes, DeadPane
    <2> HIDE DEF m, g, n
    <2> QED
      BY <1>0, <1>1, <2>1, <2>2
  <1>5. ASSUME NEW s \in Sessions, UserCreatesPane(s) PROVE FALSE
    <2> DEFINE n == [DeadPane EXCEPT !.live = TRUE, !.user = TRUE,
                                     !.inc = pane[UserTarget(s)].inc + 1]
    <2>1. pane' = [pane EXCEPT ![UserTarget(s)] = n] /\ ~n.killed /\ UserTarget(s) \in Targets
      BY <1>5 DEF UserCreatesPane, DeadPane, UserTarget, Targets
    <2> HIDE DEF n
    <2> QED
      BY <1>1, <2>1
  <1>6. ASSUME NEW u \in Targets, PaneExits(u) \/ PrintsSignature(u) PROVE FALSE
    <2> DEFINE d == Dead(pane[u])
               g == [pane[u] EXCEPT !.sig = TRUE]
    <2>1. pane' = [pane EXCEPT ![u] = d] \/ pane' = [pane EXCEPT ![u] = g]
      BY <1>6 DEF PaneExits, PrintsSignature
    <2>2. d.killed = pane[u].killed /\ g.killed = pane[u].killed
      BY <1>0 DEF Panes, Dead
    <2> HIDE DEF d, g
    <2> QED
      BY <1>1, <2>1, <2>2
  <1> QED
    BY <1>3, <1>4, <1>5, <1>6, PaneWriters

LEMMA InitOwns == Init => OwnInv
  <1> SUFFICES ASSUME Init PROVE OwnInv
    OBVIOUS
  <1>1. PICK left \in [Sessions -> {"unborn", "idle", "running", "external"}] :
           row = [s \in Sessions |-> LeftRow(s, left[s])]
    BY DEF Init
  <1>2. ASSUME NEW s \in Sessions PROVE row[s].target = NoTarget \/ row[s].target[2] = s
    <2>1. row[s] = LeftRow(s, left[s])
      BY <1>1
    <2>2. CASE left[s] \in {"running", "external"}
      BY <2>1, <2>2 DEF LeftRow, ExternalRow, NoRow, ManagedTarget, UserTarget
    <2>3. CASE left[s] \in {"unborn", "idle"}
      <3>1. row[s] = [NoRow EXCEPT !.status = left[s]]
        BY <2>1, <2>3 DEF LeftRow
      <3> QED
        BY <3>1 DEF NoRow
    <2> QED
      BY <1>1, <2>2, <2>3
  <1>3. \A p \in Procs : pc[p] = "idle"
    BY DEF Init
  <1> QED
    BY <1>2, <1>3 DEF OwnInv, TargetsOwned, OwnsPane, Loaded, HeldPCs, LoadedPCs, LaunchPCs, StopPCs

LEMMA PanesOwned == Spec => []OwnInv
  <1>1. Init => OwnInv
    BY InitOwns
  <1>2. TypeOK /\ OwnInv /\ [Next]_vars => OwnInv'
    BY NextOwned, NextOwns DEF OwnInv
  <1> QED
    BY <1>1, <1>2, TypeCorrect, PTL DEF Spec

(* migrate_or_verify_remote_tmux_owner before any ssh pane is destroyed:   *)
(* whatever a flag edit, a rename, a failure or another client did since,  *)
(* the daemon only kills a pane under its session's lease, and over ssh    *)
(* only one it launched in this request or found to be the session's own.  *)
THEOREM OnlyOwnedDestroyed == Spec => DestroysOnlyOwned
  <1>1. TypeOK /\ LeaseInv /\ OwnInv /\ [Next]_vars => [DestroysOwned]_vars
    BY NextDestroys
  <1> QED
    BY <1>1, TypeCorrect, LeasesHold, PanesOwned, PTL DEF Spec, DestroysOnlyOwned

-------------------------------------------------------------------------------
(* What the daemon kills, provided that every PATCH of the flags sends the *)
(* external marker back: never a tmux session of the user, and never a     *)
(* pane that the watchdog then takes for a crash.                          *)

UserInv == UserTargetsAreExternal /\ UserPaneNeverKilled

(* What every step does to the panes and to the rows, for UserInv. *)
PanesSpared ==
    \A t \in Targets : (pane[t].user => t[1] = UserName) /\ ~(pane[t].user /\ pane[t].killed)

RowsKept ==
    \A s \in Sessions :
        /\ row'[s].ext \/ Managed(row'[s])
        /\ row'[s].ext \/ ~Exists(s)' \/ (Exists(s) /\ ~row[s].ext)

(* A handler that loaded a managed session works on a managed target. *)
LEMMA ManagedTargets ==
    ASSUME TypeOK, UserInv, NEW p \in Procs, ~snap[p].ext
    PROVE  Target(p) \in Targets /\ Target(p) # NoTarget /\ Target(p)[1] # UserName
  <1>1. snap[p] \in Rows /\ req[p].sess \in Sessions /\ Managed(snap[p])
    BY DEF TypeOK, UserInv, UserTargetsAreExternal, SparesUser
  <1>2. Target(p) \in Targets /\ Target(p) # NoTarget
    BY <1>1, TargetsTyped, ConstantsTyped DEF Target
  <1>3. snap[p].name # UserName
    BY <1>1, RowsTyped, DistinctAssumption
  <1> QED
    BY <1>1, <1>2, <1>3 DEF Target, TmuxTarget, ManagedTarget, Managed

LEMMA KillSpares ==
    ASSUME TypeOK, UserInv, NEW t \in Targets, t[1] # UserName, KillAt(t)
    PROVE  PanesSpared'
  BY KillTyped DEF UserInv, UserTargetsAreExternal, UserPaneNeverKilled, PanesSpared

(* A field of a pane other than user and killed changes. *)
LEMMA FieldSpares ==
    ASSUME TypeOK, UserInv, NEW t \in Targets, NEW q \in Panes,
           q.user = pane[t].user, q.killed = pane[t].killed,
           pane' = [pane EXCEPT ![t] = q]
    PROVE  PanesSpared'
  BY DEF TypeOK, UserInv, UserTargetsAreExternal, UserPaneNeverKilled, PanesSpared

(* A new pane is the daemon's, or the user's own under her own name. *)
LEMMA FreshSpares ==
    ASSUME TypeOK, UserInv, NEW t \in Targets, NEW q \in Panes,
           ~q.killed, q.user => t[1] = UserName,
           pane' = [pane EXCEPT ![t] = q]
    PROVE  PanesSpared'
  BY DEF TypeOK, UserInv, UserTargetsAreExternal, UserPaneNeverKilled, PanesSpared

LEMMA NextSpares ==
    ASSUME TypeOK, LeaseInv, UserInv, [Next]_vars
    PROVE  PanesSpared'
  <1> USE DEF LoadedPCs, LaunchPCs, StopPCs
  <1>1. CASE pane' = pane
    BY <1>1 DEF UserInv, UserTargetsAreExternal, UserPaneNeverKilled, PanesSpared
  <1>2. ASSUME NEW p \in Procs, pc[p] \in LoadedPCs \ {"reattach", "record", "cleanup"}
        PROVE  Target(p) \in Targets /\ Target(p)[1] # UserName /\ pane[Target(p)] \in Panes
    BY <1>2, ManagedTargets DEF UserInv, UserTargetsAreExternal, SparesUser, TypeOK
  <1>3. ASSUME NEW p \in Procs, NEW s \in Sessions,
               \/ RotateKill(p, s) \/ Kill(p, s) \/ MarkFails(p, s) \/ CommitFails(p, s)
        PROVE  PanesSpared'
    <2>1. pane' = pane \/ KillAt(Target(p))
      BY <1>3, HeldKills DEF RotateKill, Kill, MarkFails, CommitFails
    <2>2. pc[p] \in LoadedPCs \ {"reattach", "record", "cleanup"}
      BY <1>3 DEF RotateKill, Kill, MarkFails, CommitFails, At
    <2> QED
      BY <1>1, <1>2, <2>1, <2>2, KillSpares
  <1>4. ASSUME NEW p \in Procs, NEW s \in Sessions,
               Verify(p, s) \/ MarkOwner(p, s) \/ MarkGeneration(p, s)
        PROVE  PanesSpared'
    <2> DEFINE q == pane[Target(p)]
    <2>1. q \in Panes /\ Target(p) \in Targets
      BY <1>2, <1>4 DEF Verify, MarkOwner, MarkGeneration, At
    <2>2. \/ pane' = [pane EXCEPT ![Target(p)] = [q EXCEPT !.marked = TRUE]]
          \/ pane' = [pane EXCEPT ![Target(p)] = [q EXCEPT !.gen = TRUE]]
      BY <1>4 DEF Verify, MarkOwner, MarkGeneration
    <2>3. /\ [q EXCEPT !.marked = TRUE].user = q.user /\ [q EXCEPT !.marked = TRUE].killed = q.killed
          /\ [q EXCEPT !.gen = TRUE].user = q.user /\ [q EXCEPT !.gen = TRUE].killed = q.killed
          /\ [q EXCEPT !.marked = TRUE] \in Panes /\ [q EXCEPT !.gen = TRUE] \in Panes
      BY <2>1 DEF Panes
    <2> QED
      BY <2>1, <2>2, <2>3, FieldSpares
  <1>5. ASSUME NEW p \in Procs, NEW s \in Sessions, Launch(p, s)
        PROVE  PanesSpared'
    <2> DEFINE q == [DeadPane EXCEPT !.live = TRUE, !.inc = pane[Target(p)].inc + 1]
    <2>0. pane[Target(p)].inc + 1 \in Nat
      BY <1>2, <1>5 DEF Launch, At, Panes
    <2>1. q \in Panes /\ q.user = FALSE /\ q.killed = FALSE
      BY <2>0 DEF DeadPane, Panes
    <2>2. pane' = [pane EXCEPT ![Target(p)] = q] /\ Target(p) \in Targets
      BY <1>2, <1>5 DEF Launch, At
    <2> QED
      BY <2>1, <2>2, FreshSpares
  <1>6. ASSUME NEW s \in Sessions, UserCreatesPane(s)
        PROVE  PanesSpared'
    <2> DEFINE t == UserTarget(s)
               q == [DeadPane EXCEPT !.live = TRUE, !.user = TRUE, !.inc = pane[t].inc + 1]
    <2>1. t \in Targets /\ t[1] = UserName
      BY DEF UserTarget, Targets
    <2>2. pane[t].inc \in Nat
      BY <2>1, PanesTyped DEF TypeOK
    <2>3. q \in Panes /\ q.killed = FALSE
      <3>1. pane[t].inc + 1 \in Nat
        BY <2>2
      <3> HIDE DEF t
      <3> QED
        BY <3>1 DEF DeadPane, Panes
    <2>4. pane' = [pane EXCEPT ![t] = q]
      BY <1>6 DEF UserCreatesPane
    <2> QED
      BY <2>1, <2>3, <2>4, FreshSpares
  <1>7. ASSUME NEW t \in Targets, PaneExits(t) \/ PrintsSignature(t)
        PROVE  PanesSpared'
    <2>1. pane[t] \in Panes
      BY DEF TypeOK
    <2>2. /\ [pane[t] EXCEPT !.sig = TRUE] \in Panes /\ Dead(pane[t]) \in Panes
          /\ [pane[t] EXCEPT !.sig = TRUE].user = pane[t].user
          /\ [pane[t] EXCEPT !.sig = TRUE].killed = pane[t].killed
          /\ Dead(pane[t]).user = pane[t].user /\ Dead(pane[t]).killed = pane[t].killed
      BY <2>1 DEF Panes, Dead
    <2>3. \/ pane' = [pane EXCEPT ![t] = [pane[t] EXCEPT !.sig = TRUE]]
          \/ pane' = [pane EXCEPT ![t] = Dead(pane[t])]
      BY <1>7 DEF PaneExits, PrintsSignature
    <2> QED
      BY <2>2, <2>3, FieldSpares
  <1>8. CASE Startup \/ Watchdog \/ Crash \/ UNCHANGED vars
    <2>1. pane' = pane
      BY <1>8 DEF Startup, BootList, BootListRunning, BootDone, BootNext, Crash, vars,
                  Watchdog, ReconcileList, ReconcileApply, SampleCrash, SampleTool, PatchTool,
                  CommitCrash
    <2> QED
      BY <1>1, <2>1
  <1>9. ASSUME NEW p \in Procs, NEW s \in Sessions,
               \/ \E op \in Ops : Request(p, op, s) \/ RequestNew(p, op, s)
               \/ Acquire(p, s) \/ Faulty(p, s)
        PROVE  PanesSpared'
    <2>1. pane' = pane \/ MarkFails(p, s) \/ CommitFails(p, s)
      BY <1>9 DEF Request, RequestNew, Acquire, AcquireHost, AcquireSession, Faulty, CallFails,
                  LaunchFails, DeleteUntorn, ClientGone
    <2> QED
      BY <1>1, <1>3, <2>1
  <1>10. ASSUME NEW p \in Procs, NEW s \in Sessions, Advance(p, s)
         PROVE  PanesSpared'
    <2>1. \/ pane' = pane
          \/ RotateKill(p, s) \/ Kill(p, s) \/ Verify(p, s) \/ MarkOwner(p, s)
          \/ MarkGeneration(p, s) \/ Launch(p, s)
      BY <1>10 DEF Advance, EnterHandoff, Insert, Adopt, PassGate, Refused, StartProbe,
                   VerifyConflict, RotateIdle, Reattach, NameTaken, MarkGone, Commit, StopProbe, Record,
                   Cleanup, AttachArm, PatchFlags, Patch
    <2> QED
      BY <1>1, <1>3, <1>4, <1>5, <2>1
  <1> QED
    BY <1>6, <1>7, <1>8, <1>9, <1>10 DEF Next, Handlers, World

-------------------------------------------------------------------------------
(* Writing a row keeps its external marker. *)
LEMMA WriteKeeps ==
    ASSUME TypeOK, UserInv, NEW s \in Sessions, NEW st \in Statuses,
           NEW t \in Targets \cup {NoTarget}, NEW i \in Nat, SetRow(s, st, t, i),
           st = "running" => t # NoTarget, Exists(s),
           row[s].ext \/ t = NoTarget \/ t[1] # UserName
    PROVE  RowsKept
  <1>1. /\ row'[s].target = t /\ row'[s].ext = row[s].ext
        /\ \A q \in Sessions \ {s} : row'[q] = row[q]
    BY SetRowTyped
  <1> QED
    BY <1>1 DEF RowsKept, UserInv, UserTargetsAreExternal, Managed, Exists

(* A write that leaves status, target and marker alone. *)
LEMMA OneRowKeeps ==
    ASSUME UserInv, NEW s \in Sessions,
           \A q \in Sessions \ {s} : row'[q] = row[q],
           row'[s].ext = row[s].ext, row'[s].target = row[s].target,
           row'[s].status = row[s].status
    PROVE  RowsKept
  BY DEF RowsKept, UserInv, UserTargetsAreExternal, Managed, Exists

LEMMA SameRowsKept ==
    ASSUME UserInv, row' = row
    PROVE  RowsKept
  BY DEF RowsKept, UserInv, UserTargetsAreExternal, Exists

(* Ending a handler, going on with what it loaded, and loading. *)
LEMMA OthersSpare ==
    ASSUME TypeOK, UserInv, RowsKept, PanesSpared', NEW p \in Procs,
           \A q \in Procs \ {p} : pc'[q] = pc[q] /\ req'[q] = req[q] /\ snap'[q] = snap[q],
           SparesUser(p)'
    PROVE  UserInv'
  <1>1. ASSUME NEW q \in Procs, q # p PROVE SparesUser(q)'
    <2>1. SparesUser(q) /\ pc'[q] = pc[q] /\ req'[q] = req[q] /\ snap'[q] = snap[q]
          /\ req[q].sess \in Sessions
      BY <1>1 DEF UserInv, UserTargetsAreExternal, TypeOK
    <2> QED
      BY <2>1 DEF SparesUser, RowsKept, Managed, Exists
  <1> QED
    BY <1>1 DEF UserInv, UserTargetsAreExternal, RowsKept, PanesSpared, UserPaneNeverKilled

LEMMA FinishSpares ==
    ASSUME TypeOK, UserInv, RowsKept, PanesSpared', NEW p \in Procs, Finish(p)
    PROVE  UserInv'
  <1>1. /\ pc'[p] = "idle" /\ snap'[p] = NoRow
        /\ \A q \in Procs \ {p} : pc'[q] = pc[q] /\ req'[q] = req[q] /\ snap'[q] = snap[q]
    BY DEF Finish, TypeOK
  <1>2. SparesUser(p)'
    BY <1>1, ConstantsTyped DEF SparesUser, Managed, LoadedPCs, LaunchPCs, StopPCs
  <1> QED
    BY <1>1, <1>2, OthersSpare

(* A step of the handler that keeps what it loaded and what it was asked. *)
LEMMA MoveSpares ==
    ASSUME TypeOK, UserInv, RowsKept, PanesSpared', NEW p \in Procs, NEW l \in PCs,
           pc' = [pc EXCEPT ![p] = l], req' = req, snap' = snap,
           \/ l \in {"host", "handoff", "insert", "reattach", "record", "cleanup"}
           \/ l \in LoadedPCs /\ ~snap[p].ext
           \/ l \in {"gate", "session", "locked"} /\
                (\/ pc[p] \in {"gate", "session"} \/ req[p].op # "attach"
                 \/ row'[req[p].sess].ext)
    PROVE  UserInv'
  <1>1. /\ pc'[p] = l /\ SparesUser(p) /\ req[p].sess \in Sessions
        /\ \A q \in Procs \ {p} : pc'[q] = pc[q]
    BY DEF TypeOK, UserInv, UserTargetsAreExternal
  <1>2. SparesUser(p)'
    BY <1>1 DEF SparesUser, RowsKept, Managed, Exists, LoadedPCs, LaunchPCs, StopPCs
  <1> QED
    BY <1>1, <1>2, OthersSpare

LEMMA LoadSpares ==
    ASSUME TypeOK, UserInv, row' = row, PanesSpared', NEW p \in Procs, NEW l \in LoadedPCs,
           Goto(p, l), snap' = [snap EXCEPT ![p] = row[req[p].sess]],
           row[req[p].sess].ext => l \in {"reattach", "record"}
    PROVE  UserInv'
  <1>1. /\ pc'[p] = l /\ snap'[p] = row[req[p].sess] /\ req' = req /\ req[p].sess \in Sessions
        /\ \A q \in Procs \ {p} : pc'[q] = pc[q] /\ snap'[q] = snap[q]
    BY DEF TypeOK, Goto
  <1>2. SparesUser(p)'
    BY <1>1 DEF SparesUser, UserInv, UserTargetsAreExternal, Managed, LoadedPCs, LaunchPCs, StopPCs
  <1> QED
    BY <1>1, <1>2, OthersSpare, SameRowsKept

LEMMA InsertSpares ==
    ASSUME TypeOK, LeaseInv, UserInv, PanesSpared', NEW p \in Procs, NEW s \in Sessions, Insert(p, s)
    PROVE  UserInv'
  <1>0. /\ row \in [Sessions -> Rows] /\ pc[p] = "insert" /\ req[p].sess = s
        /\ PrivateTo(p) /\ OpFits(req[p].op, pc[p])
        /\ ExternalRow(s).ext /\ NewRow.target = NoTarget /\ NewRow.ext = FALSE
        /\ UserTarget(s) # NoTarget /\ UserTarget(s)[1] = UserName
    <2>1. 0 \in Nat
      OBVIOUS
    <2>2. ExternalRow(s).ext /\ NewRow.target = NoTarget /\ NewRow.ext = FALSE
      BY <2>1, NewRowsTyped
    <2>3. UserTarget(s) \in Targets /\ UserTarget(s)[1] = UserName
      BY DEF UserTarget, Targets
    <2> QED
      BY <2>2, <2>3, ConstantsTyped
         DEF TypeOK, RowsOK, Insert, At, LeaseInv, NewIdIsPrivate, OpsInPlace
  <1>1. CASE req[p].op = "attach"
    <2>1. CASE row' = row /\ Finish(p)
      BY <2>1, SameRowsKept, FinishSpares
    <2>2. CASE Goto(p, "gate")
      <3>1. /\ snap' = snap
            /\ row[s].status = "unborn" \/ row[s].target = UserTarget(s)
            /\ row' = IF Exists(s) THEN row ELSE [row EXCEPT ![s] = ExternalRow(s)]
        <4>1. pc'[p] = "gate" /\ pc'[p] # "idle"
          BY <2>2 DEF Goto, TypeOK
        <4>2. ~Finish(p)
          BY <4>1 DEF Finish, TypeOK
        <4> QED
          BY <1>1, <4>2 DEF Insert
      <3>2. row'[s].ext /\ RowsKept
        <4>1. CASE Exists(s)
          <5>1. row' = row /\ ~Managed(row[s])
            BY <1>0, <3>1, <4>1 DEF Exists, Managed
          <5> QED
            BY <5>1, SameRowsKept DEF UserInv, UserTargetsAreExternal
        <4>2. CASE ~Exists(s)
          <5>1. row'[s] = ExternalRow(s) /\ \A q \in Sessions \ {s} : row'[q] = row[q]
            BY <1>0, <3>1, <4>2
          <5>2. row'[s].ext
            BY <1>0, <5>1
          <5> QED
            BY <5>1, <5>2 DEF RowsKept, UserInv, UserTargetsAreExternal, Exists
        <4> QED
          BY <4>1, <4>2
      <3> QED
        BY <1>0, <2>2, <3>1, <3>2, MoveSpares DEF Goto, PCs
    <2> QED
      BY <1>1, <2>1, <2>2 DEF Insert
  <1>2. CASE req[p].op # "attach"
    <2>1. /\ row'[s] = NewRow /\ \A q \in Sessions \ {s} : row'[q] = row[q]
          /\ row[s].status = "unborn"
          /\ \A q \in Procs \ {p} : req[q].sess = s => pc[q] = "idle"
      BY <1>0, <1>2 DEF Insert, PrivateTo, OpFits, CreateOps
    <2>2. /\ \A q \in Procs \ {p} : pc'[q] = pc[q] /\ req'[q] = req[q] /\ snap'[q] = snap[q]
          /\ \/ pc'[p] = "idle" /\ snap'[p] = NoRow
             \/ pc'[p] = "adopt" /\ snap'[p] = NewRow
      <3>1. CASE req[p].op = "spawn"
        <4>1. Goto(p, "adopt") /\ snap' = [snap EXCEPT ![p] = NewRow]
          BY <1>0, <1>2, <2>1, <3>1 DEF Insert
        <4> QED
          BY <4>1 DEF Goto, TypeOK
      <3>2. CASE req[p].op # "spawn"
        <4>1. Finish(p)
          BY <1>2, <3>2 DEF Insert
        <4> QED
          BY <4>1 DEF Finish, TypeOK
      <3> QED
        BY <3>1, <3>2
    <2>3. ASSUME NEW q \in Procs PROVE SparesUser(q)'
      <3>1. CASE q = p
        BY <1>0, <2>2, <3>1, ConstantsTyped
           DEF SparesUser, Managed, LoadedPCs, LaunchPCs, StopPCs
      <3>2. CASE q # p /\ req[q].sess = s
        BY <2>1, <2>2, <3>2 DEF SparesUser, UserInv, UserTargetsAreExternal, Managed,
                                LoadedPCs, LaunchPCs, StopPCs
      <3>3. CASE q # p /\ req[q].sess # s
        <4>1. row'[req[q].sess] = row[req[q].sess] /\ SparesUser(q)
          BY <2>1, <3>3 DEF TypeOK, UserInv, UserTargetsAreExternal
        <4> QED
          BY <2>2, <3>3, <4>1 DEF SparesUser, Managed, Exists
      <3> QED
        BY <3>1, <3>2, <3>3
    <2>4. \A q \in Sessions : row'[q].ext \/ Managed(row'[q])
      BY <1>0, <2>1 DEF UserInv, UserTargetsAreExternal, Managed
    <2> QED
      BY <2>3, <2>4 DEF UserInv, UserTargetsAreExternal, PanesSpared, UserPaneNeverKilled
  <1> QED
    BY <1>1, <1>2

LEMMA NextSparesUser ==
    ASSUME "drop" \notin FlagEdits, TypeOK, LeaseInv, UserInv, [Next]_vars
    PROVE  UserInv'
  <1> USE DEF LoadedPCs, LaunchPCs, StopPCs
  <1>0. PanesSpared'
    BY NextSpares
  <1>1. ASSUME NEW p \in Procs
        PROVE  /\ OpFits(req[p].op, pc[p]) /\ SnapshotOf(p) /\ SparesUser(p)
               /\ Target(p) \in Targets /\ Target(p) # NoTarget
               /\ ~snap[p].ext => Target(p)[1] # UserName
               /\ req[p].sess \in Sessions /\ row[req[p].sess] \in Rows
    BY TargetsTyped, ConstantsTyped, ManagedTargets
       DEF LeaseInv, OpsInPlace, SnapshotIsCurrent, Target, TypeOK, RowsOK,
           UserInv, UserTargetsAreExternal
  <1>2. /\ \A t \in Targets : pane[t].inc \in Nat
        /\ \A s \in Sessions : row[s].inc \in Nat
    BY PanesTyped, RowsTyped DEF TypeOK, RowsOK
  <1>3. ASSUME NEW p \in Procs, row' = row, Finish(p)
        PROVE  UserInv'
    BY <1>0, <1>3, SameRowsKept, FinishSpares
  <1>4. ASSUME NEW p \in Procs, NEW l \in LoadedPCs, row' = row, snap' = snap, Goto(p, l),
               ~snap[p].ext \/ l = "record"
        PROVE  UserInv'
    <2>1. l \in PCs
      BY DEF PCs
    <2> QED
      BY <1>0, <1>4, <2>1, SameRowsKept, MoveSpares DEF Goto
  <1>5. ASSUME NEW p \in Procs, NEW s \in Sessions,
               \/ \E op \in Ops : Request(p, op, s) \/ RequestNew(p, op, s)
        PROVE  UserInv'
    <2>1. /\ row' = row /\ snap' = snap /\ pc[p] = "idle"
          /\ \A q \in Procs \ {p} : pc'[q] = pc[q] /\ req'[q] = req[q]
          /\ pc'[p] = "host" \/ (pc'[p] = "gate" /\ req'[p].op # "attach")
      <3>1. CASE \E op \in Ops : Request(p, op, s)
        <4>1. PICK op \in Ops : Request(p, op, s)
          BY <3>1
        <4>2. op # "attach" /\ req'[p] = [op |-> op, sess |-> s]
          BY <4>1 DEF Request, UserOps, TypeOK
        <4>3. pc'[p] \in {"host", "gate"}
          BY <4>1 DEF Request, TypeOK
        <4> QED
          BY <4>1, <4>2, <4>3 DEF Request, TypeOK
      <3>2. CASE \E op \in Ops : RequestNew(p, op, s)
        BY <3>2 DEF RequestNew, TypeOK
      <3> QED
        BY <1>5, <3>1, <3>2
    <2>2. SparesUser(p)'
      BY <1>1, <2>1 DEF SparesUser, Managed
    <2> QED
      BY <1>0, <2>1, <2>2, SameRowsKept, OthersSpare
  <1>6. ASSUME NEW p \in Procs, NEW s \in Sessions,
               \/ AcquireHost(p, s) \/ EnterHandoff(p, s) \/ PassGate(p, s) \/ AcquireSession(p, s)
               \/ Adopt(p, s)
        PROVE  UserInv'
    <2>1. row' = row /\ snap' = snap /\ req' = req
      BY <1>6 DEF AcquireHost, EnterHandoff, PassGate, AcquireSession, Adopt, Goto
    <2>2. PICK l \in PCs :
            /\ pc' = [pc EXCEPT ![p] = l]
            /\ \/ l \in {"handoff", "insert"}
               \/ l = "gate" /\ req[p].op # "attach"
               \/ l \in {"session", "locked"} /\ pc[p] \in {"gate", "session"}
               \/ l = "launch" /\ pc[p] = "adopt"
      BY <1>6 DEF AcquireHost, EnterHandoff, PassGate, AcquireSession, Adopt, Goto, At, PCs
    <2>3. l = "launch" => ~snap[p].ext
      BY <1>1, <2>2 DEF SparesUser
    <2> QED
      BY <1>0, <2>1, <2>2, <2>3, SameRowsKept, MoveSpares
  <1>7. ASSUME NEW p \in Procs, NEW s \in Sessions,
               \/ Refused(p, s) \/ VerifyConflict(p, s) \/ NameTaken(p, s) \/ MarkGone(p, s)
               \/ Cleanup(p, s)
               \/ CallFails(p, s) \/ LaunchFails(p, s) \/ MarkFails(p, s) \/ CommitFails(p, s)
               \/ ClientGone(p, s)
        PROVE  UserInv'
    BY <1>3, <1>7 DEF Refused, VerifyConflict, NameTaken, MarkGone, Cleanup, CallFails, LaunchFails,
                      MarkFails, CommitFails, ClientGone
  <1>8. ASSUME NEW p \in Procs, NEW s \in Sessions, StartProbe(p, s)
        PROVE  UserInv'
    <2>1. PICK l \in {"launch", "verify", "reattach"} : Goto(p, l) /\ (row[s].ext => l = "reattach")
      BY <1>8 DEF StartProbe
    <2> QED
      BY <1>0, <1>8, <2>1, LoadSpares DEF StartProbe, At
  <1>9. ASSUME NEW p \in Procs, NEW s \in Sessions,
               \/ RotateKill(p, s) \/ Launch(p, s) \/ MarkGeneration(p, s) \/ Kill(p, s)
        PROVE  UserInv'
    <2>1. /\ row' = row /\ snap' = snap
          /\ pc[p] \in LoadedPCs \ {"reattach", "record", "cleanup"}
      BY <1>9 DEF RotateKill, Launch, MarkGeneration, Kill, At
    <2>2. PICK l \in LoadedPCs : Goto(p, l)
      BY <1>9 DEF RotateKill, Launch, MarkGeneration, Kill
    <2> QED
      BY <1>1, <1>4, <2>1, <2>2 DEF SparesUser
  <1>23. ASSUME NEW p \in Procs, NEW s \in Sessions, Verify(p, s) \/ MarkOwner(p, s)
         PROVE  UserInv'
    <2>1. row' = row /\ pc[p] \in {"verify", "mark"}
      BY <1>23 DEF Verify, MarkOwner, At
    <2>2. PICK l \in LoadedPCs : Goto(p, l)
      BY <1>23 DEF Verify, MarkOwner
    <2>3. /\ \A q \in Procs \ {p} : snap'[q] = snap[q]
          /\ snap'[p].ext = snap[p].ext /\ snap'[p].target = snap[p].target
      BY <1>1, <1>2, <1>23, NotedTyped DEF Verify, MarkOwner
    <2>4. /\ req' = req /\ pc'[p] = l
          /\ \A q \in Procs \ {p} : pc'[q] = pc[q]
      BY <2>2 DEF Goto, TypeOK
    <2>5. ~snap[p].ext /\ Managed(snap[p])
      BY <1>1, <2>1 DEF SparesUser
    <2>6. SparesUser(p)'
      BY <2>2, <2>3, <2>4, <2>5 DEF SparesUser, Managed
    <2> QED
      BY <1>0, <2>1, <2>3, <2>4, <2>6, SameRowsKept, OthersSpare
  <1>10. ASSUME NEW p \in Procs, NEW s \in Sessions, RotateIdle(p, s)
         PROVE  UserInv'
    <2>1. /\ SetRow(s, "idle", NoTarget, row[s].inc) /\ Goto(p, "launch") /\ snap' = snap
          /\ pc[p] = "rotated" /\ req[p].sess = s
      BY <1>10 DEF RotateIdle, At
    <2>2. RowsKept
      BY <1>1, <1>2, <2>1, WriteKeeps DEF SnapshotOf, Statuses
    <2>3. ~snap[p].ext
      BY <1>1, <2>1 DEF SparesUser
    <2> QED
      BY <1>0, <2>1, <2>2, <2>3, MoveSpares DEF Goto, PCs
  <1>11. ASSUME NEW p \in Procs, NEW s \in Sessions, Reattach(p, s) \/ Commit(p, s)
         PROVE  UserInv'
    <2>1. /\ row' = row \/ SetRow(s, "running", Target(p), pane[Target(p)].inc)
          /\ Finish(p) /\ pc[p] \in LoadedPCs /\ req[p].sess = s
      BY <1>11 DEF Reattach, Commit, At
    <2>2. Exists(s) /\ (row[s].ext \/ Target(p)[1] # UserName)
      BY <1>1, <2>1 DEF SnapshotOf
    <2>3. RowsKept
      BY <1>1, <1>2, <2>1, <2>2, WriteKeeps, SameRowsKept DEF Statuses
    <2> QED
      BY <1>0, <2>1, <2>3, FinishSpares
  <1>12. ASSUME NEW p \in Procs, NEW s \in Sessions, StopProbe(p, s)
         PROVE  UserInv'
    <2>1. PICK l \in {"record", "kill", "verify"} : Goto(p, l) /\ (row[s].ext => l = "record")
      BY <1>12 DEF StopProbe, Teardown
    <2> QED
      BY <1>0, <1>12, <2>1, LoadSpares DEF StopProbe, At
  <1>13. ASSUME NEW p \in Procs, NEW s \in Sessions, DeleteUntorn(p, s)
         PROVE  UserInv'
    <2>1. CASE pc[p] = "kill"
      BY <1>4, <1>13, <2>1 DEF DeleteUntorn, At, TypeOK
    <2>2. CASE pc[p] = "locked"
      BY <1>0, <1>13, <2>2, LoadSpares DEF DeleteUntorn, At
    <2> QED
      BY <1>13, <2>1, <2>2 DEF DeleteUntorn, At
  <1>14. ASSUME NEW p \in Procs, NEW s \in Sessions, Record(p, s)
         PROVE  UserInv'
    <2>1. CASE req[p].op \in DeleteOps
      <3>1. row[s].ver \in Nat
        BY RowsTyped DEF TypeOK, RowsOK
      <3>2. DeletedRow(row[s].ver).status = "deleted" /\ DeletedRow(row[s].ver).target = NoTarget
        BY <3>1, NewRowsTyped
      <3>3. row' = [row EXCEPT ![s] = DeletedRow(row[s].ver)] /\ Finish(p)
        BY <1>14, <2>1 DEF Record
      <3>4. RowsKept
        BY <3>2, <3>3 DEF RowsKept, UserInv, UserTargetsAreExternal, Managed, Exists, TypeOK, RowsOK
      <3> QED
        BY <1>0, <3>3, <3>4, FinishSpares
    <2>2. CASE req[p].op \notin DeleteOps
      <3>1. /\ SetRow(s, "stopped", IF snap[p].ext THEN Target(p) ELSE NoTarget, row[s].inc)
            /\ Goto(p, "cleanup") /\ snap' = snap /\ pc[p] = "record" /\ req[p].sess = s
        BY <1>14, <2>2 DEF Record, At
      <3>2. RowsKept
        BY <1>1, <1>2, <3>1, WriteKeeps DEF SnapshotOf, Statuses
      <3> QED
        BY <1>0, <3>1, <3>2, MoveSpares DEF Goto, PCs
    <2> QED
      BY <2>1, <2>2
  <1>15. ASSUME NEW p \in Procs, NEW s \in Sessions, AttachArm(p, s)
         PROVE  UserInv'
    <2>1. /\ row' = row \/ SetRow(s, "running", UserTarget(s), pane[UserTarget(s)].inc)
          /\ Finish(p) /\ Exists(s) /\ req[p].op = "attach" /\ pc[p] = "locked" /\ req[p].sess = s
      BY <1>15 DEF AttachArm, At
    <2>2. UserTarget(s) \in Targets /\ UserTarget(s) # NoTarget /\ row[s].ext
      BY <1>1, <2>1, ConstantsTyped DEF SparesUser, UserTarget, Targets
    <2>3. RowsKept
      BY <1>2, <2>1, <2>2, WriteKeeps, SameRowsKept DEF Statuses
    <2> QED
      BY <1>0, <2>1, <2>3, FinishSpares
  <1>16. ASSUME NEW p \in Procs, NEW s \in Sessions,
                PatchFlags(p, s) \/ \E n \in Names : Patch(p, s, n)
         PROVE  UserInv'
    <2>0. row[s] \in Rows /\ row[s].ext \in BOOLEAN /\ Finish(p)
      BY <1>16, RowsTyped DEF TypeOK, RowsOK, PatchFlags, Patch
    <2>1. /\ row'[s].ext = row[s].ext /\ row'[s].target = row[s].target
          /\ row'[s].status = row[s].status
          /\ \A q \in Sessions \ {s} : row'[q] = row[q]
      <3>1. CASE PatchFlags(p, s)
        <4>1. PICK edit \in FlagEdits :
                 row' = [row EXCEPT ![s] = [row[s] EXCEPT !.ext = row[s].ext /\ edit = "keep",
                                                          !.ver = row[s].ver + 1]]
          BY <3>1 DEF PatchFlags
        <4>2. edit = "keep"
          BY SubsetAssumption
        <4>3. (row[s].ext /\ edit = "keep") = row[s].ext
          BY <2>0, <4>2
        <4>4. row' = [row EXCEPT ![s] = [row[s] EXCEPT !.ext = row[s].ext,
                                                       !.ver = row[s].ver + 1]]
          BY <4>1, <4>3
        <4> QED
          BY <2>0, <4>4 DEF Rows, TypeOK, RowsOK
      <3>2. CASE \E n \in Names : Patch(p, s, n)
        <4>1. PICK n \in Names :
                 row' = [row EXCEPT ![s] = [row[s] EXCEPT !.name = n, !.ver = row[s].ver + 1]]
          BY <3>2 DEF Patch
        <4> QED
          BY <2>0, <4>1 DEF Rows, TypeOK, RowsOK
      <3> QED
        BY <1>16, <3>1, <3>2
    <2> QED
      BY <1>0, <2>0, <2>1, OneRowKeeps, FinishSpares
  <1>17. ASSUME RowsKept, pc' = pc, req' = req, snap' = snap
         PROVE  UserInv'
    BY <1>0, <1>1, <1>17 DEF SparesUser, RowsKept, Managed, Exists, UserInv,
                             UserTargetsAreExternal, PanesSpared, UserPaneNeverKilled
  <1>18. CASE Watchdog
    <2>1. ASSUME NEW s \in Sessions, PatchTool(s) \/ CommitCrash(s)
          PROVE  RowsKept
      <3>0. row[s] \in Rows
        BY DEF TypeOK, RowsOK
      <3>1. CASE PatchTool(s)
        <4>1. row' = row \/ row' = [row EXCEPT ![s] = [row[s] EXCEPT !.ver = row[s].ver + 1]]
          BY <3>1 DEF PatchTool
        <4>2. CASE row' = [row EXCEPT ![s] = [row[s] EXCEPT !.ver = row[s].ver + 1]]
          <5>1. /\ row'[s].ext = row[s].ext /\ row'[s].target = row[s].target
                /\ row'[s].status = row[s].status
                /\ \A q \in Sessions \ {s} : row'[q] = row[q]
            BY <3>0, <4>2 DEF Rows, TypeOK, RowsOK
          <5> QED
            BY <5>1, OneRowKeeps
        <4> QED
          BY <4>1, <4>2, SameRowsKept
      <3>2. CASE CommitCrash(s)
        <4>1. row' = row \/ (SetRow(s, "crashed", NoTarget, row[s].inc) /\ Exists(s))
          BY <3>2 DEF CommitCrash, Matches, Exists
        <4> QED
          BY <1>2, <4>1, SameRowsKept, WriteKeeps DEF Statuses
      <3> QED
        BY <2>1, <3>1, <3>2
    <2>2. pc' = pc /\ req' = req /\ snap' = snap
      BY <1>18 DEF Watchdog, ReconcileList, ReconcileApply, SampleCrash, SampleTool, PatchTool,
                   CommitCrash, control
    <2>3. row' = row \/ \E s \in Sessions : PatchTool(s) \/ CommitCrash(s)
      BY <1>18 DEF Watchdog, ReconcileList, ReconcileApply, SampleCrash, SampleTool
    <2> QED
      BY <1>17, <2>1, <2>2, <2>3, SameRowsKept
  <1>19. CASE Startup
    <2>1. ASSUME NEW s \in Sessions, BootNext(s) PROVE UserInv'
      <3>1. /\ row' = row /\ snap' = snap
            /\ \A q \in Procs \ {Boot} : pc'[q] = pc[q] /\ req'[q] = req[q]
            /\ pc'[Boot] \in {"host", "idle"}
        BY <2>1, ConstantsTyped DEF BootNext, TypeOK
      <3>2. SparesUser(Boot)'
        BY <1>1, <3>1, ConstantsTyped DEF SparesUser, Managed
      <3> QED
        BY <1>0, <3>1, <3>2, ConstantsTyped, SameRowsKept, OthersSpare
    <2>2. CASE BootList \/ BootListRunning \/ BootDone
      BY <1>17, <2>2, SameRowsKept DEF BootList, BootListRunning, BootDone, control
    <2> QED
      BY <1>19, <2>1, <2>2 DEF Startup
  <1>20. CASE World
    <2>1. CASE Crash
      <3>1. row' = row /\ \A p \in Procs : pc'[p] = "idle" /\ snap'[p] = NoRow
        BY <2>1 DEF Crash
      <3>2. \A p \in Procs : SparesUser(p)'
        BY <3>1, ConstantsTyped DEF SparesUser, Managed
      <3> QED
        BY <1>0, <3>1, <3>2 DEF UserInv, UserTargetsAreExternal, PanesSpared, UserPaneNeverKilled
    <2>2. CASE ~Crash
      BY <1>17, <1>20, <2>2, SameRowsKept
         DEF World, PaneExits, PrintsSignature, UserCreatesPane, control
    <2> QED
      BY <2>1, <2>2
  <1>21. CASE UNCHANGED vars
    BY <1>17, <1>21, SameRowsKept DEF vars
  <1>22. ASSUME NEW p \in Procs, NEW s \in Sessions, Acquire(p, s) \/ Advance(p, s) \/ Faulty(p, s)
         PROVE  UserInv'
    BY <1>0, <1>6, <1>7, <1>8, <1>9, <1>10, <1>11, <1>12, <1>13, <1>14, <1>15, <1>16, <1>22, <1>23,
       InsertSpares DEF Acquire, Advance, Faulty
  <1> QED
    BY <1>5, <1>18, <1>19, <1>20, <1>21, <1>22 DEF Next, Handlers

LEMMA InitSparesUser == Init => UserInv
  <1> SUFFICES ASSUME Init PROVE UserInv
    OBVIOUS
  <1>1. PICK left \in [Sessions -> {"unborn", "idle", "running", "external"}] :
           row = [s \in Sessions |-> LeftRow(s, left[s])]
    BY DEF Init
  <1>2. PICK unmarked \in SUBSET Sessions, stale \in SUBSET Sessions :
           pane = [t \in Targets |-> LeftPane(t, unmarked, stale)]
    BY DEF Init
  <1>3. ASSUME NEW s \in Sessions PROVE row[s].ext \/ Managed(row[s])
    <2>1. CASE left[s] = "external"
      BY <1>1, <2>1, NewRowsTyped DEF LeftRow
    <2>2. CASE left[s] = "running"
      <3>1. row[s] = [NoRow EXCEPT !.status = "running", !.target = ManagedTarget(NoRow, s)]
        BY <1>1, <2>2 DEF LeftRow
      <3>2. row[s].target = ManagedTarget(NoRow, s)
        BY <3>1, ConstantsTyped DEF Rows
      <3>3. NoRow.name # UserName
        BY ConstantsTyped, RowsTyped, DistinctAssumption
      <3> QED
        BY <3>2, <3>3 DEF Managed, ManagedTarget
    <2>3. CASE left[s] \notin {"external", "running"}
      <3>1. row[s] = [NoRow EXCEPT !.status = left[s]]
        BY <1>1, <2>3 DEF LeftRow
      <3>2. row[s].target = NoTarget
        BY <3>1, ConstantsTyped DEF Rows
      <3> QED
        BY <3>2 DEF Managed
    <2> QED
      BY <2>1, <2>2, <2>3
  <1>4. ASSUME NEW t \in Targets
        PROVE  (pane[t].user => t[1] = UserName) /\ pane[t].killed = FALSE
    <2>1. pane[t].user = (t = UserTarget(t[2])) /\ pane[t].killed = FALSE
      BY <1>2 DEF LeftPane, DeadPane
    <2>2. UserTarget(t[2])[1] = UserName
      BY DEF UserTarget
    <2> QED
      BY <2>1, <2>2
  <1>5. ASSUME NEW p \in Procs PROVE SparesUser(p)
    BY ConstantsTyped DEF Init, SparesUser, Managed, LoadedPCs, LaunchPCs, StopPCs
  <1> QED
    BY <1>3, <1>4, <1>5 DEF UserInv, UserTargetsAreExternal, UserPaneNeverKilled

(* "stop/kill/delete only ever detach; the underlying tmux session is      *)
(* never killed" (attach_tmux_session): whatever requests, failures and    *)
(* daemon crashes interleave, the daemon never kills a tmux session of the *)
(* user, as long as every edit of the flags keeps the external marker.     *)
THEOREM UserPanesSafe == ASSUME "drop" \notin FlagEdits PROVE Spec => []UserPaneNeverKilled
  <1>1. Init => UserInv
    BY InitSparesUser
  <1>2. TypeOK /\ LeaseInv /\ UserInv /\ [Next]_vars => UserInv'
    BY NextSparesUser
  <1>3. UserInv => UserPaneNeverKilled
    BY DEF UserInv
  <1> QED
    BY <1>1, <1>2, <1>3, TypeCorrect, LeasesHold, PTL DEF Spec

-------------------------------------------------------------------------------
(* What a step does to a pane: it lives on or dies, is killed by a handler *)
(* whose target it is, or a new one takes its name.                        *)
Killers(p, s) == RotateKill(p, s) \/ Kill(p, s) \/ MarkFails(p, s) \/ CommitFails(p, s)

PaneStays(t) ==
    /\ pane'[t].inc = pane[t].inc /\ pane'[t].killed = pane[t].killed
    /\ pane'[t].live => pane[t].live
    /\ pane[t].sig => pane'[t].sig

PaneKilled(t) ==
    /\ ~pane'[t].live /\ pane'[t].inc = pane[t].inc /\ pane'[t].sig = pane[t].sig
    /\ pane[t].killed \/ pane[t].live \/ ~pane'[t].killed
    /\ \E p \in Procs, s \in Sessions : Killers(p, s) /\ t = Target(p)

PaneOpened(t) ==
    /\ ~pane'[t].killed
    /\ \/ \E p \in Procs, s \in Sessions : Launch(p, s) /\ t = Target(p)
       \/ \E s \in Sessions : t = UserTarget(s)

LEMMA PaneSteps ==
    ASSUME TypeOK, [Next]_vars
    PROVE  \A t \in Targets : PaneStays(t) \/ PaneKilled(t) \/ PaneOpened(t)
  <1>0. pane \in [Targets -> Panes] /\ \A p \in Procs : Target(p) \in Targets
    BY TargetsTyped DEF TypeOK, Target
  <1>1. CASE pane' = pane
    BY <1>1 DEF PaneStays
  <1>2. ASSUME NEW u \in Targets, NEW q, pane' = [pane EXCEPT ![u] = q],
               PaneStays(u) \/ PaneKilled(u) \/ PaneOpened(u)
        PROVE  \A t \in Targets : PaneStays(t) \/ PaneKilled(t) \/ PaneOpened(t)
    <2>1. \A t \in Targets \ {u} : pane'[t] = pane[t]
      BY <1>0, <1>2
    <2> QED
      BY <1>2, <2>1 DEF PaneStays
  <1>3. ASSUME NEW p \in Procs, NEW s \in Sessions, Killers(p, s)
        PROVE  \A t \in Targets : PaneStays(t) \/ PaneKilled(t) \/ PaneOpened(t)
    <2> DEFINE u == Target(p)
               k == [Dead(pane[u]) EXCEPT !.killed = pane[u].killed \/ pane[u].live]
    <2>1. pane' = pane \/ pane' = [pane EXCEPT ![u] = k]
      BY <1>3, HeldKills DEF Killers, RotateKill, Kill, MarkFails, CommitFails, KillAt
    <2>2. /\ ~k.live /\ k.inc = pane[u].inc /\ k.sig = pane[u].sig
          /\ k.killed => pane[u].killed \/ pane[u].live
      BY <1>0 DEF Panes, Dead
    <2> HIDE DEF k
    <2>3. pane' = [pane EXCEPT ![u] = k] => PaneKilled(u)
      BY <1>0, <1>3, <2>2 DEF PaneKilled
    <2> HIDE DEF u
    <2> QED
      BY <1>0, <1>1, <1>2, <2>1, <2>3 DEF u
  <1>4. ASSUME NEW p \in Procs, NEW s \in Sessions,
               Verify(p, s) \/ MarkOwner(p, s) \/ MarkGeneration(p, s)
        PROVE  \A t \in Targets : PaneStays(t) \/ PaneKilled(t) \/ PaneOpened(t)
    <2> DEFINE u == Target(p)
               m == [pane[u] EXCEPT !.marked = TRUE]
               g == [pane[u] EXCEPT !.gen = TRUE]
    <2>1. pane' = [pane EXCEPT ![u] = m] \/ pane' = [pane EXCEPT ![u] = g]
      BY <1>4 DEF Verify, MarkOwner, MarkGeneration
    <2>2. /\ m.inc = pane[u].inc /\ m.killed = pane[u].killed /\ m.live = pane[u].live
          /\ m.sig = pane[u].sig
          /\ g.inc = pane[u].inc /\ g.killed = pane[u].killed /\ g.live = pane[u].live
          /\ g.sig = pane[u].sig
      BY <1>0 DEF Panes
    <2> HIDE DEF m, g
    <2>3. PaneStays(u)
      BY <1>0, <2>1, <2>2 DEF PaneStays
    <2> HIDE DEF u
    <2> QED
      BY <1>0, <1>2, <2>1, <2>3 DEF u
  <1>5. ASSUME NEW p \in Procs, NEW s \in Sessions, Launch(p, s)
        PROVE  \A t \in Targets : PaneStays(t) \/ PaneKilled(t) \/ PaneOpened(t)
    <2> DEFINE u == Target(p)
               n == [DeadPane EXCEPT !.live = TRUE, !.inc = pane[u].inc + 1]
    <2>1. pane' = [pane EXCEPT ![u] = n] /\ ~n.killed
      BY <1>5 DEF Launch, DeadPane
    <2> HIDE DEF n
    <2>2. PaneOpened(u)
      BY <1>0, <1>5, <2>1 DEF PaneOpened
    <2> HIDE DEF u
    <2> QED
      BY <1>0, <1>2, <2>1, <2>2 DEF u
  <1>6. ASSUME NEW s \in Sessions, UserCreatesPane(s)
        PROVE  \A t \in Targets : PaneStays(t) \/ PaneKilled(t) \/ PaneOpened(t)
    <2> DEFINE u == UserTarget(s)
               n == [DeadPane EXCEPT !.live = TRUE, !.user = TRUE, !.inc = pane[u].inc + 1]
    <2>1. pane' = [pane EXCEPT ![u] = n] /\ ~n.killed /\ u \in Targets
      BY <1>6 DEF UserCreatesPane, DeadPane, UserTarget, Targets
    <2> HIDE DEF n
    <2>2. PaneOpened(u)
      BY <1>0, <2>1 DEF PaneOpened
    <2> HIDE DEF u
    <2> QED
      BY <1>0, <1>2, <2>1, <2>2
  <1>7. ASSUME NEW u \in Targets, PaneExits(u) \/ PrintsSignature(u)
        PROVE  \A t \in Targets : PaneStays(t) \/ PaneKilled(t) \/ PaneOpened(t)
    <2> DEFINE d == Dead(pane[u])
               g == [pane[u] EXCEPT !.sig = TRUE]
    <2>1. pane' = [pane EXCEPT ![u] = d] \/ pane' = [pane EXCEPT ![u] = g]
      BY <1>7 DEF PaneExits, PrintsSignature
    <2>2. /\ d.inc = pane[u].inc /\ d.killed = pane[u].killed /\ ~d.live /\ d.sig = pane[u].sig
          /\ g.inc = pane[u].inc /\ g.killed = pane[u].killed /\ g.live = pane[u].live /\ g.sig
      BY <1>0 DEF Panes, Dead
    <2> HIDE DEF d, g
    <2>3. PaneStays(u)
      BY <1>0, <2>1, <2>2 DEF PaneStays
    <2> QED
      BY <1>0, <1>2, <2>1, <2>3
  <1> QED
    BY <1>1, <1>3, <1>4, <1>5, <1>6, <1>7, PaneWriters DEF Killers

(* How a row comes to be, or stays, Running. *)
RowStays(s) ==
    /\ row[s].status = "running" /\ row'[s].target = row[s].target
    /\ row'[s].inc = row[s].inc

Bound(p, s, t) ==
    /\ pc[p] \in {"reattach", "commit", "locked"} /\ req[p].sess = s /\ Finish(p) /\ pane' = pane
    /\ row'[s].target = t /\ row'[s].inc = pane[t].inc
    /\ pc[p] # "commit" => pane[t].live
    /\ t = IF pc[p] = "locked" THEN UserTarget(s) ELSE Target(p)

LEMMA RunningWrites ==
    ASSUME TypeOK, [Next]_vars, NEW s \in Sessions, row'[s].status = "running"
    PROVE  RowStays(s) \/ \E p \in Procs, t \in Targets : Bound(p, s, t)
  <1>0. /\ \A p \in Procs : Target(p) \in Targets
        /\ \A t \in Targets : pane[t].inc \in Nat
        /\ UserTarget(s) \in Targets /\ row[s].inc \in Nat
    BY TargetsTyped, RowsTyped DEF TypeOK, RowsOK, Target, Panes, UserTarget, Targets
  <1>1. CASE row'[s] = row[s]
    BY <1>1 DEF RowStays
  <1>2. ASSUME NEW t \in Targets, SetRow(s, "running", t, pane[t].inc)
        PROVE  row'[s].target = t /\ row'[s].inc = pane[t].inc
    BY <1>0, <1>2, SetRowWrites DEF Statuses
  <1>3. ASSUME NEW q \in Sessions, NEW st \in Statuses, NEW t \in Targets \cup {NoTarget}, NEW i \in Nat,
               SetRow(q, st, t, i), st # "running" \/ q # s
        PROVE  row'[s] = row[s]
    BY <1>3, SetRowWrites
  <1>4. CASE row'[s] # row[s]
    <2>1. PICK q \in Sessions :
             \/ PatchTool(q) \/ CommitCrash(q)
             \/ \E p \in Procs :
                   \/ Insert(p, q) \/ RotateIdle(p, q) \/ Reattach(p, q) \/ Commit(p, q)
                   \/ Record(p, q) \/ AttachArm(p, q) \/ PatchFlags(p, q)
                   \/ \E n \in Names : Patch(p, q, n)
      BY <1>4, RowWriters
    <2>2. CASE PatchTool(q) \/ \E p \in Procs : PatchFlags(p, q) \/ \E n \in Names : Patch(p, q, n)
      <3>1. Touched(q)
        BY <1>4, <2>2, PatchesTouch
      <3>2. q = s /\ row[s].status = "running" /\ row'[s].target = row[s].target /\ row'[s].inc = row[s].inc
        BY <1>4, <3>1 DEF Touched
      <3> QED
        BY <3>2 DEF RowStays
    <2>3. ASSUME NEW p \in Procs, Reattach(p, q) \/ Commit(p, q)
          PROVE  \E t \in Targets : Bound(p, s, t)
      <3>1. /\ SetRow(q, "running", Target(p), pane[Target(p)].inc)
            /\ pc[p] \in {"reattach", "commit"} /\ req[p].sess = q /\ Finish(p) /\ pane' = pane
            /\ pc[p] # "commit" => pane[Target(p)].live
        BY <1>4, <2>3 DEF Reattach, Commit, At
      <3>2. q = s
        BY <1>0, <1>3, <1>4, <3>1 DEF Statuses
      <3> QED
        BY <1>0, <1>2, <3>1, <3>2 DEF Bound
    <2>4. ASSUME NEW p \in Procs, AttachArm(p, q)
          PROVE  \E t \in Targets : Bound(p, s, t)
      <3>1. /\ SetRow(q, "running", UserTarget(q), pane[UserTarget(q)].inc)
            /\ pc[p] = "locked" /\ req[p].sess = q /\ Finish(p) /\ pane' = pane
            /\ pane[UserTarget(q)].live
        BY <1>4, <2>4 DEF AttachArm, At
      <3>2. UserTarget(q) \in Targets /\ pane[UserTarget(q)].inc \in Nat
        BY <1>0 DEF UserTarget, Targets
      <3>3. q = s
        BY <1>3, <1>4, <3>1, <3>2 DEF Statuses
      <3> QED
        BY <1>0, <1>2, <3>1, <3>3 DEF Bound
    <2>5. ~(CommitCrash(q) \/ \E p \in Procs : RotateIdle(p, q))
      <3>1. ASSUME SetRow(q, "crashed", NoTarget, row[q].inc) \/ SetRow(q, "idle", NoTarget, row[q].inc)
            PROVE  FALSE
        <4>1. row[q].inc \in Nat
          BY RowsTyped DEF TypeOK, RowsOK
        <4> QED
          BY <1>3, <1>4, <3>1, <4>1, SetRowWrites DEF Statuses
      <3> QED
        BY <1>4, <3>1 DEF CommitCrash, RotateIdle
    <2>6. ~\E p \in Procs : Record(p, q) \/ Insert(p, q)
      <3>1. ASSUME NEW p \in Procs, Record(p, q), req[p].op \notin DeleteOps PROVE FALSE
        <4>1. PICK t \in {Target(p), NoTarget} : SetRow(q, "stopped", t, row[q].inc)
          BY <3>1 DEF Record
        <4>2. row[q].inc \in Nat
          BY RowsTyped DEF TypeOK, RowsOK
        <4>3. t \in Targets \cup {NoTarget}
          BY <1>0
        <4> QED
          BY <1>3, <1>4, <4>1, <4>2, <4>3 DEF Statuses
      <3>2. ASSUME NEW p \in Procs, NEW r, row' = [row EXCEPT ![q] = r], r.status # "running"
            PROVE  FALSE
        BY <1>4, <3>2 DEF TypeOK, RowsOK
      <3>3. /\ NewRow.status # "running" /\ ExternalRow(q).status # "running"
            /\ \A v : DeletedRow(v).status # "running"
        BY DEF NewRow, ExternalRow, DeletedRow, NoRow
      <3> QED
        BY <1>4, <3>1, <3>2, <3>3 DEF Record, Insert
    <2> QED
      BY <2>1, <2>2, <2>3, <2>4, <2>5, <2>6
  <1> QED
    BY <1>1, <1>4

-------------------------------------------------------------------------------
(* A stop is not a crash.  What a handler knows of its target: it is the   *)
(* one a Running row is bound to, a pane just made was not killed, and the *)
(* one being marked is still the one whose id was noted.                   *)
NewPane == {"mark", "markGen", "commit"}

PanesKnown ==
    /\ \A t \in Targets : pane[t].live => ~pane[t].killed
    /\ \A p \in Procs :
          /\ pc[p] \in NewPane => ~pane[Target(p)].killed
          /\ pc[p] = "markGen" => snap[p].inc = pane[Target(p)].inc
          /\ pc[p] \in Loaded /\ row[req[p].sess].status = "running"
                => Target(p) = row[req[p].sess].target

Working(s, places) == \E p \in Procs : pc[p] \in places /\ req[p].sess = s

(* Short of a mishap, a Running row whose pane was killed is about to be   *)
(* written, and one whose name another live pane took is about to be bound *)
(* to that one.                                                            *)
KillRecorded(s) ==
    LET q == pane[row[s].target] IN
    row[s].status = "running" =>
        /\ q.killed => Working(s, {"rotated", "record"})
        /\ Managed(row[s]) /\ q.live => row[s].inc = q.inc \/ Working(s, NewPane)

StopInv ==
    /\ PanesKnown
    /\ Mishaps = 0 => \A s \in Sessions : KillRecorded(s)
    /\ StopIsNotACrash

(* Two handlers that both hold the lease of a session are one. *)
LEMMA SameHandler ==
    ASSUME LeaseInv, NEW p \in Procs, NEW q \in Procs, pc[p] \in LockedPCs, pc[q] \in LockedPCs,
           req[p].sess = req[q].sess, req[p].sess \in Sessions
    PROVE  p = q
  BY DEF LeaseInv, LeasesMatch

(* Only its own handler opens or kills a pane a handler works on. *)
LEMMA OwnPaneSteps ==
    ASSUME TypeOK, LeaseInv, OwnInv, UserInv, [Next]_vars, NEW p \in Procs, pc[p] \in NewPane
    PROVE  /\ Target(p) \in Targets /\ Target(p)[1] # UserName
           /\ \/ PaneStays(Target(p))
              \/ \E s \in Sessions : Killers(p, s)
  <1> USE DEF LockedPCs, LoadedPCs, LaunchPCs, StopPCs, Loaded, Harmless, NewPane
  <1> DEFINE t == Target(p)
  <1>1. t \in Targets /\ t[1] # UserName /\ t[2] = req[p].sess /\ req[p].sess \in Sessions
    BY ManagedTargets, OwnTarget DEF OwnInv, TargetsOwned, TypeOK
  <1>2. ASSUME NEW q \in Procs, NEW s \in Sessions, Killers(q, s) \/ Launch(q, s), t = Target(q)
        PROVE  q = p /\ pc[q] # "launch"
    <2>1. pc[q] \in Loaded /\ pc[q] \in LockedPCs
      BY <1>2 DEF Killers, RotateKill, Kill, MarkFails, CommitFails, Launch, At
    <2>2. t[2] = req[q].sess
      BY <1>2, <2>1, OwnTarget DEF OwnInv
    <2> QED
      BY <1>1, <2>1, <2>2, SameHandler
  <1>3. \A s \in Sessions : t # UserTarget(s)
    BY <1>1 DEF UserTarget
  <1>4. PaneStays(t) \/ PaneKilled(t) \/ PaneOpened(t)
    BY <1>1, PaneSteps
  <1>5. ~PaneOpened(t)
    BY <1>2, <1>3 DEF PaneOpened, Launch, At
  <1>6. PaneKilled(t) => \E s \in Sessions : Killers(p, s)
    BY <1>2 DEF PaneKilled
  <1> QED
    BY <1>1, <1>4, <1>5, <1>6

(* How a handler comes to work on a new pane. *)
LEMMA NewPaneSteps ==
    ASSUME TypeOK, [Next]_vars, NEW p \in Procs, pc'[p] \in NewPane
    PROVE  /\ req'[p] = req[p] /\ Target(p)' = Target(p)
           /\ \/ Launch(p, req[p].sess) /\ pc'[p] # "markGen"
              \/ /\ pc[p] \in NewPane
                 /\ pc'[p] = "markGen" => \/ pc[p] = "markGen" /\ snap'[p] = snap[p]
                                          \/ MarkOwner(p, req[p].sess)
  <1> USE DEF LoadedPCs, LaunchPCs, StopPCs, Loaded, Harmless, NewPane
  <1>1. /\ req'[p] = req[p]
        /\ (pc'[p] = pc[p] /\ snap'[p] = snap[p]) \/ KeptLoad(p)
    BY NextLoads DEF FreshLoad, NewLoad
  <1>2. Target(p)' = Target(p)
    BY <1>1 DEF KeptLoad, Target, TmuxTarget, ManagedTarget
  <1>3. CASE ~(pc'[p] = pc[p] /\ snap'[p] = snap[p])
    <2>1. pc[p] # "idle" /\ ~Crash
      BY <1>1, <1>3 DEF KeptLoad, Crash
    <2>2. PICK s \in Sessions : Acquire(p, s) \/ Advance(p, s) \/ Faulty(p, s)
      BY <1>3, <2>1, PlaceWriters
    <2>3. ~Finish(p) /\ \A l : Goto(p, l) => pc'[p] = l
      BY DEF Finish, Goto, TypeOK
    <2>4. Launch(p, s) \/ MarkOwner(p, s) \/ MarkGeneration(p, s)
      BY <2>2, <2>3, <1>1, <1>3
         DEF KeptLoad, Acquire, AcquireHost, AcquireSession, Advance, EnterHandoff, Insert, Adopt, At,
             PassGate, Refused, StartProbe, Verify, VerifyConflict, RotateKill, RotateIdle, Reattach,
             NameTaken, MarkGone, Commit, StopProbe, Kill, Record, Cleanup, AttachArm,
             PatchFlags, Patch, Faulty, CallFails, LaunchFails, MarkFails, CommitFails,
             DeleteUntorn, ClientGone, TypeOK
    <2>5. s = req[p].sess
      BY <2>4 DEF Launch, MarkOwner, MarkGeneration, At
    <2> QED
      BY <1>1, <1>2, <2>3, <2>4, <2>5 DEF Launch, MarkOwner, MarkGeneration, At
  <1> QED
    BY <1>1, <1>2, <1>3 DEF KeptLoad

LEMMA NextKnown ==
    ASSUME TypeOK, LeaseInv, OwnInv, UserInv, PanesKnown, [Next]_vars
    PROVE  PanesKnown'
  <1> USE DEF LockedPCs, LoadedPCs, LaunchPCs, StopPCs, Loaded, Harmless, NewPane
  <1>1. ASSUME NEW t \in Targets, pane'[t].live PROVE ~pane'[t].killed
    BY <1>1, PaneSteps DEF PanesKnown, PaneStays, PaneKilled, PaneOpened
  <1>2. ASSUME NEW p \in Procs, pc'[p] \in NewPane
        PROVE  /\ ~pane'[Target(p)'].killed
               /\ pc'[p] = "markGen" => snap'[p].inc = pane'[Target(p)'].inc
    <2> DEFINE t == Target(p)
    <2>1. t \in Targets /\ pane \in [Targets -> Panes]
      BY TargetsTyped DEF TypeOK, Target
    <2>2. CASE Launch(p, req[p].sess) /\ pc'[p] # "markGen"
      <3> DEFINE n == [DeadPane EXCEPT !.live = TRUE, !.inc = pane[t].inc + 1]
      <3>1. pane' = [pane EXCEPT ![t] = n] /\ ~n.killed
        BY <2>2 DEF Launch, DeadPane
      <3> HIDE DEF n
      <3>2. ~pane'[t].killed
        BY <2>1, <3>1
      <3> QED
        BY <1>2, <2>2, <3>2, NewPaneSteps
    <2>3. CASE pc[p] \in NewPane
      <3>1. ~\E s \in Sessions : Killers(p, s)
        <4>1. ASSUME NEW s \in Sessions, MarkFails(p, s) \/ CommitFails(p, s) PROVE pc'[p] = "idle"
          BY <4>1 DEF MarkFails, CommitFails, Finish, TypeOK
        <4> QED
          BY <1>2, <2>3, <4>1 DEF Killers, RotateKill, Kill, At
      <3>2. PaneStays(t)
        BY <2>3, <3>1, OwnPaneSteps
      <3>3. ~pane'[t].killed /\ pane'[t].inc = pane[t].inc
        BY <2>3, <3>2 DEF PaneStays, PanesKnown
      <3>4. MarkOwner(p, req[p].sess) => snap'[p].inc = pane[t].inc
        BY DEF MarkOwner, TypeOK, Rows
      <3>5. pc'[p] = "markGen" => snap'[p].inc = pane[t].inc
        BY <1>2, <3>4, NewPaneSteps DEF PanesKnown, Launch, At
      <3> QED
        BY <1>2, <3>3, <3>5, NewPaneSteps
    <2> QED
      BY <1>2, <2>2, <2>3, NewPaneSteps
  <1>3. ASSUME NEW p \in Procs, pc'[p] \in Loaded, row'[req'[p].sess].status = "running"
        PROVE  Target(p)' = row'[req'[p].sess].target
    <2> DEFINE s == req[p].sess
    <2>1. s \in Sessions /\ req'[p] = req[p] /\ row'[s].status = "running"
      BY <1>3, NextLoads DEF TypeOK
    <2>2. CASE NewLoad(p)
      <3>1. LeaseInv'
        BY NextLeases
      <3>2. row'[s].status = "idle"
        BY <2>1, <2>2, <3>1 DEF NewLoad, LeaseInv, NewIdIsPrivate, PrivateTo
      <3> QED
        BY <2>1, <3>2
    <2>3. CASE FreshLoad(p)
      <3>1. snap'[p] = row'[s] /\ row'[s].target # NoTarget
        BY <2>1, <2>3 DEF FreshLoad, TypeOK, RowsOK
      <3> QED
        BY <2>1, <3>1 DEF Target, TmuxTarget
    <2>4. CASE (pc'[p] = pc[p] /\ snap'[p] = snap[p]) \/ KeptLoad(p)
      <3>1. Target(p)' = Target(p) /\ pc[p] \in Loaded
        BY <1>3, <2>1, <2>4 DEF KeptLoad, Target, TmuxTarget, ManagedTarget
      <3>2. ASSUME NEW q \in Procs, NEW t \in Targets, Bound(q, s, t) PROVE FALSE
        <4>1. pc[q] \in LockedPCs /\ req[q].sess = s /\ pc'[q] = "idle"
          BY <3>2 DEF Bound, Finish, TypeOK
        <4>2. q # p
          BY <1>3, <4>1
        <4>3. CASE pc[p] = "adopt"
          <5>1. PrivateTo(p)
            BY DEF LeaseInv, NewIdIsPrivate
          <5> QED
            BY <4>1, <4>2, <4>3, <5>1 DEF PrivateTo
        <4>4. CASE pc[p] \in LockedPCs
          BY <2>1, <4>1, <4>2, <4>4, SameHandler
        <4> QED
          BY <3>1, <4>3, <4>4
      <3>3. RowStays(s)
        BY <2>1, <3>2, RunningWrites
      <3>4. Target(p) = row[s].target
        BY <3>1, <3>3 DEF PanesKnown, RowStays
      <3> QED
        BY <2>1, <3>1, <3>3, <3>4 DEF RowStays
    <2> QED
      BY <1>3, <2>2, <2>3, <2>4, NextLoads
  <1> QED
    BY <1>1, <1>2, <1>3 DEF PanesKnown

(* What ends a kill that is not recorded yet, and the work on a new pane. *)
LEMMA WorkMoves ==
    ASSUME TypeOK, PanesKnown, [Next]_vars, Mishaps' = 0,
           NEW s \in Sessions, row'[s].status = "running", RowStays(s),
           NEW p \in Procs, req[p].sess = s
    PROVE  /\ pc[p] \in {"rotated", "record"} => pc'[p] = pc[p] /\ req'[p].sess = s
           /\ pc[p] \in NewPane =>
                 \/ pc'[p] \in NewPane /\ req'[p].sess = s
                 \/ pane' = pane /\ row'[s].inc = pane[row'[s].target].inc
                 \/ pane' = pane /\ ~pane[row[s].target].live
  <1> USE DEF LoadedPCs, LaunchPCs, StopPCs, Loaded, Harmless, NewPane
  <1>1. /\ ~Crash
        /\ \A q \in Procs, x \in Sessions :
              ~(CallFails(q, x) \/ LaunchFails(q, x) \/ MarkFails(q, x) \/ CommitFails(q, x)
                \/ DeleteUntorn(q, x) \/ ClientGone(q, x))
    BY MishapsGrow DEF Mishaps
  <1>2. CASE pc'[p] = pc[p] /\ req'[p] = req[p]
    BY <1>2
  <1>3. CASE ~(pc'[p] = pc[p] /\ req'[p] = req[p]) /\ pc[p] \in NewPane \cup {"rotated", "record"}
    <2>1. PICK x \in Sessions : Acquire(p, x) \/ Advance(p, x) \/ Faulty(p, x)
      BY <1>1, <1>3, PlaceWriters
    <2>2. \/ RotateIdle(p, x) \/ MarkOwner(p, x) \/ MarkGeneration(p, x) \/ MarkGone(p, x)
          \/ Commit(p, x) \/ Record(p, x)
      BY <1>1, <1>3, <2>1
         DEF Acquire, AcquireHost, AcquireSession, Advance, EnterHandoff, Insert, Adopt, At,
             PassGate, Refused, StartProbe, Verify, VerifyConflict, RotateKill, Reattach, Launch,
             NameTaken, StopProbe, Kill, Cleanup, AttachArm, PatchFlags, Patch, Faulty
    <2>3. x = s
      BY <2>2 DEF RotateIdle, MarkOwner, MarkGeneration, MarkGone, Commit, Record, At
    <2>4. /\ \A t \in Targets : pane[t].inc \in Nat
          /\ Target(p) \in Targets /\ row[s].inc \in Nat
      BY TargetsTyped, RowsTyped DEF TypeOK, RowsOK, Target, Panes
    <2>5. CASE MarkOwner(p, s) \/ MarkGeneration(p, s)
      BY <2>5 DEF MarkOwner, MarkGeneration, At, Goto, TypeOK
    <2>6. Target(p) = row[s].target
      BY <1>3 DEF PanesKnown, RowStays
    <2>7. CASE MarkGone(p, s)
      <3>1. HoldsPane(p) \/ pc[p] # "markGen"
        BY DEF HoldsPane, PanesKnown
      <3> QED
        BY <2>6, <2>7, <3>1 DEF MarkGone, At
    <2>8. CASE Commit(p, s)
      <3>1. row'[s].inc = pane[Target(p)].inc /\ row'[s].target = Target(p) /\ pane' = pane
        BY <2>4, <2>8, SetRowWrites DEF Commit, Statuses
      <3> QED
        BY <2>8, <3>1 DEF Commit, At
    <2>9. ~RotateIdle(p, s)
      BY <2>4, SetRowWrites DEF RotateIdle, Statuses
    <2>10. ~Record(p, s)
      <3>1. DeletedRow(row[s].ver).status # "running"
        BY DEF DeletedRow, NoRow
      <3>2. ASSUME Record(p, s), req[p].op \notin DeleteOps PROVE FALSE
        <4>1. PICK t \in Targets \cup {NoTarget} : SetRow(s, "stopped", t, row[s].inc)
          BY <2>4, <3>2 DEF Record
        <4> QED
          BY <2>4, <4>1, SetRowWrites DEF Statuses
      <3> QED
        BY <3>1, <3>2 DEF Record, TypeOK, RowsOK
    <2> QED
      BY <2>2, <2>3, <2>5, <2>7, <2>8, <2>9, <2>10
  <1> QED
    BY <1>2, <1>3

LEMMA NextRecorded ==
    ASSUME TypeOK, LeaseInv, OwnInv, UserInv, PanesKnown, [Next]_vars, Mishaps' = 0,
           NEW s \in Sessions, KillRecorded(s)
    PROVE  KillRecorded(s)'
  <1> USE DEF LockedPCs, LoadedPCs, LaunchPCs, StopPCs, Loaded, Harmless, NewPane
  <1> DEFINE t == row'[s].target
  <1> SUFFICES ASSUME row'[s].status = "running"
               PROVE  /\ pane'[t].killed => Working(s, {"rotated", "record"})'
                      /\ Managed(row'[s]) /\ pane'[t].live =>
                            row'[s].inc = pane'[t].inc \/ Working(s, NewPane)'
    BY DEF KillRecorded
  <1>0. \A q \in Procs, x \in Sessions : ~(MarkFails(q, x) \/ CommitFails(q, x))
    BY MishapsGrow DEF Mishaps
  <1>1. ASSUME NEW p \in Procs, NEW u \in Targets, Bound(p, s, u)
        PROVE  /\ ~pane'[t].killed
               /\ Managed(row'[s]) => row'[s].inc = pane'[t].inc
    BY <1>1 DEF Bound, PanesKnown, Managed, UserTarget
  <1>2. CASE RowStays(s)
    <2>1. t = row[s].target /\ t \in Targets /\ row'[s].inc = row[s].inc /\ row[s].status = "running"
      BY <1>2, RowsTyped DEF RowStays, TypeOK, RowsOK
    <2>0. t[2] = s
      BY <2>1, TargetsTyped, DistinctAssumption DEF OwnInv, TargetsOwned, Targets
    <2>2. /\ pane[t].killed => Working(s, {"rotated", "record"})
          /\ Managed(row[s]) /\ pane[t].live => row[s].inc = pane[t].inc \/ Working(s, NewPane)
      BY <2>1 DEF KillRecorded
    <2>3. CASE PaneStays(t)
      <3>1. pane'[t].killed => Working(s, {"rotated", "record"})'
        BY <1>2, <2>1, <2>2, <2>3, WorkMoves DEF PaneStays, Working
      <3>2. ASSUME Managed(row'[s]), pane'[t].live, row'[s].inc # pane'[t].inc
            PROVE  Working(s, NewPane)'
        <4>1. pane[t].live /\ row[s].inc # pane[t].inc /\ Managed(row[s])
          BY <2>1, <2>3, <3>2 DEF PaneStays, Managed
        <4>2. PICK p \in Procs : pc[p] \in NewPane /\ req[p].sess = s
          BY <2>2, <4>1 DEF Working
        <4>3. pc'[p] \in NewPane /\ req'[p].sess = s
          BY <1>2, <2>1, <3>2, <4>1, <4>2, WorkMoves
        <4> QED
          BY <4>3 DEF Working
      <3> QED
        BY <3>1, <3>2
    <2>4. CASE PaneKilled(t)
      <3>1. PICK p \in Procs, x \in Sessions : (RotateKill(p, x) \/ Kill(p, x)) /\ t = Target(p)
        BY <1>0, <2>4 DEF PaneKilled, Killers
      <3>2. pc[p] \in Loaded /\ req[p].sess = x /\ pc'[p] \in {"rotated", "record"} /\ req'[p] = req[p]
        BY <3>1 DEF RotateKill, Kill, At, Goto, TypeOK
      <3>3. x = s
        BY <2>0, <3>1, <3>2, OwnTarget DEF OwnInv
      <3> QED
        BY <2>4, <3>2, <3>3 DEF PaneKilled, Working
    <2>5. CASE PaneOpened(t)
      <3>1. \A x \in Sessions : t = UserTarget(x) => ~Managed(row'[s])
        BY <2>1, ConstantsTyped, TargetsTyped, DistinctAssumption DEF UserTarget, Managed, Targets
      <3>2. ASSUME NEW p \in Procs, NEW x \in Sessions, Launch(p, x), t = Target(p)
            PROVE  Working(s, NewPane)'
        <4>1. pc[p] \in Loaded /\ req[p].sess = x /\ pc'[p] \in NewPane /\ req'[p] = req[p]
          BY <3>2 DEF Launch, At, Goto, TypeOK
        <4>2. x = s
          BY <2>0, <3>2, <4>1, OwnTarget DEF OwnInv
        <4> QED
          BY <4>1, <4>2 DEF Working
      <3> QED
        BY <2>5, <3>1, <3>2 DEF PaneOpened
    <2> QED
      BY <2>1, <2>3, <2>4, <2>5, PaneSteps
  <1> QED
    BY <1>1, <1>2, RunningWrites

LEMMA NextStops == TypeOK /\ LeaseInv /\ OwnInv /\ UserInv /\ CrashInv /\ StopInv /\ [Next]_vars => StopInv'
  <1> SUFFICES ASSUME TypeOK, LeaseInv, OwnInv, UserInv, CrashInv, StopInv, [Next]_vars PROVE StopInv'
    OBVIOUS
  <1> USE DEF LockedPCs, LoadedPCs, LaunchPCs, StopPCs, Loaded, Harmless, NewPane
  <1>1. PanesKnown'
    BY NextKnown DEF StopInv
  <1>2. ASSUME Mishaps' = 0
        PROVE  /\ Mishaps = 0
               /\ \A q \in Procs, x \in Sessions : ~(MarkFails(q, x) \/ CommitFails(q, x))
    BY <1>2, MishapsGrow DEF Mishaps
  <1>3. ASSUME Mishaps' = 0, NEW s \in Sessions PROVE KillRecorded(s) /\ KillRecorded(s)'
    BY <1>2, <1>3, NextRecorded DEF StopInv
  <1>4. ASSUME Mishaps' = 0, NEW s \in Sessions, watch'[s].phase = "commit", Matches(row'[s], watch'[s])
        PROVE  ~(pane'[row'[s].target].killed /\ ~pane'[row'[s].target].sig)
    <2> DEFINE t == row[s].target
    <2>1. row'[s].status = "running" /\ row'[s].target = watch'[s].target /\ row'[s].ver = watch'[s].ver
      BY <1>4 DEF Matches
    <2>2. AgesOrdered /\ RowAges(s) /\ WatchAges(s)
      BY RowsAge, WatchesAge DEF CrashInv
    <2>3. row[s].ver \in Nat /\ row'[s].ver \in Nat /\ watch[s].ver \in Nat
      <3>1. TypeOK'
        BY NextTyped
      <3> QED
        BY <3>1, RowsTyped DEF TypeOK, RowsOK, Watches
    <2>4. CASE watch'[s] = watch[s]
      <3>1. row'[s] = row[s]
        BY <2>1, <2>2, <2>3, <2>4 DEF RowAges, AgesOrdered
      <3>2. t \in Targets /\ row[s].status = "running"
        BY <2>1, <3>1, RowsTyped DEF TypeOK, RowsOK
      <3>3. /\ row[s].inc = watch[s].inc
            /\ ~(pane[t].live /\ ~pane[t].sig /\ pane[t].inc = row[s].inc)
            /\ ~(pane[t].killed /\ ~pane[t].sig)
        BY <1>2, <1>4, <2>4, <3>1 DEF CrashInv, CrashCommitIsCurrent, StopInv, StopIsNotACrash
      <3>4. CASE PaneStays(t) \/ PaneOpened(t)
        BY <3>1, <3>3, <3>4 DEF PaneStays, PaneOpened
      <3>5. CASE PaneKilled(t)
        <4>1. PICK p \in Procs, x \in Sessions : (RotateKill(p, x) \/ Kill(p, x)) /\ t = Target(p)
          BY <1>2, <1>4, <3>5 DEF PaneKilled, Killers
        <4>2. pc[p] \in {"rotate", "kill"} /\ req[p].sess = x
          BY <4>1 DEF RotateKill, Kill, At
        <4>3. Managed(row[s])
          <5>1. ~snap[p].ext
            BY <4>2 DEF OwnInv, TargetsOwned
          <5> QED
            BY <4>1, <5>1, ManagedTargets DEF Managed
        <4>4. x = s
          BY <3>2, <4>1, <4>2, OwnTarget, ConstantsTyped DEF OwnInv, TargetsOwned
        <4>5. ~Working(s, NewPane)
          <5>1. ASSUME NEW q \in Procs, pc[q] \in NewPane, req[q].sess = s PROVE FALSE
            BY <4>2, <4>4, <5>1, SameHandler
          <5> QED
            BY <5>1 DEF Working
        <4>6. pane[t].live => row[s].inc = pane[t].inc
          BY <1>3, <1>4, <3>2, <4>3, <4>5 DEF KillRecorded
        <4> QED
          BY <3>1, <3>3, <3>5, <4>6 DEF PaneKilled
      <3> QED
        BY <3>2, <3>4, <3>5, PaneSteps
    <2>5. CASE watch'[s] # watch[s]
      <3>1. row' = row /\ pane' = pane /\ ~(pane[row[s].target].live /\ ~pane[row[s].target].sig)
        BY <1>4, <2>1, <2>2, <2>5 DEF WatchAges
      <3>2. hostLease[HostOf[s]] = NoProc
        <4>1. ~Crash /\ ~ReconcileApply
          BY <1>4, <2>5 DEF Crash, ReconcileApply, Rewatched, NoWatch
        <4>2. PICK x \in Sessions : SampleCrash(x) \/ SampleTool(x) \/ PatchTool(x) \/ CommitCrash(x)
          BY <2>5, <4>1, WatchWriters
        <4>3. watch \in [Sessions -> Watches]
          BY DEF TypeOK
        <4>4. x = s
          BY <2>5, <4>2, <4>3 DEF SampleCrash, SampleTool, PatchTool, CommitCrash
        <4>5. SampleCrash(s)
          BY <1>4, <4>2, <4>3, <4>4 DEF SampleTool, PatchTool, CommitCrash, Watches, NoWatch
        <4> QED
          BY <4>5 DEF SampleCrash
      <3>3. ASSUME pane[row[s].target].killed PROVE FALSE
        <4>1. PICK p \in Procs : pc[p] \in {"rotated", "record"} /\ req[p].sess = s
          BY <1>3, <1>4, <2>1, <3>1, <3>3 DEF KillRecorded, Working
        <4>2. hostLease[HostOf[s]] = p
          <5>1. pc[p] \in HostPCs /\ req[p].op \notin PatchOps /\ HostOf[s] \in Hosts
            BY <4>1, HostOfAssumption DEF HostPCs, LeaseInv, OpsInPlace, OpFits, StartOps, StopOps, DeleteOps, PatchOps
          <5> QED
            BY <4>1, <5>1 DEF LeaseInv, LeasesMatch
        <4> QED
          BY <3>2, <4>2, DistinctAssumption
      <3> QED
        BY <3>1, <3>3
    <2> QED
      BY <2>4, <2>5
  <1>5. StopIsNotACrash'
    BY <1>4 DEF StopIsNotACrash
  <1> QED
    BY <1>1, <1>3, <1>5 DEF StopInv

LEMMA InitStops == Init => StopInv
  <1> SUFFICES ASSUME Init PROVE StopInv
    OBVIOUS
  <1>1. PICK left \in [Sessions -> {"unborn", "idle", "running", "external"}] :
           row = [s \in Sessions |-> LeftRow(s, left[s])]
    BY DEF Init
  <1>2. PICK unmarked \in SUBSET Sessions, stale \in SUBSET Sessions :
           pane = [t \in Targets |-> LeftPane(t, unmarked, stale)]
    BY DEF Init
  <1>3. \A t \in Targets : ~pane[t].killed /\ pane[t].inc = 0
    BY <1>2 DEF LeftPane, DeadPane
  <1>4. \A p \in Procs : pc[p] = "idle"
    BY DEF Init
  <1>5. \A s \in Sessions : watch[s].phase # "commit"
    BY DEF Init, NoWatch
  <1>6. ASSUME NEW s \in Sessions, row[s].status = "running"
        PROVE  row[s].inc = 0 /\ row[s].target \in Targets
    <2>1. row[s] = LeftRow(s, left[s]) /\ row[s].target \in Targets
      BY <1>1, <1>6, InitTyped, RowsTyped DEF TypeOK, RowsOK
    <2>2. CASE left[s] = "external"
      BY <2>1, <2>2 DEF LeftRow, ExternalRow, NoRow
    <2>3. CASE left[s] = "running"
      BY <2>1, <2>3 DEF LeftRow, NoRow
    <2>4. CASE left[s] \in {"unborn", "idle"}
      <3>1. row[s] = [NoRow EXCEPT !.status = left[s]]
        BY <2>1, <2>4 DEF LeftRow
      <3> QED
        BY <2>1, <3>1 DEF NoRow
    <2> QED
      BY <1>1, <2>1, <2>2, <2>3, <2>4
  <1>7. \A s \in Sessions : KillRecorded(s)
    BY <1>3, <1>6 DEF KillRecorded
  <1>8. PanesKnown
    BY <1>3, <1>4 DEF PanesKnown, NewPane, Loaded, LoadedPCs, LaunchPCs, StopPCs
  <1> QED
    BY <1>5, <1>7, <1>8 DEF StopInv, StopIsNotACrash

(* A pane that a stop, a delete or a rotation tore down is never recorded  *)
(* as a crash as long as no request failed or was dropped half way, for    *)
(* flags edited with the external marker sent back.                        *)
THEOREM StopNeverCrash == ASSUME "drop" \notin FlagEdits PROVE Spec => []StopIsNotACrash
  <1>1. Init => UserInv /\ StopInv
    BY InitSparesUser, InitStops
  <1>2. TypeOK /\ LeaseInv /\ UserInv /\ [Next]_vars => UserInv'
    BY NextSparesUser
  <1>3. StopInv => StopIsNotACrash
    BY DEF StopInv
  <1> QED
    BY <1>1, <1>2, <1>3, NextStops, TypeCorrect, LeasesHold, PanesOwned, CrashesKnown, PTL DEF Spec
===============================================================================
