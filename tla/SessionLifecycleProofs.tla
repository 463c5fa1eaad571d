------------------------ MODULE SessionLifecycleProofs -------------------------
(***************************************************************************)
(* The session lifecycle for every set of sessions, hosts, names and       *)
(* requests and for every bound: its types, and the leases its handlers    *)
(* hold.                                                                   *)
(***************************************************************************)
EXTENDS SessionLifecycle, TLAPS

LEMMA ConstantsTyped ==
    /\ NoRow \in Rows /\ NoRow.target = NoTarget /\ NoRow.status = "unborn" /\ NoRow.ext = FALSE
    /\ NoReq \in [op : Ops, sess : Sessions]
    /\ DeadPane \in Panes
    /\ NoWatch \in Watches
    /\ NothingSeen \in [fresh : BOOLEAN, rows : [Sessions -> Rows]]
    /\ Boot \in Procs /\ Users \subseteq Procs
    /\ NoTarget \notin Targets
  <1>1. (CHOOSE n \in Names : TRUE) \in Names
    BY NonEmptyAssumption
  <1>2. (CHOOSE s \in Sessions : TRUE) \in Sessions
    BY NonEmptyAssumption
  <1>3. NoRow \in Rows /\ NoRow.target = NoTarget /\ NoRow.status = "unborn" /\ NoRow.ext = FALSE
    BY <1>1 DEF NoRow, Rows, Statuses
  <1>4. NoReq \in [op : Ops, sess : Sessions]
    BY <1>2 DEF NoReq, Ops
  <1>5. DeadPane \in Panes /\ NoWatch \in Watches
    BY DEF DeadPane, Panes, NoWatch, Watches
  <1>6. NothingSeen \in [fresh : BOOLEAN, rows : [Sessions -> Rows]]
    BY <1>3 DEF NothingSeen
  <1>7. Boot \in Procs /\ Users \subseteq Procs /\ NoTarget \notin Targets
    BY DistinctAssumption DEF Procs, Targets
  <1> QED
    BY <1>3, <1>4, <1>5, <1>6, <1>7

(* A target names a pane, whether it was persisted or derived. *)
LEMMA TargetsTyped ==
    ASSUME NEW r \in Rows, NEW s \in Sessions
    PROVE  /\ TmuxTarget(r, s) \in Targets
           /\ ManagedTarget(r, s) \in Targets
           /\ UserTarget(s) \in Targets
  BY DEF TmuxTarget, ManagedTarget, UserTarget, Targets, Rows

LEMMA RowsTyped ==
    ASSUME NEW r \in Rows
    PROVE  /\ r.status \in Statuses /\ r.target \in Targets \cup {NoTarget}
           /\ r.name \in Names /\ r.ext \in BOOLEAN /\ r.ver \in Nat /\ r.inc \in Nat
           /\ r.ver + 1 \in Nat
  BY DEF Rows

(* The row that SetRow writes. *)
Written(r, st, t, i) == [r EXCEPT !.status = st, !.target = t, !.ver = r.ver + 1, !.inc = i]

LEMMA WrittenRow ==
    ASSUME NEW r \in Rows, NEW st \in Statuses, NEW t \in Targets \cup {NoTarget}, NEW i \in Nat
    PROVE  /\ Written(r, st, t, i) \in Rows
           /\ Written(r, st, t, i).status = st
           /\ Written(r, st, t, i).target = t
           /\ Written(r, st, t, i).ext = r.ext
  <1>1. r.ver + 1 \in Nat
    BY RowsTyped
  <1> QED
    BY <1>1 DEF Rows, Written

LEMMA SetRowTyped ==
    ASSUME TypeOK,
           NEW s \in Sessions, NEW st \in Statuses, NEW t \in Targets \cup {NoTarget},
           NEW i \in Nat, SetRow(s, st, t, i), st = "running" => t # NoTarget
    PROVE  /\ RowsOK'
           /\ row'[s].status = st /\ row'[s].target = t /\ row'[s].ext = row[s].ext
           /\ \A q \in Sessions \ {s} : row'[q] = row[q]
  <1>1. row[s] \in Rows /\ row \in [Sessions -> Rows]
    BY DEF TypeOK, RowsOK
  <1>2. row' = [row EXCEPT ![s] = Written(row[s], st, t, i)]
    BY DEF SetRow, Written
  <1>3. /\ Written(row[s], st, t, i) \in Rows
        /\ Written(row[s], st, t, i).status = st
        /\ Written(row[s], st, t, i).target = t
        /\ Written(row[s], st, t, i).ext = row[s].ext
    BY <1>1, WrittenRow
  <1> QED
    BY <1>1, <1>2, <1>3 DEF TypeOK, RowsOK

(* Goto and Finish keep the control state typed. *)
ControlOK ==
    /\ hostLease \in [Hosts -> Procs \cup {NoProc}]
    /\ sessLease \in [Sessions -> Procs \cup {NoProc}]
    /\ gate \in Procs \cup {NoProc}
    /\ pc \in [Procs -> PCs]
    /\ req \in [Procs -> [op : Ops, sess : Sessions]]

LEMMA GotoTyped ==
    ASSUME TypeOK, NEW p \in Procs, NEW l \in PCs, Goto(p, l)
    PROVE  ControlOK'
  BY DEF TypeOK, Goto, ControlOK

LEMMA FinishTyped ==
    ASSUME TypeOK, NEW p \in Procs, Finish(p)
    PROVE  ControlOK' /\ snap' \in [Procs -> Rows]
  BY ConstantsTyped DEF TypeOK, Finish, ControlOK, PCs

LEMMA PanesTyped ==
    ASSUME NEW q \in Panes, NEW b \in BOOLEAN
    PROVE  /\ Dead(q) \in Panes
           /\ q.live \in BOOLEAN /\ q.killed \in BOOLEAN /\ q.inc \in Nat
           /\ [q EXCEPT !.killed = b] \in Panes
           /\ [q EXCEPT !.marked = b] \in Panes
           /\ [q EXCEPT !.gen = b] \in Panes
           /\ [q EXCEPT !.sig = b] \in Panes
           /\ Dead(q).user = q.user /\ Dead(q).killed = q.killed
  BY DEF Panes, Dead

LEMMA KillTyped ==
    ASSUME TypeOK, NEW t \in Targets, KillAt(t)
    PROVE  /\ pane' \in [Targets -> Panes]
           /\ pane'[t].user = pane[t].user
           /\ \A u \in Targets \ {t} : pane'[u] = pane[u]
  <1> DEFINE k == [Dead(pane[t]) EXCEPT !.killed = pane[t].killed \/ pane[t].live]
  <1>1. pane[t] \in Panes /\ pane \in [Targets -> Panes]
    BY DEF TypeOK
  <1>2. Dead(pane[t]) \in Panes /\ (pane[t].killed \/ pane[t].live) \in BOOLEAN
    BY <1>1, PanesTyped
  <1>3. k \in Panes
    BY <1>2, PanesTyped
  <1>4. k.user = pane[t].user
    BY <1>1, <1>2, PanesTyped DEF Panes
  <1>5. pane' = [pane EXCEPT ![t] = k]
    BY DEF KillAt
  <1> HIDE DEF k
  <1> QED
    BY <1>1, <1>3, <1>4, <1>5

(* A kill by id, or a rollback, kills the handler's target or nothing. *)
LEMMA HeldKills ==
    ASSUME NEW p \in Procs, KillHeld(p) \/ RollBack(p)
    PROVE  KillAt(Target(p)) \/ pane' = pane
  BY DEF KillHeld, RollBack

LEMMA HeldTyped ==
    ASSUME TypeOK, NEW p \in Procs, KillHeld(p) \/ RollBack(p)
    PROVE  pane' \in [Targets -> Panes]
  <1>1. Target(p) \in Targets
    BY TargetsTyped DEF Target, TypeOK
  <1> QED
    BY <1>1, HeldKills, KillTyped DEF TypeOK

(* A handler that notes the id of its pane changes nothing else it loaded. *)
LEMMA NotedTyped ==
    ASSUME TypeOK, NEW p \in Procs, NEW i \in Nat, snap' = [snap EXCEPT ![p].inc = i]
    PROVE  /\ snap' \in [Procs -> Rows]
           /\ \A q \in Procs \ {p} : snap'[q] = snap[q]
           /\ snap'[p].status = snap[p].status /\ snap'[p].target = snap[p].target
           /\ snap'[p].name = snap[p].name /\ snap'[p].ext = snap[p].ext
           /\ snap'[p].inc = i
           /\ \A q \in Procs, s \in Sessions : TmuxTarget(snap'[q], s) = TmuxTarget(snap[q], s)
  <1> DEFINE r == [snap[p] EXCEPT !.inc = i]
  <1>1. snap[p] \in Rows /\ snap \in [Procs -> Rows]
    BY DEF TypeOK
  <1>2. /\ r \in Rows /\ r.status = snap[p].status /\ r.target = snap[p].target
        /\ r.name = snap[p].name /\ r.ext = snap[p].ext /\ r.inc = i
    BY <1>1 DEF Rows
  <1>3. snap' = [snap EXCEPT ![p] = r]
    OBVIOUS
  <1> HIDE DEF r
  <1>4. /\ snap' \in [Procs -> Rows]
        /\ \A q \in Procs \ {p} : snap'[q] = snap[q]
        /\ snap'[p] = r
    BY <1>1, <1>2, <1>3
  <1>5. ASSUME NEW q \in Procs, NEW s \in Sessions
        PROVE  TmuxTarget(snap'[q], s) = TmuxTarget(snap[q], s)
    BY <1>2, <1>4 DEF TmuxTarget, ManagedTarget
  <1> QED
    BY <1>2, <1>4, <1>5

LEMMA FaultTyped ==
    ASSUME TypeOK, Fault
    PROVE  used' \in Usage
  BY DEF TypeOK, Fault, Usage

(* A row just inserted, one bound to the user's tmux session, and the      *)
(* tombstone of a deleted one.                                             *)
LEMMA NewRowsTyped ==
    ASSUME NEW s \in Sessions, NEW v \in Nat
    PROVE  /\ ExternalRow(s) \in Rows /\ ExternalRow(s).status = "stopped"
           /\ ExternalRow(s).ext /\ ExternalRow(s).target = UserTarget(s)
           /\ NewRow \in Rows /\ NewRow.status = "idle"
           /\ NewRow.target = NoTarget /\ NewRow.ext = FALSE
           /\ DeletedRow(v) \in Rows /\ DeletedRow(v).status = "deleted"
           /\ DeletedRow(v).target = NoTarget
  <1>1. (CHOOSE n \in Names : TRUE) \in Names
    BY NonEmptyAssumption
  <1> QED
    BY <1>1 DEF ExternalRow, NewRow, DeletedRow, UserTarget, Targets, NoRow, Rows, Statuses

LEMMA InitTyped == Init => TypeOK
  <1> SUFFICES ASSUME Init PROVE TypeOK
    OBVIOUS
  <1>1. RowsOK
    <2>1. PICK left \in [Sessions -> {"unborn", "idle", "running", "external"}] :
             row = [s \in Sessions |-> LeftRow(s, left[s])]
      BY DEF Init
    <2>2. ASSUME NEW s \in Sessions
          PROVE  LeftRow(s, left[s]) \in Rows /\
                 (LeftRow(s, left[s]).status = "running" => LeftRow(s, left[s]).target # NoTarget)
      <3>1. NoRow \in Rows /\ ManagedTarget(NoRow, s) \in Targets /\ NoTarget \notin Targets
        BY ConstantsTyped, TargetsTyped
      <3>2. CASE left[s] = "running"
        <4>1. LeftRow(s, left[s]) = [NoRow EXCEPT !.status = "running",
                                                  !.target = ManagedTarget(NoRow, s)]
          BY <3>2 DEF LeftRow
        <4> QED
          BY <3>1, <4>1 DEF Rows, Statuses
      <3>3. CASE left[s] = "external"
        BY <3>3, NewRowsTyped DEF LeftRow
      <3>4. CASE left[s] \in {"unborn", "idle"}
        <4>1. LeftRow(s, left[s]) = [NoRow EXCEPT !.status = left[s]]
          BY <3>4 DEF LeftRow
        <4> QED
          BY <3>1, <3>4, <4>1 DEF Rows, Statuses
      <3> QED
        BY <2>1, <3>2, <3>3, <3>4
    <2> QED
      BY <2>1, <2>2 DEF RowsOK
  <1>2. pane \in [Targets -> Panes]
    <2>1. PICK unmarked, stale \in SUBSET Sessions :
             pane = [t \in Targets |-> LeftPane(t, unmarked, stale)]
      BY DEF Init
    <2>2. ASSUME NEW t \in Targets PROVE LeftPane(t, unmarked, stale) \in Panes
      BY DEF LeftPane, DeadPane, Panes
    <2> QED
      BY <2>1, <2>2
  <1>3. used \in Usage
    BY DEF Init, Usage
  <1> QED
    BY <1>1, <1>2, <1>3, ConstantsTyped DEF Init, TypeOK, PCs

(* Every step keeps every variable typed. *)
LEMMA NextTyped == TypeOK /\ [Next]_vars => TypeOK'
  <1> SUFFICES ASSUME TypeOK, [Next]_vars PROVE TypeOK'
    OBVIOUS
  <1>0. \A p \in Procs : Target(p) \in Targets
    BY TargetsTyped DEF Target, TypeOK
  <1>1. CASE UNCHANGED vars
    BY <1>1 DEF vars, TypeOK, RowsOK
  <1>2. ASSUME NEW p \in Procs, NEW s \in Sessions, NEW op \in Ops, Request(p, op, s)
        PROVE  TypeOK'
    BY <1>2 DEF Request, PCs, leases, Usage, TypeOK, RowsOK, ControlOK, observer
  <1>3. ASSUME NEW p \in Procs, NEW s \in Sessions, NEW op \in Ops, RequestNew(p, op, s)
        PROVE  TypeOK'
    BY <1>3 DEF RequestNew, PCs, leases, Usage, TypeOK, RowsOK, ControlOK, observer
  <1>4. ASSUME NEW p \in Procs, NEW s \in Sessions, AcquireHost(p, s)
        PROVE  TypeOK'
    BY <1>4, HostOfAssumption DEF AcquireHost, PCs, TypeOK, RowsOK, ControlOK, observer
  <1>5. ASSUME NEW p \in Procs, NEW s \in Sessions, EnterHandoff(p, s)
        PROVE  TypeOK'
    BY <1>5 DEF EnterHandoff, PCs, TypeOK, RowsOK, ControlOK, observer
  <1>6. ASSUME NEW p \in Procs, NEW s \in Sessions, Insert(p, s)
        PROVE  TypeOK'
    <2>1. /\ row' \in [Sessions -> Rows]
          /\ \A q \in Sessions : row'[q].status = "running" => row'[q].target # NoTarget
      BY <1>6, NewRowsTyped DEF Insert, TypeOK, RowsOK
    <2>2. ControlOK' /\ snap' \in [Procs -> Rows]
      BY <1>6, <2>1, GotoTyped, FinishTyped DEF Insert, TypeOK, RowsOK, PCs
    <2> QED
      BY <1>6, <2>1, <2>2 DEF Insert, TypeOK, RowsOK, ControlOK, observer
  <1>7. ASSUME NEW p \in Procs, NEW s \in Sessions, Adopt(p, s)
        PROVE  TypeOK'
    BY <1>7 DEF Adopt, PCs, TypeOK, RowsOK, ControlOK, observer
  <1>8. ASSUME NEW p \in Procs, NEW s \in Sessions, PassGate(p, s)
        PROVE  TypeOK'
    BY <1>8, GotoTyped DEF PassGate, PCs, TypeOK, RowsOK, ControlOK, observer
  <1>9. ASSUME NEW p \in Procs, NEW s \in Sessions, AcquireSession(p, s)
        PROVE  TypeOK'
    BY <1>9 DEF AcquireSession, PCs, TypeOK, RowsOK, ControlOK, observer
  <1>10. ASSUME NEW p \in Procs, NEW s \in Sessions, Refused(p, s)
        PROVE  TypeOK'
    BY <1>10, FinishTyped DEF Refused, TypeOK, RowsOK, ControlOK, observer
  <1>11. ASSUME NEW p \in Procs, NEW s \in Sessions, StartProbe(p, s)
        PROVE  TypeOK'
    BY <1>11, GotoTyped DEF StartProbe, PCs, TypeOK, RowsOK, ControlOK, observer
  <1>12. ASSUME NEW p \in Procs, NEW s \in Sessions, Verify(p, s)
        PROVE  TypeOK'
    <2>1. pane' \in [Targets -> Panes]
      BY <1>12, <1>0, PanesTyped DEF Verify, TypeOK
    <2>2. ControlOK'
      BY <1>12, GotoTyped DEF Verify, PCs
    <2>3. snap' \in [Procs -> Rows]
      BY <1>12, <1>0, PanesTyped, NotedTyped DEF Verify, TypeOK
    <2> QED
      BY <1>12, <2>1, <2>2, <2>3 DEF Verify, TypeOK, RowsOK, ControlOK, observer
  <1>13. ASSUME NEW p \in Procs, NEW s \in Sessions, VerifyConflict(p, s)
        PROVE  TypeOK'
    BY <1>13, FinishTyped DEF VerifyConflict, TypeOK, RowsOK, ControlOK, observer
  <1>14. ASSUME NEW p \in Procs, NEW s \in Sessions, RotateKill(p, s)
        PROVE  TypeOK'
    BY <1>14, HeldTyped, GotoTyped DEF RotateKill, PCs, TypeOK, RowsOK, ControlOK, observer
  <1>15. ASSUME NEW p \in Procs, NEW s \in Sessions, RotateIdle(p, s)
        PROVE  TypeOK'
    BY <1>15, SetRowTyped, RowsTyped, GotoTyped DEF RotateIdle, PCs, Statuses, TypeOK, RowsOK, ControlOK, observer
  <1>16. ASSUME NEW p \in Procs, NEW s \in Sessions, Reattach(p, s)
        PROVE  TypeOK'
    <2>1. pane[Target(p)].inc \in Nat /\ Target(p) # NoTarget /\ Target(p) \in Targets
      BY <1>0, PanesTyped, ConstantsTyped DEF TypeOK
    <2>2. RowsOK'
      BY <1>16, <2>1, SetRowTyped DEF Reattach, TypeOK, RowsOK, Statuses
    <2>3. ControlOK' /\ snap' \in [Procs -> Rows]
      BY <1>16, FinishTyped DEF Reattach
    <2> QED
      BY <1>16, <2>2, <2>3 DEF Reattach, TypeOK, RowsOK, ControlOK, observer
  <1>17. ASSUME NEW p \in Procs, NEW s \in Sessions, Launch(p, s)
        PROVE  TypeOK'
    <2>0. pane[Target(p)].inc + 1 \in Nat
      BY <1>0 DEF TypeOK, Panes
    <2>1. used' \in Usage
      <3>1. used' = [used EXCEPT !.launches = @ + 1]
        BY <1>17 DEF Launch
      <3> QED
        BY <3>1 DEF TypeOK, Usage
    <2>2. [DeadPane EXCEPT !.live = TRUE, !.inc = pane[Target(p)].inc + 1] \in Panes
      BY <2>0 DEF DeadPane, Panes
    <2>3. pane' \in [Targets -> Panes]
      BY <1>17, <1>0, <2>2 DEF Launch, TypeOK
    <2>4. ControlOK'
      BY <1>17, GotoTyped DEF Launch, PCs
    <2> QED
      BY <1>17, <2>1, <2>3, <2>4 DEF Launch, TypeOK, RowsOK, ControlOK, observer
  <1>18. ASSUME NEW p \in Procs, NEW s \in Sessions, LaunchFails(p, s)
        PROVE  TypeOK'
    BY <1>18, FaultTyped, FinishTyped DEF LaunchFails, TypeOK, RowsOK, ControlOK, observer
  <1>19. ASSUME NEW p \in Procs, NEW s \in Sessions, MarkOwner(p, s)
        PROVE  TypeOK'
    <2>1. pane' \in [Targets -> Panes]
      BY <1>19, <1>0, PanesTyped DEF MarkOwner, TypeOK
    <2>2. ControlOK'
      BY <1>19, GotoTyped DEF MarkOwner, PCs
    <2>3. snap' \in [Procs -> Rows]
      BY <1>19, <1>0, PanesTyped, NotedTyped DEF MarkOwner, TypeOK
    <2> QED
      BY <1>19, <2>1, <2>2, <2>3 DEF MarkOwner, TypeOK, RowsOK, ControlOK, observer
  <1>20. ASSUME NEW p \in Procs, NEW s \in Sessions, MarkGeneration(p, s)
        PROVE  TypeOK'
    <2>1. pane' \in [Targets -> Panes]
      BY <1>20, <1>0, PanesTyped DEF MarkGeneration, TypeOK
    <2>2. ControlOK'
      BY <1>20, GotoTyped DEF MarkGeneration, PCs
    <2> QED
      BY <1>20, <2>1, <2>2 DEF MarkGeneration, TypeOK, RowsOK, ControlOK, observer
  <1>21. ASSUME NEW p \in Procs, NEW s \in Sessions, MarkFails(p, s)
        PROVE  TypeOK'
    BY <1>21, HeldTyped, FaultTyped, FinishTyped DEF MarkFails, TypeOK, RowsOK, ControlOK, observer
  <1>22. ASSUME NEW p \in Procs, NEW s \in Sessions, MarkGone(p, s)
        PROVE  TypeOK'
    BY <1>22, FinishTyped DEF MarkGone, TypeOK, RowsOK, ControlOK, observer
  <1>23. ASSUME NEW p \in Procs, NEW s \in Sessions, Commit(p, s)
        PROVE  TypeOK'
    <2>1. pane[Target(p)].inc \in Nat /\ Target(p) # NoTarget /\ Target(p) \in Targets
      BY <1>0, PanesTyped, ConstantsTyped DEF TypeOK
    <2>2. RowsOK'
      BY <1>23, <2>1, SetRowTyped DEF Commit, TypeOK, RowsOK, Statuses
    <2>3. ControlOK' /\ snap' \in [Procs -> Rows]
      BY <1>23, FinishTyped DEF Commit
    <2> QED
      BY <1>23, <2>2, <2>3 DEF Commit, TypeOK, RowsOK, ControlOK, observer
  <1>24. ASSUME NEW p \in Procs, NEW s \in Sessions, CommitFails(p, s)
        PROVE  TypeOK'
    BY <1>24, HeldTyped, FaultTyped, FinishTyped DEF CommitFails, TypeOK, RowsOK, ControlOK, observer
  <1>25. ASSUME NEW p \in Procs, NEW s \in Sessions, StopProbe(p, s)
        PROVE  TypeOK'
    BY <1>25, GotoTyped DEF StopProbe, Teardown, PCs, TypeOK, RowsOK, ControlOK, observer
  <1>26. ASSUME NEW p \in Procs, NEW s \in Sessions, Kill(p, s)
        PROVE  TypeOK'
    BY <1>26, HeldTyped, GotoTyped DEF Kill, PCs, TypeOK, RowsOK, ControlOK, observer
  <1>27. ASSUME NEW p \in Procs, NEW s \in Sessions, DeleteUntorn(p, s)
        PROVE  TypeOK'
    <2>1. snap' \in [Procs -> Rows] /\ snap'[p] \in Rows
      BY <1>27 DEF DeleteUntorn, TypeOK, RowsOK
    <2>2. lost' \in SUBSET Targets
      BY <1>27, <2>1, TargetsTyped DEF DeleteUntorn, TypeOK
    <2>3. ControlOK' /\ used' \in Usage
      BY <1>27, GotoTyped, FaultTyped DEF DeleteUntorn, PCs
    <2> QED
      BY <1>27, <2>1, <2>2, <2>3 DEF DeleteUntorn, TypeOK, RowsOK, ControlOK, observer
  <1>28. ASSUME NEW p \in Procs, NEW s \in Sessions, Record(p, s)
        PROVE  TypeOK'
    <2>1. row[s] \in Rows /\ row[s].ver \in Nat /\ row[s].inc \in Nat
      BY RowsTyped DEF TypeOK, RowsOK
    <2>2. CASE req[p].op \in DeleteOps
      <3>0. DeletedRow(row[s].ver) \in Rows /\ DeletedRow(row[s].ver).status = "deleted"
        BY <2>1, NewRowsTyped
      <3>1. row' = [row EXCEPT ![s] = DeletedRow(row[s].ver)]
        BY <1>28, <2>2 DEF Record
      <3>2. RowsOK'
        BY <3>0, <3>1 DEF TypeOK, RowsOK
      <3> QED
        BY <1>28, <2>2, <3>2, FinishTyped DEF Record, TypeOK, RowsOK, ControlOK, observer
    <2>3. CASE req[p].op \notin DeleteOps
      <3>1. RowsOK'
        BY <1>28, <1>0, <2>1, <2>3, SetRowTyped DEF Record, Statuses
      <3> QED
        BY <1>28, <2>3, <3>1, GotoTyped DEF Record, PCs, TypeOK, RowsOK, ControlOK, observer
    <2> QED
      BY <2>2, <2>3
  <1>29. ASSUME NEW p \in Procs, NEW s \in Sessions, Cleanup(p, s)
        PROVE  TypeOK'
    BY <1>29, FinishTyped DEF Cleanup, TypeOK, RowsOK, ControlOK, observer
  <1>30. ASSUME NEW p \in Procs, NEW s \in Sessions, NEW n \in Names, Patch(p, s, n)
        PROVE  TypeOK'
    <2>1. row[s] \in Rows /\ row[s].ver + 1 \in Nat
      BY RowsTyped DEF TypeOK, RowsOK
    <2>2. [row[s] EXCEPT !.name = n, !.ver = row[s].ver + 1] \in Rows
      BY <2>1 DEF Rows
    <2>3. RowsOK'
      BY <1>30, <2>1, <2>2 DEF Patch, TypeOK, RowsOK
    <2> QED
      BY <1>30, <2>3, FinishTyped DEF Patch, TypeOK, RowsOK, ControlOK, observer
  <1>31. ASSUME NEW p \in Procs, NEW s \in Sessions, PatchFlags(p, s)
        PROVE  TypeOK'
    <2>1. row[s] \in Rows /\ row[s].ver + 1 \in Nat /\ row[s].ext \in BOOLEAN
      BY RowsTyped DEF TypeOK, RowsOK
    <2>2. PICK e \in BOOLEAN :
             row' = [row EXCEPT ![s] = [row[s] EXCEPT !.ext = e, !.ver = row[s].ver + 1]]
      BY <1>31, <2>1 DEF PatchFlags
    <2>3. [row[s] EXCEPT !.ext = e, !.ver = row[s].ver + 1] \in Rows
      BY <2>1 DEF Rows
    <2>4. RowsOK'
      BY <2>1, <2>2, <2>3 DEF TypeOK, RowsOK
    <2> QED
      BY <1>31, <2>4, FinishTyped DEF PatchFlags, TypeOK, RowsOK, ControlOK, observer
  <1>32. ASSUME NEW p \in Procs, NEW s \in Sessions, AttachArm(p, s)
        PROVE  TypeOK'
    <2>1. pane[UserTarget(s)].inc \in Nat /\ UserTarget(s) # NoTarget /\ UserTarget(s) \in Targets
      BY TargetsTyped, PanesTyped, ConstantsTyped DEF TypeOK
    <2>2. RowsOK'
      BY <1>32, <2>1, SetRowTyped DEF AttachArm, TypeOK, RowsOK, Statuses
    <2>3. ControlOK' /\ snap' \in [Procs -> Rows]
      BY <1>32, FinishTyped DEF AttachArm
    <2> QED
      BY <1>32, <2>2, <2>3 DEF AttachArm, TypeOK, RowsOK, ControlOK, observer
  <1>33. ASSUME NEW p \in Procs, NEW s \in Sessions, CallFails(p, s)
        PROVE  TypeOK'
    BY <1>33, FaultTyped, FinishTyped DEF CallFails, TypeOK, RowsOK, ControlOK, observer
  <1>34. ASSUME NEW p \in Procs, NEW s \in Sessions, ClientGone(p, s)
        PROVE  TypeOK'
    <2>1. used' \in Usage
      BY <1>34 DEF ClientGone, TypeOK, Usage
    <2> QED
      BY <1>34, <2>1, FinishTyped DEF ClientGone, TypeOK, RowsOK, ControlOK, observer
  <1>35. ASSUME BootList
        PROVE  TypeOK'
    BY <1>35 DEF BootList, control, TypeOK, RowsOK, ControlOK, observer
  <1>36. ASSUME BootListRunning
        PROVE  TypeOK'
    BY <1>36 DEF BootListRunning, control, TypeOK, RowsOK, ControlOK, observer
  <1>37. ASSUME NEW s \in Sessions, BootNext(s)
        PROVE  TypeOK'
    BY <1>37, ConstantsTyped DEF BootNext, leases, PCs, Ops, TypeOK, RowsOK, ControlOK, observer
  <1>38. ASSUME BootDone
        PROVE  TypeOK'
    BY <1>38 DEF BootDone, control, TypeOK, RowsOK, ControlOK, observer
  <1>39. ASSUME Crash
        PROVE  TypeOK'
    BY <1>39, ConstantsTyped DEF Crash, PCs, Usage, TypeOK, RowsOK, ControlOK, observer
  <1>40. ASSUME ReconcileList
        PROVE  TypeOK'
    <2>1. \A s \in Sessions : Listed(row[s]) \in Rows
      <3>1. TAKE s \in Sessions
      <3>2. row[s] \in Rows /\ NoRow \in Rows /\ NoRow.name \in Names
        BY ConstantsTyped, RowsTyped DEF TypeOK, RowsOK
      <3>3. [row[s] EXCEPT !.name = NoRow.name, !.inc = 0] \in Rows
        BY <3>2 DEF Rows
      <3> QED
        BY <3>2, <3>3 DEF Listed
    <2> QED
      BY <1>40, <2>1 DEF ReconcileList, control, TypeOK, RowsOK
  <1>41. ASSUME ReconcileApply
        PROVE  TypeOK'
    <2>1. \A s \in Sessions : Rewatched(watch[s], seen.rows[s]) \in Watches
      <3>1. TAKE s \in Sessions
      <3>2. seen.rows[s] \in Rows /\ watch[s] \in Watches
        BY DEF TypeOK
      <3> DEFINE r == seen.rows[s]
      <3>3. r.target \in Targets \cup {NoTarget} /\ r.ver \in Nat
        BY <3>2, RowsTyped
      <3>4. [phase |-> "sleep", target |-> r.target, ver |-> r.ver, inc |-> 0] \in Watches
        BY <3>3 DEF Watches
      <3> QED
        BY <3>2, <3>4, ConstantsTyped DEF Rewatched
    <2> QED
      BY <1>41, <2>1, ConstantsTyped DEF ReconcileApply, control, TypeOK, RowsOK
  <1>42. ASSUME NEW s \in Sessions, SampleCrash(s)
        PROVE  TypeOK'
    <2>1. row[s].inc \in Nat /\ watch[s] \in Watches
      BY RowsTyped DEF TypeOK, RowsOK
    <2>2. [watch[s] EXCEPT !.phase = "commit", !.inc = row[s].inc] \in Watches
      BY <2>1 DEF Watches
    <2> QED
      BY <1>42, <2>2 DEF SampleCrash, control, TypeOK, RowsOK
  <1>43. ASSUME NEW s \in Sessions, SampleTool(s)
        PROVE  TypeOK'
    <2>0. watch[s] \in Watches
      BY DEF TypeOK
    <2>1. [watch[s] EXCEPT !.phase = "patch"] \in Watches
      BY <2>0 DEF Watches
    <2>2. used' = [used EXCEPT !.tools = @ + 1]
      BY <1>43 DEF SampleTool
    <2>3. used' \in Usage
      BY <2>2 DEF TypeOK, Usage
    <2> QED
      BY <1>43, <2>1, <2>3 DEF SampleTool, control, TypeOK, RowsOK
  <1>44. ASSUME NEW s \in Sessions, PatchTool(s)
        PROVE  TypeOK'
    <2>1. row[s] \in Rows /\ row[s].ver + 1 \in Nat /\ watch[s] \in Watches
      BY RowsTyped DEF TypeOK, RowsOK
    <2> DEFINE r == [row[s] EXCEPT !.ver = row[s].ver + 1]
    <2>2. r \in Rows /\ r.status = row[s].status /\ r.target = row[s].target
      BY <2>1 DEF Rows
    <2>3. /\ [watch[s] EXCEPT !.phase = "sleep", !.ver = row[s].ver + 1] \in Watches
          /\ [watch[s] EXCEPT !.phase = "sleep"] \in Watches
      BY <2>1 DEF Watches
    <2>4. RowsOK'
      <3>1. row' = row \/ row' = [row EXCEPT ![s] = r]
        BY <1>44 DEF PatchTool, TypeOK, RowsOK
      <3>2. row \in [Sessions -> Rows] /\ (row[s].status = "running" => row[s].target # NoTarget)
        BY DEF TypeOK, RowsOK
      <3>3. ASSUME NEW x \in Rows, x.status = row[s].status, x.target = row[s].target,
                   row' = [row EXCEPT ![s] = x]
            PROVE  RowsOK'
        BY <3>2, <3>3 DEF TypeOK, RowsOK
      <3> QED
        BY <2>2, <3>1, <3>3 DEF TypeOK, RowsOK
    <2>5. watch' \in [Sessions -> Watches]
      BY <1>44, <2>3 DEF PatchTool, TypeOK
    <2> QED
      BY <1>44, <2>4, <2>5 DEF PatchTool, control, TypeOK
  <1>45. ASSUME NEW s \in Sessions, CommitCrash(s)
        PROVE  TypeOK'
    <2>1. row[s].inc \in Nat
      BY RowsTyped DEF TypeOK, RowsOK
    <2>2. RowsOK'
      BY <1>45, <2>1, SetRowTyped DEF CommitCrash, TypeOK, RowsOK, Statuses
    <2>3. [NoWatch EXCEPT !.phase = "ended"] \in Watches
      BY DEF NoWatch, Watches
    <2>4. watch' \in [Sessions -> Watches]
      BY <1>45, <2>3 DEF CommitCrash, TypeOK
    <2> QED
      BY <1>45, <2>2, <2>4 DEF CommitCrash, control, TypeOK
  <1>46. ASSUME NEW t \in Targets, PaneExits(t)
        PROVE  TypeOK'
    <2>1. pane' \in [Targets -> Panes]
      BY <1>46, PanesTyped DEF PaneExits, TypeOK
    <2> QED
      BY <1>46, <2>1 DEF PaneExits, control, observer, TypeOK, RowsOK
  <1>47. ASSUME NEW t \in Targets, PrintsSignature(t)
        PROVE  TypeOK'
    <2>1. pane' \in [Targets -> Panes]
      BY <1>47, PanesTyped DEF PrintsSignature, TypeOK
    <2> QED
      BY <1>47, <2>1 DEF PrintsSignature, control, observer, TypeOK, RowsOK
  <1>48. ASSUME NEW s \in Sessions, UserCreatesPane(s)
        PROVE  TypeOK'
    <2>1. UserTarget(s) \in Targets
      BY DEF UserTarget, Targets
    <2>2. pane[UserTarget(s)] \in Panes /\ pane[UserTarget(s)].inc + 1 \in Nat
      BY <2>1 DEF TypeOK, Panes
    <2>3. [DeadPane EXCEPT !.live = TRUE, !.user = TRUE,
                           !.inc = pane[UserTarget(s)].inc + 1] \in Panes
      BY <2>2 DEF DeadPane, Panes
    <2>4. pane' \in [Targets -> Panes]
      BY <1>48, <2>1, <2>3 DEF UserCreatesPane, TypeOK
    <2>5. used' = [used EXCEPT !.users = @ + 1]
      BY <1>48 DEF UserCreatesPane
    <2>6. used' \in Usage
      BY <2>5 DEF TypeOK, Usage
    <2> QED
      BY <1>48, <2>4, <2>6 DEF UserCreatesPane, control, observer, TypeOK, RowsOK
  <1>49. ASSUME NEW p \in Procs, NEW s \in Sessions, NameTaken(p, s)
        PROVE  TypeOK'
    BY <1>49, FinishTyped DEF NameTaken, TypeOK, RowsOK, ControlOK, observer
  <1> QED
    BY <1>1, <1>2, <1>3, <1>4, <1>5, <1>6, <1>7, <1>8, <1>9, <1>10, <1>11, <1>12,
       <1>13, <1>14, <1>15, <1>16, <1>17, <1>18, <1>19, <1>20, <1>21, <1>22, <1>23,
       <1>24, <1>25, <1>26, <1>27, <1>28, <1>29, <1>30, <1>31, <1>32, <1>33, <1>34,
       <1>35, <1>36, <1>37, <1>38, <1>39, <1>40, <1>41, <1>42, <1>43, <1>44, <1>45,
       <1>46, <1>47, <1>48, <1>49
       DEF Next, Handlers, Acquire, Advance, Faulty, Startup, Watchdog, World

(* Type correctness: in particular a Running row always names its target. *)
THEOREM TypeCorrect == Spec => []TypeOK
  BY InitTyped, NextTyped, PTL DEF Spec

-------------------------------------------------------------------------------
(* What the lifecycle leases guarantee, proved for every instance: each    *)
(* handler holds exactly the leases of its place, a new id is private until*)
(* it is locked, and a loaded session is still what it was when acted on.  *)

Places == {"idle", "host", "handoff", "insert", "adopt", "gate", "session"} \cup LockedPCs

LEMMA PlacesArePCs == PCs = Places
  BY DEF PCs, Places, LockedPCs, LoadedPCs, LaunchPCs, StopPCs

(* A handler that is past "locked" or ends, and wrote no row but its own.  *)
LockedStep(p) ==
    /\ pc[p] \in LockedPCs
    /\ \/ Finish(p)
       \/ \E l \in LoadedPCs : Goto(p, l) /\ OpFits(req[p].op, l)
    /\ \A q \in Sessions \ {req[p].sess} : row'[q] = row[q]
    /\ \A q \in Procs \ {p} : snap'[q] = snap[q]

LEMMA FinishLeases ==
    ASSUME TypeOK, LeasesMatch, NEW p \in Procs, Finish(p)
    PROVE  LeasesMatch'
  <1>1. /\ pc'[p] = "idle" /\ "idle" \notin HostPCs /\ "idle" \notin LockedPCs /\ "idle" \notin GatedPCs
        /\ \A q \in Procs \ {p} : pc'[q] = pc[q] /\ req'[q] = req[q]
    BY DEF Finish, TypeOK, HostPCs, LockedPCs, LoadedPCs, LaunchPCs, StopPCs, GatedPCs
  <1>2. ASSUME NEW q \in Procs, NEW s \in Sessions
        PROVE  (sessLease'[s] = q <=> sessLease[s] = q /\ q # p)
    BY DistinctAssumption DEF Finish, TypeOK
  <1>3. ASSUME NEW q \in Procs, NEW h \in Hosts
        PROVE  (hostLease'[h] = q <=> hostLease[h] = q /\ q # p)
    BY DistinctAssumption DEF Finish, TypeOK
  <1>4. ASSUME NEW q \in Procs
        PROVE  (gate' = q <=> gate = q /\ q # p)
    BY DistinctAssumption DEF Finish, TypeOK
  <1> QED
    BY <1>1, <1>2, <1>3, <1>4 DEF LeasesMatch

LEMMA GotoLeases ==
    ASSUME TypeOK, LeasesMatch, NEW p \in Procs, NEW l \in LoadedPCs,
           pc[p] \in LockedPCs, Goto(p, l)
    PROVE  LeasesMatch'
  <1>1. /\ l \in LockedPCs /\ l \in HostPCs /\ l \notin GatedPCs
        /\ pc[p] \in HostPCs /\ pc[p] \notin GatedPCs
    BY DEF HostPCs, LockedPCs, LoadedPCs, LaunchPCs, StopPCs, GatedPCs
  <1>2. pc'[p] = l /\ \A q \in Procs \ {p} : pc'[q] = pc[q]
    BY DEF Goto, TypeOK
  <1> QED
    BY <1>1, <1>2 DEF LeasesMatch, Goto

LEMMA LockedLeases ==
    ASSUME TypeOK, LeaseInv, NEW p \in Procs, LockedStep(p)
    PROVE  LeasesMatch' /\ OpsInPlace' /\ NewIdIsPrivate'
  <1>1. LeasesMatch'
    BY FinishLeases, GotoLeases DEF LockedStep, LeaseInv
  <1>2. \A q \in Procs \ {p} : pc'[q] = pc[q] /\ req'[q] = req[q]
    BY DEF LockedStep, Finish, Goto, TypeOK
  <1>3. \/ pc'[p] = "idle"
        \/ pc'[p] \in LoadedPCs /\ req'[p] = req[p] /\ OpFits(req[p].op, pc'[p])
    BY DEF LockedStep, Finish, Goto, TypeOK
  <1>4. OpFits(req'[p].op, "idle")
    BY DEF OpFits, LaunchPCs, StopPCs
  <1>5. pc[p] # "idle" /\ pc[p] \notin {"idle", "host", "gate", "handoff", "insert", "adopt"}
    BY DEF LockedStep, LockedPCs, LoadedPCs, LaunchPCs, StopPCs
  <1>6. OpsInPlace'
    BY <1>2, <1>3, <1>4, <1>5 DEF LeaseInv, OpsInPlace
  <1>7. ASSUME NEW x \in Procs PROVE PrivateTo(x)'
    <2>1. CASE x = p
      BY <1>3, <2>1 DEF PrivateTo, LoadedPCs, LaunchPCs, StopPCs
    <2>2. CASE x # p /\ req[x].sess = req[p].sess
      <3>1. ~(pc[x] \in {"host", "handoff", "insert"} /\ req[x].op \in CreateOps) /\ pc[x] # "adopt"
        BY <1>5, <2>2 DEF LeaseInv, NewIdIsPrivate, PrivateTo
      <3> QED
        BY <1>2, <2>2, <3>1 DEF PrivateTo
    <2>3. CASE x # p /\ req[x].sess # req[p].sess
      <3>1. row'[req[x].sess] = row[req[x].sess]
        BY <2>3 DEF LockedStep, TypeOK
      <3>2. \A q \in Procs \ {x} : req'[q].sess = req[x].sess =>
                 (pc'[q] = pc[q] /\ req'[q] = req[q]) \/ pc'[q] = "idle"
        BY <1>2, <1>3, <2>3
      <3>3. PrivateTo(x) /\ pc'[x] = pc[x] /\ req'[x] = req[x]
        BY <1>2, <2>3 DEF LeaseInv, NewIdIsPrivate
      <3> QED
        BY <3>1, <3>2, <3>3 DEF PrivateTo
    <2> QED
      BY <2>1, <2>2, <2>3
  <1> QED
    BY <1>1, <1>6, <1>7 DEF NewIdIsPrivate

(* A locked step disturbs no other handler's snapshot. *)
LEMMA LockedSnapshots ==
    ASSUME TypeOK, LeaseInv, NEW p \in Procs, LockedStep(p), SnapshotOf(p)'
    PROVE  LeaseInv'
  <1>1. \A q \in Procs \ {p} : pc'[q] = pc[q] /\ req'[q] = req[q] /\ snap'[q] = snap[q]
    BY DEF LockedStep, Finish, Goto, TypeOK
  <1>2. ASSUME NEW x \in Procs, x # p PROVE SnapshotOf(x)'
    <2>1. CASE pc[x] \notin {"adopt"} \cup LoadedPCs
      BY <1>1, <1>2, <2>1 DEF SnapshotOf
    <2>2. CASE pc[x] \in {"adopt"} \cup LoadedPCs
      <3>1. req[x].sess # req[p].sess
        <4>1. CASE pc[x] = "adopt"
          BY <1>2, <4>1 DEF LeaseInv, NewIdIsPrivate, PrivateTo, LockedStep,
                            LockedPCs, LoadedPCs, LaunchPCs, StopPCs
        <4>2. CASE pc[x] \in LoadedPCs
          <5>1. sessLease[req[x].sess] = x /\ sessLease[req[p].sess] = p
            BY <4>2 DEF LeaseInv, LeasesMatch, LockedStep, LockedPCs, TypeOK
          <5> QED
            BY <1>2, <5>1
        <4> QED
          BY <2>2, <4>1, <4>2
      <3>2. row'[req[x].sess] = row[req[x].sess] /\ SnapshotOf(x)
        BY <3>1 DEF LockedStep, LeaseInv, SnapshotIsCurrent, TypeOK
      <3> QED
        BY <1>1, <1>2, <3>2 DEF SnapshotOf, Exists
    <2> QED
      BY <2>1, <2>2
  <1> QED
    BY <1>2, LockedLeases DEF LeaseInv, SnapshotIsCurrent

(* Ending a handler anywhere, by an answer, an error or a hang-up. *)
LEMMA FinishKeepsLeases ==
    ASSUME TypeOK, LeaseInv, NEW p \in Procs, Finish(p), row' = row
    PROVE  LeaseInv'
  <1>1. /\ pc'[p] = "idle"
        /\ \A q \in Procs \ {p} : pc'[q] = pc[q] /\ req'[q] = req[q] /\ snap'[q] = snap[q]
    BY DEF Finish, TypeOK
  <1>2. LeasesMatch'
    BY FinishLeases DEF LeaseInv
  <1>3. OpFits(req'[p].op, "idle") /\ "idle" \notin {"adopt"} \cup LoadedPCs
    BY DEF OpFits, LoadedPCs, LaunchPCs, StopPCs
  <1>4. OpsInPlace'
    BY <1>1, <1>3 DEF LeaseInv, OpsInPlace
  <1>5. ASSUME NEW x \in Procs PROVE PrivateTo(x)'
    <2>1. CASE x = p
      BY <1>1, <2>1 DEF PrivateTo
    <2>2. CASE x # p
      BY <1>1, <2>2 DEF LeaseInv, NewIdIsPrivate, PrivateTo
    <2> QED
      BY <2>1, <2>2
  <1>6. SnapshotIsCurrent'
    BY <1>1, <1>3 DEF LeaseInv, SnapshotIsCurrent, SnapshotOf, Exists
  <1> QED
    BY <1>2, <1>4, <1>5, <1>6 DEF LeaseInv, NewIdIsPrivate

(* Ending with a write to the handler's own row. *)
LEMMA FinishWritesOwnRow ==
    ASSUME TypeOK, LeaseInv, NEW p \in Procs, pc[p] \in LockedPCs, Finish(p),
           \A q \in Sessions \ {req[p].sess} : row'[q] = row[q]
    PROVE  LeaseInv'
  <1>1. pc'[p] = "idle" /\ \A q \in Procs \ {p} : snap'[q] = snap[q]
    BY DEF Finish, TypeOK
  <1>2. SnapshotOf(p)'
    BY <1>1 DEF SnapshotOf, LoadedPCs, LaunchPCs, StopPCs
  <1>3. LockedStep(p)
    BY <1>1 DEF LockedStep
  <1> QED
    BY <1>2, <1>3, LockedSnapshots

(* Going on with what was loaded, the id of the pane noted on the way. *)
LEMMA GotoKeepsLeases ==
    ASSUME TypeOK, LeaseInv, NEW p \in Procs, NEW l \in LoadedPCs, pc[p] \in LoadedPCs,
           Goto(p, l), OpFits(req[p].op, l), row' = row,
           \A q \in Procs \ {p} : snap'[q] = snap[q], snap'[p].ext = snap[p].ext
    PROVE  LeaseInv'
  <1>1. LockedStep(p)
    BY DEF LockedStep, LockedPCs
  <1>2. SnapshotOf(p) /\ req' = req
    BY DEF LeaseInv, SnapshotIsCurrent, Goto
  <1>3. SnapshotOf(p)'
    BY <1>2 DEF SnapshotOf, Exists
  <1> QED
    BY <1>1, <1>3, LockedSnapshots

(* Loading a session under its lease. *)
LEMMA LoadKeepsLeases ==
    ASSUME TypeOK, LeaseInv, NEW p \in Procs, NEW l \in LoadedPCs, pc[p] = "locked",
           Goto(p, l), OpFits(req[p].op, l), row' = row,
           snap' = [snap EXCEPT ![p] = row[req[p].sess]],
           Exists(req[p].sess),
           req[p].op \in BootOps \cup {"spawn"} => row[req[p].sess].status # "stopped"
    PROVE  LeaseInv'
  <1>1. LockedStep(p)
    BY DEF LockedStep, LockedPCs, TypeOK
  <1>2. snap'[p] = row[req[p].sess] /\ req' = req
    BY DEF TypeOK, Goto
  <1>3. SnapshotOf(p)'
    BY <1>2 DEF SnapshotOf, Exists
  <1> QED
    BY <1>1, <1>3, LockedSnapshots

(* The steps of a handler that owns its session's lease. *)
LEMMA LockedKeepsLeases ==
    ASSUME TypeOK, LeaseInv, NEW p \in Procs, NEW s \in Sessions,
           \/ NameTaken(p, s)
           \/ Refused(p, s) \/ StartProbe(p, s) \/ Verify(p, s) \/ VerifyConflict(p, s)
           \/ RotateKill(p, s) \/ RotateIdle(p, s) \/ Reattach(p, s) \/ Launch(p, s)
           \/ MarkOwner(p, s) \/ MarkGeneration(p, s) \/ MarkGone(p, s) \/ Commit(p, s)
           \/ StopProbe(p, s) \/ Kill(p, s) \/ Record(p, s) \/ Cleanup(p, s)
           \/ AttachArm(p, s) \/ PatchFlags(p, s) \/ (\E n \in Names : Patch(p, s, n))
           \/ Faulty(p, s)
    PROVE  LeaseInv'
  <1> USE DEF LoadedPCs, LaunchPCs, StopPCs
  <1>0. /\ OpFits(req[p].op, pc[p]) /\ SnapshotOf(p)
        /\ Target(p) \in Targets /\ Target(p) # NoTarget
        /\ \A t \in Targets : pane[t].inc \in Nat
        /\ row[s].inc \in Nat /\ row \in [Sessions -> Rows]
    <2>1. OpFits(req[p].op, pc[p]) /\ SnapshotOf(p)
      BY DEF LeaseInv, OpsInPlace, SnapshotIsCurrent
    <2>2. req[p].sess \in Sessions /\ snap[p] \in Rows /\ row \in [Sessions -> Rows]
      BY DEF TypeOK, RowsOK
    <2>3. Target(p) \in Targets /\ Target(p) # NoTarget
      BY <2>2, TargetsTyped, ConstantsTyped DEF Target
    <2>4. \A t \in Targets : pane[t].inc \in Nat
      BY DEF TypeOK, Panes
    <2>5. row[s].inc \in Nat
      BY <2>2, RowsTyped
    <2> QED
      BY <2>1, <2>2, <2>3, <2>4, <2>5
  <1>1. CASE Refused(p, s) \/ VerifyConflict(p, s) \/ NameTaken(p, s) \/ MarkGone(p, s) \/ Cleanup(p, s)
    BY <1>1, FinishKeepsLeases DEF Refused, VerifyConflict, NameTaken, MarkGone, Cleanup
  <1>2. CASE \/ CallFails(p, s) \/ LaunchFails(p, s) \/ MarkFails(p, s) \/ CommitFails(p, s)
             \/ ClientGone(p, s)
    BY <1>2, FinishKeepsLeases DEF CallFails, LaunchFails, MarkFails, CommitFails, ClientGone
  <1>3. CASE StartProbe(p, s)
    <2>1. PICK l \in {"launch", "verify", "reattach"} : Goto(p, l)
      BY <1>3 DEF StartProbe
    <2>2. OpFits(req[p].op, l)
      BY <1>3 DEF StartProbe, OpFits
    <2>3. req[p].op \in BootOps \cup {"spawn"} => row[s].status # "stopped"
      BY <1>3 DEF StartProbe, StartOps, StillWanted, BootOps
    <2> QED
      BY <1>3, <2>1, <2>2, <2>3, LoadKeepsLeases DEF StartProbe, At
  <1>4. CASE Verify(p, s)
    <2>0. /\ \A q \in Procs \ {p} : snap'[q] = snap[q]
          /\ snap'[p].ext = snap[p].ext
      BY <1>0, <1>4, NotedTyped DEF Verify
    <2>1. CASE req[p].op \notin StartOps
      <3>1. Goto(p, "kill")
        BY <1>4, <2>1 DEF Verify
      <3>2. OpFits(req[p].op, "kill")
        BY <1>0, <1>4, <2>1 DEF Verify, At, OpFits
      <3> QED
        BY <1>4, <3>1, <3>2, <2>0, GotoKeepsLeases DEF Verify, At
    <2>2. CASE req[p].op \in StartOps
      <3>1. PICK l \in {"reattach", "rotate"} : Goto(p, l)
        BY <1>4, <2>2 DEF Verify
      <3>2. OpFits(req[p].op, l)
        BY <2>2 DEF OpFits
      <3> QED
        BY <1>4, <3>1, <3>2, <2>0, GotoKeepsLeases DEF Verify, At
    <2> QED
      BY <2>1, <2>2
  <1>5. CASE RotateKill(p, s)
    <2>1. OpFits(req[p].op, "rotated")
      BY <1>0, <1>5 DEF RotateKill, At, OpFits
    <2> QED
      BY <1>5, <2>1, GotoKeepsLeases DEF RotateKill, At
  <1>6. CASE Launch(p, s) \/ MarkOwner(p, s) \/ MarkGeneration(p, s)
    <2>0. /\ \A q \in Procs \ {p} : snap'[q] = snap[q]
          /\ snap'[p].ext = snap[p].ext
      BY <1>0, <1>6, NotedTyped DEF Launch, MarkOwner, MarkGeneration
    <2>1. PICK l \in {"mark", "markGen", "commit"} : Goto(p, l)
      BY <1>6 DEF Launch, MarkOwner, MarkGeneration
    <2>2. OpFits(req[p].op, l)
      BY <1>0, <1>6 DEF Launch, MarkOwner, MarkGeneration, At, OpFits
    <2> QED
      BY <1>6, <2>0, <2>1, <2>2, GotoKeepsLeases DEF Launch, MarkOwner, MarkGeneration, At
  <1>7. CASE Kill(p, s)
    <2>1. OpFits(req[p].op, "record")
      BY <1>0, <1>7 DEF Kill, At, OpFits
    <2> QED
      BY <1>7, <2>1, GotoKeepsLeases DEF Kill, At
  <1>8. CASE RotateIdle(p, s)
    <2>1. SetRow(s, "idle", NoTarget, row[s].inc) /\ Goto(p, "launch") /\ snap' = snap
          /\ pc[p] = "rotated" /\ req[p].sess = s
      BY <1>8 DEF RotateIdle, At
    <2>2. /\ row'[s].status = "idle" /\ row'[s].ext = row[s].ext
          /\ \A q \in Sessions \ {s} : row'[q] = row[q]
      BY <1>0, <2>1, SetRowTyped DEF Statuses
    <2>3. OpFits(req[p].op, "launch")
      BY <1>0, <2>1 DEF OpFits
    <2>4. LockedStep(p)
      BY <2>1, <2>2, <2>3 DEF LockedStep, LockedPCs
    <2>5. SnapshotOf(p)'
      BY <1>0, <2>1, <2>2 DEF SnapshotOf, Exists, Goto
    <2> QED
      BY <2>4, <2>5, LockedSnapshots
  <1>9. CASE Reattach(p, s) \/ Commit(p, s)
    <2>1. /\ row' = row \/ SetRow(s, "running", Target(p), pane[Target(p)].inc)
          /\ Finish(p) /\ pc[p] \in LockedPCs /\ req[p].sess = s
      BY <1>9 DEF Reattach, Commit, At, LockedPCs
    <2>2. \A q \in Sessions \ {s} : row'[q] = row[q]
      BY <1>0, <2>1, SetRowTyped DEF Statuses
    <2> QED
      BY <2>1, <2>2, FinishWritesOwnRow
  <1>10. CASE AttachArm(p, s) \/ PatchFlags(p, s) \/ (\E n \in Names : Patch(p, s, n))
    <2>1. Finish(p) /\ pc[p] \in LockedPCs /\ req[p].sess = s
      BY <1>10 DEF AttachArm, PatchFlags, Patch, At, LockedPCs
    <2>2. \A q \in Sessions \ {s} : row'[q] = row[q]
      BY <1>0, <1>10 DEF AttachArm, PatchFlags, Patch, SetRow
    <2> QED
      BY <2>1, <2>2, FinishWritesOwnRow
  <1>11. CASE StopProbe(p, s)
    <2>1. PICK l \in {"record", "kill", "verify"} : Goto(p, l)
      BY <1>11 DEF StopProbe, Teardown
    <2>2. OpFits(req[p].op, l) /\ req[p].op \notin BootOps \cup {"spawn"}
      BY <1>11 DEF StopProbe, OpFits, StopOps, DeleteOps, BootOps
    <2> QED
      BY <1>11, <2>1, <2>2, LoadKeepsLeases DEF StopProbe, At
  <1>12. CASE DeleteUntorn(p, s)
    <2>1. OpFits(req[p].op, "record") /\ req[p].op \notin BootOps \cup {"spawn"}
      BY <1>12 DEF DeleteUntorn, OpFits, StopOps, DeleteOps, BootOps
    <2>2. CASE pc[p] = "kill"
      BY <1>12, <2>1, <2>2, GotoKeepsLeases DEF DeleteUntorn, At, TypeOK
    <2>3. CASE pc[p] = "locked"
      BY <1>12, <2>1, <2>3, LoadKeepsLeases DEF DeleteUntorn, At
    <2> QED
      BY <1>12, <2>2, <2>3 DEF DeleteUntorn, At
  <1>13. CASE Record(p, s)
    <2>1. CASE req[p].op \in DeleteOps
      BY <1>13, <2>1, FinishWritesOwnRow DEF Record, At, LockedPCs, TypeOK, RowsOK
    <2>2. CASE req[p].op \notin DeleteOps
      <3>1. /\ SetRow(s, "stopped", IF snap[p].ext THEN Target(p) ELSE NoTarget, row[s].inc)
            /\ Goto(p, "cleanup") /\ snap' = snap /\ pc[p] = "record" /\ req[p].sess = s
        BY <1>13, <2>2 DEF Record, At
      <3>2. /\ row'[s].status = "stopped" /\ row'[s].ext = row[s].ext
            /\ \A q \in Sessions \ {s} : row'[q] = row[q]
        BY <1>0, <3>1, SetRowTyped DEF Statuses
      <3>3. OpFits(req[p].op, "cleanup") /\ req[p].op \notin BootOps \cup {"spawn"}
        BY <1>0, <3>1 DEF OpFits, StopOps, DeleteOps, BootOps
      <3>4. LockedStep(p)
        BY <3>1, <3>2, <3>3 DEF LockedStep, LockedPCs
      <3>5. SnapshotOf(p)'
        BY <1>0, <3>1, <3>2, <3>3 DEF SnapshotOf, Exists, Goto
      <3> QED
        BY <3>4, <3>5, LockedSnapshots
    <2> QED
      BY <2>1, <2>2
  <1> QED
    BY <1>1, <1>2, <1>3, <1>4, <1>5, <1>6, <1>7, <1>8, <1>9, <1>10, <1>11, <1>12, <1>13 DEF Faulty

(* A step of one waiting handler: its own place moves, and the row only if *)
(* nobody had it yet.                                                      *)
LEMMA AcquireKeepsLeases ==
    ASSUME TypeOK, LeaseInv, NEW p \in Procs, NEW s \in Sessions,
           \/ AcquireHost(p, s) \/ EnterHandoff(p, s) \/ Adopt(p, s) \/ PassGate(p, s)
           \/ AcquireSession(p, s)
    PROVE  LeaseInv'
  <1> USE DEF LoadedPCs, LaunchPCs, StopPCs
  <1>0. /\ \A q \in Procs \ {p} : pc'[q] = pc[q]
        /\ req' = req /\ row' = row /\ snap' = snap /\ req[p].sess = s
        /\ pc[p] \in {"host", "handoff", "adopt", "gate", "session"}
        /\ OpFits(req[p].op, pc[p]) /\ NoProc \notin Procs
    BY DistinctAssumption
       DEF AcquireHost, EnterHandoff, Adopt, PassGate, AcquireSession, At, Goto, TypeOK,
           LeaseInv, OpsInPlace
  <1>1. \/ pc'[p] \in {"handoff", "insert", "gate"} /\ AcquireHost(p, s)
        \/ pc'[p] = "insert" /\ EnterHandoff(p, s)
        \/ pc'[p] = "launch" /\ Adopt(p, s)
        \/ pc'[p] = "session" /\ PassGate(p, s)
        \/ pc'[p] = "locked" /\ AcquireSession(p, s)
    BY DEF AcquireHost, EnterHandoff, Adopt, PassGate, AcquireSession, Goto, TypeOK
  <1>2. LeasesMatch'
    <2>1. CASE AcquireHost(p, s)
      BY <1>0, <2>1, HostOfAssumption
         DEF AcquireHost, At, LeaseInv, LeasesMatch, OpFits, TypeOK, HostPCs, LockedPCs,
             GatedPCs, PatchOps, CreateOps
    <2>2. CASE EnterHandoff(p, s)
      BY <1>0, <2>2
         DEF EnterHandoff, At, LeaseInv, LeasesMatch, OpFits, TypeOK, HostPCs, LockedPCs, GatedPCs
    <2>3. CASE Adopt(p, s)
      BY <1>0, <2>3
         DEF Adopt, At, LeaseInv, LeasesMatch, OpFits, TypeOK, HostPCs, LockedPCs, GatedPCs
    <2>4. CASE PassGate(p, s)
      BY <1>0, <2>4
         DEF PassGate, Goto, At, LeaseInv, LeasesMatch, TypeOK, HostPCs, LockedPCs, GatedPCs
    <2>5. CASE AcquireSession(p, s)
      BY <1>0, <2>5
         DEF AcquireSession, At, LeaseInv, LeasesMatch, TypeOK, HostPCs, LockedPCs, GatedPCs
    <2> QED
      BY <2>1, <2>2, <2>3, <2>4, <2>5
  <1>3. OpFits(req[p].op, pc'[p])
    <2>1. CASE AcquireHost(p, s)
      BY <1>0, <2>1 DEF AcquireHost, At, TypeOK, OpFits, CreateOps
    <2>2. CASE ~AcquireHost(p, s)
      BY <1>0, <1>1, <2>2 DEF EnterHandoff, Adopt, PassGate, AcquireSession, At, OpFits, CreateOps
    <2> QED
      BY <2>1, <2>2
  <1>4. OpsInPlace'
    BY <1>0, <1>1, <1>3 DEF LeaseInv, OpsInPlace
  <1>5. ASSUME NEW x \in Procs PROVE PrivateTo(x)'
    <2>1. PrivateTo(x) /\ PrivateTo(p)
      BY DEF LeaseInv, NewIdIsPrivate
    <2>2. CASE x = p
      BY <1>0, <1>1, <1>3, <2>1, <2>2
         DEF PrivateTo, OpFits, AcquireHost, EnterHandoff, Adopt, PassGate, AcquireSession, At,
             CreateOps
    <2>3. CASE x # p /\ pc[x] = "adopt" /\ req[x].sess = s
      <3>1. gate = x /\ hostLease[HostOf[s]] = x /\ pc[p] \in {"host", "gate"}
        BY <1>0, <2>1, <2>3, HostOfAssumption
           DEF LeaseInv, LeasesMatch, OpsInPlace, OpFits, GatedPCs, HostPCs, PatchOps, PrivateTo, TypeOK
      <3> QED
        BY <1>0, <1>1, <2>3, <3>1 DEF AcquireHost, PassGate, EnterHandoff, Adopt, AcquireSession, At
    <2>4. CASE x # p /\ ~(pc[x] = "adopt" /\ req[x].sess = s)
      BY <1>0, <2>1, <2>4 DEF PrivateTo
    <2> QED
      BY <2>2, <2>3, <2>4
  <1>6. ASSUME NEW x \in Procs PROVE SnapshotOf(x)'
    <2>1. SnapshotOf(x)
      BY DEF LeaseInv, SnapshotIsCurrent
    <2>2. CASE x = p
      BY <1>0, <1>1, <2>1, <2>2 DEF SnapshotOf, Exists, Adopt, At
    <2>3. CASE x # p
      BY <1>0, <2>1, <2>3 DEF SnapshotOf, Exists
    <2> QED
      BY <2>2, <2>3
  <1> QED
    BY <1>2, <1>4, <1>5, <1>6 DEF LeaseInv, NewIdIsPrivate, SnapshotIsCurrent

(* A request is taken in: it has no lease yet and knows only a row that is *)
(* there, or an id that is its own.                                        *)
LEMMA RequestKeepsLeases ==
    ASSUME TypeOK, LeaseInv, NEW p \in Procs, NEW s \in Sessions, NEW op \in Ops,
           pc[p] = "idle", row' = row, snap' = snap,
           hostLease' = hostLease, sessLease' = sessLease, gate' = gate,
           req' = [req EXCEPT ![p] = [op |-> op, sess |-> s]],
           \/ pc' = [pc EXCEPT ![p] = "host"] /\ op \notin PatchOps
           \/ pc' = [pc EXCEPT ![p] = "gate"] /\ op \in PatchOps
           \/ pc' = pc,
           op \in BootOps <=> p = Boot,
           \/ Exists(s) /\ op \notin CreateOps \cup {"attach"}
           \/ pc' = pc
           \/ /\ op \in CreateOps \cup {"attach"}
              /\ row[s].status = "unborn" \/ (op = "attach" /\ row[s].target = UserTarget(s))
              /\ \A q \in Procs :
                    pc[q] # "idle" /\ req[q].sess = s => Exists(s) \/ {op, req[q].op} = {"attach"}
    PROVE  LeaseInv'
  <1> USE DEF LoadedPCs, LaunchPCs, StopPCs
  <1>0. /\ \A q \in Procs \ {p} : pc'[q] = pc[q] /\ req'[q] = req[q]
        /\ req'[p].op = op /\ req'[p].sess = s
        /\ pc'[p] \in {"idle", "host", "gate"}
    BY DEF TypeOK
  <1>1. LeasesMatch'
    BY <1>0 DEF LeaseInv, LeasesMatch, HostPCs, LockedPCs, GatedPCs, TypeOK
  <1>2. OpsInPlace'
    BY <1>0 DEF LeaseInv, OpsInPlace, OpFits, TypeOK, PatchOps, CreateOps
  <1>3. ASSUME NEW x \in Procs PROVE PrivateTo(x)'
    <2>1. PrivateTo(x)
      BY DEF LeaseInv, NewIdIsPrivate
    <2>2. CASE x = p
      BY <1>0, <2>2 DEF PrivateTo, Exists, CreateOps
    <2>3. CASE x # p /\ (pc[x] # "adopt" \/ req[x].sess # s \/ pc'[p] = "idle")
      <3>1. pc[x] \in {"host", "handoff", "insert"} /\ req[x].op \in CreateOps /\ req[x].sess = s
              => pc'[p] = "idle"
        BY <1>0, <2>1, <2>3 DEF PrivateTo, Exists, CreateOps, TypeOK
      <3> QED
        BY <1>0, <2>1, <2>3, <3>1 DEF PrivateTo
    <2>4. CASE x # p /\ pc[x] = "adopt" /\ req[x].sess = s
      BY <1>0, <2>1, <2>4 DEF PrivateTo
    <2> QED
      BY <2>2, <2>3, <2>4
  <1>4. SnapshotIsCurrent'
    BY <1>0 DEF LeaseInv, SnapshotIsCurrent, SnapshotOf, Exists
  <1> QED
    BY <1>1, <1>2, <1>3, <1>4 DEF LeaseInv, NewIdIsPrivate

(* The insert of a row that nobody could know of. *)
LEMMA InsertKeepsLeases ==
    ASSUME TypeOK, LeaseInv, NEW p \in Procs, NEW s \in Sessions, Insert(p, s)
    PROVE  LeaseInv'
  <1> USE DEF LoadedPCs, LaunchPCs, StopPCs
  <1>0. /\ pc[p] = "insert" /\ req[p].sess = s /\ OpFits(req[p].op, "insert") /\ PrivateTo(p)
        /\ row \in [Sessions -> Rows]
    BY DEF Insert, At, LeaseInv, OpsInPlace, NewIdIsPrivate, TypeOK, RowsOK
  <1>1. CASE row' = row /\ Finish(p)
    BY <1>1, FinishKeepsLeases
  <1> DEFINE found == /\ pane[UserTarget(s)].live
                      /\ row[s].status = "unborn" \/ row[s].target = UserTarget(s)
  <1>2. CASE req[p].op = "attach" /\ found
    <2>1. /\ Goto(p, "gate") /\ snap' = snap
          /\ row' = row \/ (~Exists(s) /\ row' = [row EXCEPT ![s] = ExternalRow(s)])
          /\ row[s].status = "unborn" \/ row[s].target = UserTarget(s)
      BY <1>2 DEF Insert
    <2>2. /\ \A q \in Procs \ {p} : pc'[q] = pc[q]
          /\ pc'[p] = "gate" /\ req' = req
          /\ \A q \in Sessions \ {s} : row'[q] = row[q]
      BY <1>0, <2>1 DEF Goto, TypeOK
    <2>3. LeasesMatch' /\ OpsInPlace'
      BY <1>0, <1>2, <2>1, <2>2
         DEF LeaseInv, LeasesMatch, OpsInPlace, OpFits, Goto, HostPCs, LockedPCs, GatedPCs,
             CreateOps, BootOps
    <2>4. ASSUME NEW x \in Procs PROVE PrivateTo(x)'
      <3>1. PrivateTo(x)
        BY DEF LeaseInv, NewIdIsPrivate
      <3>2. CASE x = p
        BY <1>2, <2>2, <3>2 DEF PrivateTo, CreateOps
      <3>3. CASE x # p /\ req[x].sess = s
        BY <1>0, <2>2, <3>1, <3>3 DEF PrivateTo
      <3>4. CASE x # p /\ req[x].sess # s
        BY <1>0, <2>2, <3>1, <3>4 DEF PrivateTo, TypeOK
      <3> QED
        BY <3>2, <3>3, <3>4
    <2>5. ASSUME NEW x \in Procs PROVE SnapshotOf(x)'
      <3>1. SnapshotOf(x)
        BY DEF LeaseInv, SnapshotIsCurrent
      <3>2. CASE req[x].sess = s
        <4>1. x = p \/ pc[x] \notin {"adopt"} \cup LoadedPCs \/ row' = row
          BY <2>1, <3>1, <3>2 DEF SnapshotOf
        <4> QED
          BY <2>1, <2>2, <3>1, <3>2, <4>1 DEF SnapshotOf, Exists
      <3>3. CASE req[x].sess # s
        BY <2>1, <2>2, <3>1, <3>3 DEF SnapshotOf, Exists, TypeOK
      <3> QED
        BY <3>2, <3>3
    <2> QED
      BY <2>3, <2>4, <2>5 DEF LeaseInv, NewIdIsPrivate, SnapshotIsCurrent
  <1>3. CASE req[p].op \in CreateOps
    <2>1. /\ row[s].status = "unborn"
          /\ \A q \in Procs \ {p} : req[q].sess = s => pc[q] = "idle"
      BY <1>0, <1>3 DEF PrivateTo
    <2>2. row' = [row EXCEPT ![s] = NewRow] /\ row'[s] = NewRow
          /\ \A q \in Sessions \ {s} : row'[q] = row[q]
      BY <1>0, <1>3 DEF Insert, CreateOps
    <2>3. /\ NewRow.status = "idle" /\ NewRow.target = NoTarget /\ NewRow.ext = FALSE
      BY NewRowsTyped
    <2>4. \/ Finish(p)
          \/ req[p].op = "spawn" /\ Goto(p, "adopt") /\ snap' = [snap EXCEPT ![p] = row'[s]]
      BY <1>0, <1>3 DEF Insert, CreateOps
    <2>5. /\ \A q \in Procs \ {p} : pc'[q] = pc[q] /\ req'[q] = req[q] /\ snap'[q] = snap[q]
          /\ \/ pc'[p] = "idle"
             \/ pc'[p] = "adopt" /\ req' = req /\ req[p].op = "spawn" /\ snap'[p] = NewRow
      BY <2>2, <2>4 DEF Finish, Goto, TypeOK
    <2>6. LeasesMatch'
      <3>1. CASE Finish(p)
        BY <3>1, FinishLeases DEF LeaseInv
      <3>2. CASE Goto(p, "adopt") /\ req[p].op = "spawn"
        BY <1>0, <3>2 DEF LeaseInv, LeasesMatch, Goto, HostPCs, LockedPCs, GatedPCs, TypeOK
      <3> QED
        BY <2>4, <3>1, <3>2
    <2>7. OpsInPlace'
      BY <1>0, <2>5 DEF LeaseInv, OpsInPlace, OpFits
    <2>8. ASSUME NEW x \in Procs PROVE PrivateTo(x)'
      <3>1. PrivateTo(x)
        BY DEF LeaseInv, NewIdIsPrivate
      <3>2. CASE x = p
        BY <1>0, <2>1, <2>2, <2>3, <2>5, <3>2 DEF PrivateTo
      <3>3. CASE x # p /\ req[x].sess = s
        BY <2>1, <2>5, <3>3 DEF PrivateTo
      <3>4. CASE x # p /\ req[x].sess # s
        <4>1. \A q \in Procs \ {x} : req'[q].sess = req[x].sess =>
                 pc'[q] = "idle" \/ (pc'[q] = pc[q] /\ req'[q] = req[q])
          BY <1>0, <2>5, <3>4
        <4>2. /\ row'[req[x].sess] = row[req[x].sess]
              /\ pc'[x] = pc[x] /\ req'[x] = req[x]
          BY <2>2, <2>5, <3>4 DEF TypeOK
        <4> QED
          BY <3>1, <4>1, <4>2 DEF PrivateTo
      <3> QED
        BY <3>2, <3>3, <3>4
    <2>9. ASSUME NEW x \in Procs PROVE SnapshotOf(x)'
      <3>1. SnapshotOf(x)
        BY DEF LeaseInv, SnapshotIsCurrent
      <3>2. CASE x = p
        BY <1>0, <2>2, <2>3, <2>5, <3>2 DEF SnapshotOf, Exists
      <3>3. CASE x # p /\ req[x].sess = s
        BY <2>1, <2>5, <3>3 DEF SnapshotOf
      <3>4. CASE x # p /\ req[x].sess # s
        BY <2>2, <2>5, <3>1, <3>4 DEF SnapshotOf, Exists, TypeOK
      <3> QED
        BY <3>2, <3>3, <3>4
    <2> QED
      BY <2>6, <2>7, <2>8, <2>9 DEF LeaseInv, NewIdIsPrivate, SnapshotIsCurrent
  <1>4. req[p].op = "attach" /\ ~found => row' = row /\ Finish(p)
    BY DEF Insert
  <1> QED
    BY <1>0, <1>1, <1>2, <1>3, <1>4 DEF OpFits

(* The watchdog writes rows without a lease: only to touch one that is     *)
(* there, or to retire one that was Running.                               *)
LEMMA ObserverKeepsLeases ==
    ASSUME TypeOK, LeaseInv, UNCHANGED <<control, snap>>,
           NEW s \in Sessions,
           \A q \in Sessions \ {s} : row'[q] = row[q],
           \/ row'[s] = row[s]
           \/ /\ Exists(s) /\ row'[s].ext = row[s].ext
              /\ row'[s].status = row[s].status /\ row'[s].target = row[s].target
           \/ /\ row[s].status = "running" /\ row'[s].status = "crashed"
              /\ row'[s].ext = row[s].ext
    PROVE  LeaseInv'
  <1>1. LeasesMatch' /\ OpsInPlace'
    BY DEF LeaseInv, LeasesMatch, OpsInPlace, control
  <1>2. ASSUME NEW x \in Procs PROVE PrivateTo(x)' /\ SnapshotOf(x)'
    <2>1. PrivateTo(x) /\ SnapshotOf(x) /\ req[x].sess \in Sessions
      BY DEF LeaseInv, NewIdIsPrivate, SnapshotIsCurrent, TypeOK
    <2>2. CASE req[x].sess = s
      BY <2>1, <2>2 DEF PrivateTo, SnapshotOf, Exists, control
    <2>3. CASE req[x].sess # s
      BY <2>1, <2>3 DEF PrivateTo, SnapshotOf, Exists, control
    <2> QED
      BY <2>2, <2>3
  <1> QED
    BY <1>1, <1>2 DEF LeaseInv, NewIdIsPrivate, SnapshotIsCurrent

LEMMA InitLeases == Init => LeaseInv
  <1> SUFFICES ASSUME Init PROVE LeaseInv
    OBVIOUS
  <1> USE DEF LoadedPCs, LaunchPCs, StopPCs
  <1>1. LeasesMatch
    BY DistinctAssumption DEF Init, LeasesMatch, HostPCs, LockedPCs, GatedPCs
  <1>2. OpsInPlace /\ NewIdIsPrivate /\ SnapshotIsCurrent
    BY DEF Init, OpsInPlace, OpFits, NewIdIsPrivate, PrivateTo, SnapshotIsCurrent, SnapshotOf
  <1> QED
    BY <1>1, <1>2 DEF LeaseInv

LEMMA NextLeases == TypeOK /\ LeaseInv /\ [Next]_vars => LeaseInv'
  <1> SUFFICES ASSUME TypeOK, LeaseInv, [Next]_vars PROVE LeaseInv'
    OBVIOUS
  <1>1. CASE UNCHANGED vars
    BY <1>1 DEF vars, LeaseInv, LeasesMatch, OpsInPlace, NewIdIsPrivate, PrivateTo,
                SnapshotIsCurrent, SnapshotOf, Exists
  <1>2. ASSUME NEW p \in Procs, NEW s \in Sessions, NEW op \in Ops, Request(p, op, s)
        PROVE  LeaseInv'
    <2>1. op \notin BootOps \cup CreateOps \cup {"attach"} /\ p # Boot
      BY <1>2, DistinctAssumption DEF Request, UserOps, BootOps, CreateOps
    <2> QED
      BY <1>2, <2>1, RequestKeepsLeases DEF Request, leases, PatchOps
  <1>3. ASSUME NEW p \in Procs, NEW s \in Sessions, NEW op \in Ops, RequestNew(p, op, s)
        PROVE  LeaseInv'
    <2>1. op \in CreateOps \cup {"attach"} /\ op \notin BootOps \cup PatchOps /\ p # Boot
      BY <1>3, DistinctAssumption DEF RequestNew, BootOps, CreateOps, PatchOps
    <2> QED
      BY <1>3, <2>1, RequestKeepsLeases DEF RequestNew, leases
  <1>4. ASSUME NEW p \in Procs, NEW s \in Sessions, Acquire(p, s) \/ Advance(p, s) \/ Faulty(p, s)
        PROVE  LeaseInv'
    BY <1>4, AcquireKeepsLeases, InsertKeepsLeases, LockedKeepsLeases DEF Acquire, Advance
  <1>5. CASE BootList \/ BootListRunning \/ BootDone \/ ReconcileList \/ ReconcileApply
    BY <1>5 DEF BootList, BootListRunning, BootDone, ReconcileList, ReconcileApply, control,
                LeaseInv, LeasesMatch, OpsInPlace, NewIdIsPrivate, PrivateTo,
                SnapshotIsCurrent, SnapshotOf, Exists
  <1>6. ASSUME NEW s \in Sessions, BootNext(s)
        PROVE  LeaseInv'
    <2> DEFINE op == IF s \in boot.idle THEN "resume" ELSE "reprovision"
    <2>1. /\ op \in Ops /\ op \in BootOps
          /\ op \notin PatchOps \cup CreateOps \cup {"attach"}
      BY DEF Ops, BootOps, PatchOps, CreateOps
    <2>2. /\ req' = [req EXCEPT ![Boot] = [op |-> op, sess |-> s]]
          /\ pc[Boot] = "idle" /\ row' = row /\ snap' = snap
          /\ hostLease' = hostLease /\ sessLease' = sessLease /\ gate' = gate
          /\ \/ Exists(s) /\ pc' = [pc EXCEPT ![Boot] = "host"]
             \/ pc' = pc
      BY <1>6 DEF BootNext, leases, TypeOK
    <2> HIDE DEF op
    <2> QED
      BY <2>1, <2>2, RequestKeepsLeases, ConstantsTyped
  <1>7. CASE Crash
    BY <1>7, DistinctAssumption
       DEF Crash, LeaseInv, LeasesMatch, OpsInPlace, OpFits, NewIdIsPrivate, PrivateTo,
           SnapshotIsCurrent, SnapshotOf, HostPCs, LockedPCs, LoadedPCs, LaunchPCs, StopPCs, GatedPCs
  <1>8. ASSUME NEW s \in Sessions, SampleCrash(s) \/ SampleTool(s) PROVE LeaseInv'
    BY <1>8, ObserverKeepsLeases DEF SampleCrash, SampleTool, control
  <1>9. ASSUME NEW s \in Sessions, PatchTool(s) PROVE LeaseInv'
    <2>1. /\ \A q \in Sessions \ {s} : row'[q] = row[q]
          /\ \/ row'[s] = row[s]
             \/ /\ Exists(s) /\ row'[s].ext = row[s].ext
                /\ row'[s].status = row[s].status /\ row'[s].target = row[s].target
      BY <1>9 DEF PatchTool, TypeOK, RowsOK, Rows
    <2> QED
      BY <1>9, <2>1, ObserverKeepsLeases DEF PatchTool, control
  <1>10. ASSUME NEW s \in Sessions, CommitCrash(s) PROVE LeaseInv'
    <2>1. row[s].inc \in Nat
      BY RowsTyped DEF TypeOK, RowsOK
    <2>2. \/ row' = row
          \/ /\ row[s].status = "running" /\ row'[s].status = "crashed"
             /\ row'[s].ext = row[s].ext
             /\ \A q \in Sessions \ {s} : row'[q] = row[q]
      BY <1>10, <2>1, SetRowTyped DEF CommitCrash, Matches, Statuses
    <2> QED
      BY <1>10, <2>2, ObserverKeepsLeases DEF CommitCrash, control
  <1>11. CASE \/ \E t \in Targets : PaneExits(t) \/ PrintsSignature(t)
              \/ \E s \in Sessions : UserCreatesPane(s)
    <2>1. UNCHANGED <<row, control, snap>>
      BY <1>11 DEF PaneExits, PrintsSignature, UserCreatesPane
    <2> QED
      BY <2>1 DEF control, LeaseInv, LeasesMatch, OpsInPlace, NewIdIsPrivate, PrivateTo,
                  SnapshotIsCurrent, SnapshotOf, Exists
  <1> QED
    BY <1>1, <1>2, <1>3, <1>4, <1>5, <1>6, <1>7, <1>8, <1>9, <1>10, <1>11
       DEF Next, Handlers, Startup, Watchdog, World

(* Each handler holds exactly the leases its place calls for, a new id is  *)
(* private until locked, and what was loaded under a lease stays true.     *)
THEOREM LeasesHold == Spec => []LeaseInv
  <1>1. Init => LeaseInv
    BY InitLeases
  <1>2. TypeOK /\ LeaseInv /\ [Next]_vars => LeaseInv'
    BY NextLeases
  <1> QED
    BY <1>1, <1>2, TypeCorrect, PTL DEF Spec

(* The .expect on the new session's lock in create_and_spawn_session and   *)
(* claim_card_and_spawn_session never panics.                              *)
THEOREM HandoffSafe == Spec => []HandoffNeverPanics
  <1>1. TypeOK /\ LeaseInv => HandoffNeverPanics
    <2> SUFFICES ASSUME TypeOK, LeaseInv, NEW p \in Procs, pc[p] = "adopt",
                        sessLease[req[p].sess] # NoProc
                 PROVE  FALSE
      BY DEF HandoffNeverPanics
    <2>1. PICK q \in Procs : sessLease[req[p].sess] = q
      BY DEF TypeOK
    <2>2. pc[q] \in LockedPCs /\ req[q].sess = req[p].sess
      BY <2>1 DEF LeaseInv, LeasesMatch, TypeOK
    <2> QED
      BY <2>2 DEF LeaseInv, NewIdIsPrivate, PrivateTo, LockedPCs, LoadedPCs, LaunchPCs, StopPCs
  <1> QED
    BY <1>1, TypeCorrect, LeasesHold, PTL
===============================================================================
