----------------------------- MODULE SshControl -----------------------------
(***************************************************************************)
(* The pooled ssh connections of one saved host: the ControlMasters that   *)
(* every remote command rides, the reverse forward through which agents on *)
(* the host reach this daemon, and the host edits that replace both.       *)
(*                                                                         *)
(* Masters are processes outside the daemon: they survive its crash, die   *)
(* on their own, and are found again under a socket path derived from the  *)
(* host's row and its revision.  The daemon only remembers which forward   *)
(* it armed on which master.                                               *)
(***************************************************************************)
EXTENDS Integers, FiniteSets

CONSTANTS
  MaxHostRev,   \* bound: edits of the host row
  MaxBoots,     \* bound: daemon starts; each has its own listening port
  MaxFaults     \* bound: deaths, timeouts and refusals

ASSUME SshAssumption ==
  /\ MaxHostRev \in Nat \ {0} /\ MaxBoots \in Nat \ {0} /\ MaxFaults \in Nat

VARIABLES
  row,       \* the saved host: "saved" or "gone", and its revision
  master,    \* per role and revision: the generation and what it forwards
  lastGen,   \* interactive masters opened so far: the last one's generation
  tunnels,   \* reverse_tunnels: forwards wanted, with the generation they ride
  legacy,    \* a master of an older release still runs and holds the port
  retired,   \* legacy_retired_revisions: the revision it was retired for
  hostLock,  \* who holds the host's lifecycle lock
  op,        \* per actor: its place, and the revision it works with
  boots,     \* daemon starts; the listening port of this one
  bootPass,  \* this boot's reset of the host: "due", "reset" or "failed"
  faults     \* faults so far

sshVars == <<row, master, lastGen, tunnels, legacy, retired, hostLock, op,
             boots, bootPass, faults>>

Roles == {"interactive", "streaming"}
Revs == 1..MaxHostRev
Actors == {"warmer", "session", "boot", "edit", "remove", "exec"}
Listed == {"warmer", "boot"}
NoOne == "noOne"

Dead == [gen |-> 0, fwd |-> {}]
IdleOp == [pc |-> "idle", rev |-> 0, gen |-> 0, runs |-> 0]

SshInit ==
  /\ row = [saved |-> TRUE, rev |-> 1]
  /\ master = [r \in Roles |-> [v \in Revs |-> Dead]]
  /\ lastGen = 0 /\ tunnels = {} /\ legacy \in BOOLEAN /\ retired = 0
  /\ hostLock = NoOne /\ op = [a \in Actors |-> IdleOp]
  /\ boots = 1 /\ bootPass = "due" /\ faults = 0

-----------------------------------------------------------------------------
(* Helpers                                                                 *)

Fault == faults < MaxFaults /\ faults' = faults + 1
NoFault == UNCHANGED faults

HoldsLock(a, pc) == hostLock = a /\ op[a].pc = pc
Goto(a, pc) == op' = [op EXCEPT ![a].pc = pc] /\ UNCHANGED hostLock
EndOp(a) == op' = [op EXCEPT ![a] = IdleOp] /\ hostLock' = NoOne

MacPort == boots
MasterUp(r, v) == master[r][v].gen # 0
ClosedFor(v) == [r \in Roles |-> [master[r] EXCEPT ![v] = Dead]]

\* The stable remote port is bound by any live forward other than ours.
PortTaken(v) ==
  \/ legacy
  \/ \E u \in Revs \ {v}: master["interactive"][u].fwd # {}
  \/ master["interactive"][v].fwd \notin {{}, {MacPort}}

\* ControlMaster=auto: a command opens the master its socket path lacks.  Only
\* the interactive role's generation matters to anyone.
OpenMaster(r, v) ==
  /\ lastGen' = IF r = "interactive" THEN lastGen + 1 ELSE lastGen
  /\ master' = [master EXCEPT ![r][v] =
                  [gen |-> IF r = "interactive" THEN lastGen + 1 ELSE 1,
                   fwd |-> {}]]

-----------------------------------------------------------------------------
(* Taking the host's lifecycle lock                                        *)

\* The warmer and the boot pass pick the host from a list read before they
\* have the lock: what they read may go stale.
Begin(a) ==
  /\ op[a].pc = "idle" /\ row.saved
  /\ a = "boot" => bootPass = "due"
  /\ op' = [op EXCEPT ![a] = [IdleOp EXCEPT !.pc = "queued", !.rev = row.rev]]
  /\ UNCHANGED <<row, master, lastGen, tunnels, legacy, retired, hostLock,
                 boots, bootPass, faults>>

FirstStep(a) ==
  CASE a \in {"warmer", "session"} -> "legacy"
    [] a = "boot" -> "reset"
    [] a \in {"edit", "remove"} -> "close"
    [] a = "exec" -> "attempt"

\* Fault: the caller goes on with the revision it read before it got the lock.
AcquireStale(a) ==
  /\ hostLock = NoOne
  /\ op[a].pc = IF a \in Listed THEN "queued" ELSE "idle"
  /\ a \in Listed \/ row.saved
  /\ a = "edit" => row.rev < MaxHostRev
  /\ hostLock' = a
  /\ op' = [op EXCEPT ![a].pc = FirstStep(a),
                      ![a].rev = IF a \in Listed THEN @ ELSE row.rev]
  /\ UNCHANGED <<row, master, lastGen, tunnels, legacy, retired, boots,
                 bootPass, faults>>

\* With the lock held the row is read again.
Acquire(a) ==
  /\ hostLock = NoOne
  /\ op[a].pc = IF a \in Listed THEN "queued" ELSE "idle"
  /\ a \in Listed \/ row.saved
  /\ a = "edit" => row.rev < MaxHostRev
  /\ IF row.saved
     THEN /\ hostLock' = a
          /\ op' = [op EXCEPT ![a].pc = FirstStep(a), ![a].rev = row.rev]
     ELSE /\ op' = [op EXCEPT ![a] = IdleOp]
          /\ UNCHANGED hostLock
  /\ UNCHANGED <<row, master, lastGen, tunnels, legacy, retired, boots,
                 bootPass, faults>>

-----------------------------------------------------------------------------
(* warm_ssh_master, and ensure_reverse_tunnel after it                     *)

RetireLegacy(a) ==
  /\ HoldsLock(a, "legacy")
  /\ \/ /\ retired = op[a].rev /\ Goto(a, "probe")
        /\ NoFault /\ UNCHANGED <<legacy, retired>>
     \/ /\ retired # op[a].rev /\ Goto(a, "probe")
        /\ legacy' = FALSE /\ retired' = op[a].rev /\ NoFault
     \/ /\ retired # op[a].rev /\ EndOp(a) /\ Fault
        /\ UNCHANGED <<legacy, retired>>
  /\ UNCHANGED <<row, master, lastGen, tunnels, boots, bootPass>>

\* probe_or_repair_pooled_master_locked for one role: a healthy or merely busy
\* master is kept, one that times out or lost its socket is evicted and opened
\* again, a missing one is opened.
ProbeRepair(a, r) ==
  LET v == op[a].rev
  IN \/ MasterUp(r, v) /\ NoFault /\ UNCHANGED <<master, lastGen>>
     \/ ~MasterUp(r, v) /\ NoFault /\ OpenMaster(r, v)
     \/ MasterUp(r, v) /\ Fault /\ OpenMaster(r, v)

\* The interactive role must come up; the streaming one is best effort.
WarmStreaming(a) ==
  /\ HoldsLock(a, "probe")
  /\ \/ ProbeRepair(a, "streaming")
     \/ Fault /\ UNCHANGED <<master, lastGen>>
  /\ Goto(a, "interactive")
  /\ UNCHANGED <<row, tunnels, legacy, retired, boots, bootPass>>

WarmInteractive(a) ==
  /\ HoldsLock(a, "interactive")
  /\ \/ ProbeRepair(a, "interactive") /\ Goto(a, "generation")
     \/ Fault /\ EndOp(a) /\ UNCHANGED <<master, lastGen>>
  /\ UNCHANGED <<row, tunnels, legacy, retired, boots, bootPass>>

\* verified_control_master_generation.
CheckGeneration(a) ==
  /\ HoldsLock(a, "generation")
  /\ IF MasterUp("interactive", op[a].rev)
     THEN /\ op' = [op EXCEPT ![a].pc = "rearm",
                              ![a].gen = master["interactive"][op[a].rev].gen]
          /\ UNCHANGED hostLock
     ELSE EndOp(a)
  /\ NoFault
  /\ UNCHANGED <<row, master, lastGen, tunnels, legacy, retired, boots,
                 bootPass>>

\* ssh -O forward: bound or already in place; a timeout may come after the
\* master did it.
Arm(v, bound) ==
  /\ MasterUp("interactive", v)
  /\ bound => ~PortTaken(v)
  /\ \/ ~PortTaken(v) /\ master' = [master EXCEPT !["interactive"][v].fwd =
                                                     {MacPort}]
     \/ ~bound /\ UNCHANGED master

\* remember_armed_reverse_tunnel.
Remember(g) == tunnels' = {t \in tunnels: t.mac # MacPort}
                            \cup {[gen |-> g, mac |-> MacPort]}

AfterRearm(a) ==
  IF a \in {"session", "boot"} THEN Goto(a, "ensure") ELSE EndOp(a)

\* Fault: a new master is warmed without re-arming what was forwarded before.
RearmNothing(a) ==
  /\ HoldsLock(a, "rearm")
  /\ AfterRearm(a) /\ NoFault /\ UNCHANGED <<master, tunnels>>
  /\ UNCHANGED <<row, lastGen, legacy, retired, boots, bootPass>>

\* reconcile_desired_reverse_tunnels_locked: what this daemon wants on the
\* host is armed again when the master is not the one it was armed on.
RearmDesired(a) ==
  /\ HoldsLock(a, "rearm")
  /\ LET here == [gen |-> op[a].gen, mac |-> MacPort]
     IN \/ /\ tunnels = {} \/ here \in tunnels
           /\ AfterRearm(a) /\ NoFault /\ UNCHANGED <<master, tunnels>>
        \/ /\ tunnels # {} /\ here \notin tunnels
           /\ Arm(op[a].rev, TRUE) /\ Remember(op[a].gen)
           /\ AfterRearm(a) /\ NoFault
        \/ /\ tunnels # {} /\ here \notin tunnels /\ Fault
           /\ Arm(op[a].rev, FALSE) /\ EndOp(a) /\ UNCHANGED tunnels
        \/ /\ tunnels # {} /\ here \notin tunnels
           /\ ~MasterUp("interactive", op[a].rev) \/ PortTaken(op[a].rev)
           /\ EndOp(a) /\ NoFault /\ UNCHANGED <<master, tunnels>>
  /\ UNCHANGED <<row, lastGen, legacy, retired, boots, bootPass>>

\* The generation is checked again under the second lease.
EnsureReverseTunnel(a) ==
  /\ HoldsLock(a, "ensure")
  /\ LET v == op[a].rev
         g == master["interactive"][v].gen
     IN \/ /\ g # 0 /\ [gen |-> g, mac |-> MacPort] \in tunnels
           /\ NoFault /\ UNCHANGED <<master, tunnels>>
        \/ /\ g # 0 /\ [gen |-> g, mac |-> MacPort] \notin tunnels
           /\ Arm(v, TRUE) /\ Remember(g) /\ NoFault
        \/ /\ Fault /\ Arm(v, FALSE) /\ UNCHANGED tunnels
        \/ /\ g = 0 \/ PortTaken(v)
           /\ NoFault /\ UNCHANGED <<master, tunnels>>
  /\ EndOp(a)
  /\ UNCHANGED <<row, lastGen, legacy, retired, boots, bootPass>>

\* forget_ssh_control_masters at boot; the consumers' forward follows.  Each
\* ssh -O exit runs even when another fails.
BootReset(consumers) ==
  /\ HoldsLock("boot", "reset")
  /\ \/ /\ master' = ClosedFor(op["boot"].rev) /\ legacy' = FALSE
        /\ tunnels' = {} /\ retired' = 0 /\ bootPass' = "reset" /\ NoFault
     \/ /\ Fault /\ bootPass' = "failed"
        /\ UNCHANGED <<master, legacy, tunnels, retired>>
  /\ IF consumers THEN Goto("boot", "legacy") ELSE EndOp("boot")
  /\ UNCHANGED <<row, lastGen, boots>>

-----------------------------------------------------------------------------
(* Editing and deleting the host                                           *)

\* invalidate_ssh_control_masters; a failed exit aborts the request.
CloseMasters(a) ==
  /\ HoldsLock(a, "close")
  /\ \/ /\ master' = ClosedFor(op[a].rev) /\ legacy' = FALSE
        /\ Goto(a, "store") /\ NoFault
     \/ /\ Fault /\ EndOp(a)
        /\ \E rs \in SUBSET Roles:
             master' = [r \in Roles |-> IF r \in rs THEN ClosedFor(op[a].rev)[r]
                                                    ELSE master[r]]
        /\ UNCHANGED legacy
  /\ UNCHANGED <<row, lastGen, tunnels, retired, boots, bootPass>>

\* The row is written; a failed write warms the old revision again, a moved
\* destination drops the wanted forwards.
StoreEdit(moved) ==
  /\ HoldsLock("edit", "store")
  /\ \/ /\ row.rev < MaxHostRev /\ NoFault
        /\ row' = [row EXCEPT !.rev = @ + 1]
        /\ IF moved
           THEN /\ tunnels' = {} /\ retired' = 0 /\ EndOp("edit")
           ELSE /\ op' = [op EXCEPT !["edit"].pc = "legacy",
                                    !["edit"].rev = row.rev + 1]
                /\ UNCHANGED <<tunnels, retired, hostLock>>
     \/ /\ Fault /\ Goto("edit", "legacy")
        /\ UNCHANGED <<row, tunnels, retired>>
  /\ UNCHANGED <<master, lastGen, legacy, boots, bootPass>>

StoreRemove ==
  /\ HoldsLock("remove", "store")
  /\ \/ /\ row' = [row EXCEPT !.saved = FALSE] /\ NoFault
        /\ tunnels' = {} /\ retired' = 0 /\ EndOp("remove")
     \/ /\ Fault /\ Goto("remove", "legacy")
        /\ UNCHANGED <<row, tunnels, retired>>
  /\ UNCHANGED <<master, lastGen, legacy, boots, bootPass>>

-----------------------------------------------------------------------------
(* An ordinary remote command: ssh_output_on                               *)

\* is_replay_safe_mux_failure: only a diagnostic from before the session was
\* opened allows the second, unpooled attempt.
ReplaySafe(failure) == failure = "preSession"

Attempt ==
  /\ HoldsLock("exec", "attempt")
  /\ \/ /\ NoFault                                     \* it ran
        /\ op' = [op EXCEPT !["exec"].pc = "ran", !["exec"].runs = @ + 1]
        /\ IF MasterUp("interactive", op["exec"].rev)
           THEN UNCHANGED <<master, lastGen>>
           ELSE OpenMaster("interactive", op["exec"].rev)
     \/ /\ Fault /\ UNCHANGED <<master, lastGen>>
        /\ \E f \in {"preSession", "midSession", "timeout"}:
             \E ran \in IF f = "preSession" THEN {0} ELSE {0, 1}:
               op' = [op EXCEPT !["exec"].pc = IF ReplaySafe(f) THEN "replay"
                                                                ELSE "ran",
                                !["exec"].runs = @ + ran]
  /\ UNCHANGED <<row, tunnels, legacy, retired, hostLock, boots, bootPass>>

\* The unpooled attempt neither uses nor makes a master.
ReplayUnpooled ==
  /\ HoldsLock("exec", "replay")
  /\ \E ran \in {0, 1}:
       op' = [op EXCEPT !["exec"].pc = "ran", !["exec"].runs = @ + ran]
  /\ UNCHANGED <<row, master, lastGen, tunnels, legacy, retired, hostLock,
                 boots, bootPass, faults>>

ExecDone ==
  /\ HoldsLock("exec", "ran") /\ EndOp("exec")
  /\ UNCHANGED <<row, master, lastGen, tunnels, legacy, retired, boots,
                 bootPass, faults>>

-----------------------------------------------------------------------------
(* Faults                                                                  *)

\* A master exits (keepalive, ControlPersist); its forwards go with it.
MasterDies(r, v) ==
  /\ MasterUp(r, v) /\ Fault
  /\ master' = [master EXCEPT ![r][v] = Dead]
  /\ UNCHANGED <<row, lastGen, tunnels, legacy, retired, hostLock, op, boots,
                 bootPass>>

\* The daemon dies and starts on another port: masters stay, memory goes.
DaemonRestarts ==
  /\ boots < MaxBoots /\ boots' = boots + 1
  /\ tunnels' = {} /\ retired' = 0 /\ hostLock' = NoOne /\ bootPass' = "due"
  /\ op' = [a \in Actors |-> IdleOp]
  /\ UNCHANGED <<row, master, lastGen, legacy, faults>>

WarmSteps(a) ==
  \/ RetireLegacy(a) \/ WarmStreaming(a) \/ WarmInteractive(a)
  \/ CheckGeneration(a) \/ RearmDesired(a)

LockedSteps ==
  \/ \E a \in Actors: WarmSteps(a)
  \/ \E a \in {"session", "boot"}: EnsureReverseTunnel(a)
  \/ \E consumers \in BOOLEAN: BootReset(consumers)
  \/ \E a \in {"edit", "remove"}: CloseMasters(a)
  \/ \E moved \in BOOLEAN: StoreEdit(moved)
  \/ StoreRemove \/ Attempt \/ ReplayUnpooled \/ ExecDone

SshNext ==
  \/ \E a \in Listed: Begin(a)
  \/ \E a \in Actors: Acquire(a)
  \/ LockedSteps
  \/ \E r \in Roles, v \in Revs: MasterDies(r, v)
  \/ DaemonRestarts

SshSpec == SshInit /\ [][SshNext]_sshVars

-----------------------------------------------------------------------------
(* Properties                                                              *)

\* The variables stay within their types.
SshTypeOK ==
  /\ row.rev \in Revs /\ hostLock \in Actors \cup {NoOne}
  /\ \A r \in Roles, v \in Revs:
       master[r][v].gen \in 0..lastGen + 1
         /\ master[r][v].fwd \subseteq 1..MaxBoots
  /\ tunnels \subseteq [gen: 1..lastGen, mac: 1..MaxBoots]
  /\ \A a \in Actors: op[a].rev \in 0..MaxHostRev

\* No connection outlives the revision of the host it was opened for: while
\* nobody edits the host, the only live masters are those of the saved row,
\* whatever the warmer read before it got the lock.
OnlyCurrentMasters ==
  hostLock \notin {"edit", "remove"} =>
    \A r \in Roles, v \in Revs:
      MasterUp(r, v) => row.saved /\ v = row.rev

\* A forward the daemon remembers on the running master is really there, and
\* once the boot reset went through, no forward of this host leads to the port
\* of an earlier daemon.
ForwardsAreOurs ==
  /\ \A t \in tunnels, v \in Revs:
       (t.gen = master["interactive"][v].gen)
         => t.mac \in master["interactive"][v].fwd
  /\ bootPass = "reset" => \A v \in Revs: master["interactive"][v].fwd \subseteq {MacPort}

\* A remote script runs at most once for one call, for all its retries.
ScriptRunsOnce == op["exec"].runs <= 1

\* A forward that was armed once is armed again on whatever master replaces
\* the one it was on, unless it is no longer wanted.
ForwardRestored ==
  (tunnels # {}) ~> \/ tunnels = {}
                    \/ master["interactive"][row.rev].fwd = {MacPort}
=============================================================================
