---------------------------- MODULE RuntimeLease ----------------------------
(***************************************************************************)
(* EmbeddedRuntimeLease: the directory that keeps two embedded daemons     *)
(* from driving the same ssh masters.  Creating the directory is atomic;   *)
(* everything after it (the owner file, judging an owner dead, moving a    *)
(* stale directory aside and removing it) is a file system call of its     *)
(* own, between which another process may run.                             *)
(***************************************************************************)
EXTENDS Integers, FiniteSets

CONSTANTS
  Procs,      \* processes that start an embedded daemon
  Attempts    \* rounds of acquire_at (4 in the code)

ASSUME LeaseAssumption == Attempts \in Nat \ {0}

VARIABLES
  lockDir,   \* the lock directory: absent, or its owner file and its age
  proc,      \* per process: its place, and the rounds it has left
  died,      \* processes that were killed (their pid is never an owner again)
  stalled    \* some process took longer than the grace period to write its file

leaseVars == <<lockDir, proc, died, stalled>>

Absent == [exists |-> FALSE, owner |-> "none", fresh |-> FALSE]
NoOwner == "none"
ASSUME OwnerAssumption == NoOwner \notin Procs

LeaseInit ==
  /\ lockDir = Absent
  /\ proc = [p \in Procs |-> [pc |-> "idle", left |-> Attempts]]
  /\ died = {} /\ stalled = FALSE

Step(p, pc) == proc' = [proc EXCEPT ![p].pc = pc]

\* create_private_directory, else look at who owns it.
CreateDir(p) ==
  /\ proc[p].pc = "idle" \/ proc[p].pc = "again"
  /\ IF proc[p].left = 0
     THEN Step(p, "refused") /\ UNCHANGED lockDir
     ELSE IF lockDir.exists
     THEN Step(p, "inspect") /\ UNCHANGED lockDir
     ELSE /\ lockDir' = [exists |-> TRUE, owner |-> NoOwner, fresh |-> TRUE]
          /\ Step(p, "write")
  /\ UNCHANGED <<died, stalled>>

\* write_runtime_owner (create_new): fails when the directory was moved away or
\* another owner file is there; the failed attempt then removes what it finds.
WriteOwner(p) ==
  /\ proc[p].pc = "write"
  /\ IF lockDir.exists /\ lockDir.owner = NoOwner
     THEN lockDir' = [lockDir EXCEPT !.owner = p] /\ Step(p, "holds")
     ELSE lockDir' = Absent /\ Step(p, "refused")
  /\ UNCHANGED <<died, stalled>>

\* active_runtime_owner: no owner file is refused while the directory is young,
\* a running owner is refused, anything else is stale.
Inspect(p) ==
  /\ proc[p].pc = "inspect"
  /\ IF ~lockDir.exists \/ (lockDir.owner = NoOwner /\ lockDir.fresh)
     THEN Step(p, "refused")
     ELSE IF lockDir.owner # NoOwner /\ lockDir.owner \notin died
     THEN Step(p, "refused")
     ELSE Step(p, "stale")
  /\ UNCHANGED <<lockDir, died, stalled>>

\* Move the directory aside, whatever is in it by now, and remove it.
MoveAside(p) ==
  /\ proc[p].pc = "stale"
  /\ lockDir' = Absent
  /\ proc' = [proc EXCEPT ![p] = [pc |-> "again", left |-> @.left - 1]]
  /\ UNCHANGED <<died, stalled>>

\* Drop: the directory goes only if it still names this process.
ReleaseLease(p) ==
  /\ proc[p].pc = "holds" /\ Step(p, "ended")
  /\ lockDir' = IF lockDir.exists /\ lockDir.owner = p THEN Absent ELSE lockDir
  /\ UNCHANGED <<died, stalled>>

\* The process is killed: no Drop.
Killed(p) ==
  /\ proc[p].pc \in {"write", "holds"} /\ Step(p, "ended")
  /\ died' = died \cup {p}
  /\ UNCHANGED <<lockDir, stalled>>

\* EMBEDDED_RUNTIME_INITIALIZE_GRACE passes.
DirAges ==
  /\ lockDir.exists /\ lockDir.fresh
  /\ lockDir' = [lockDir EXCEPT !.fresh = FALSE]
  /\ stalled' = (stalled \/ lockDir.owner = NoOwner)
  /\ UNCHANGED <<proc, died>>

LeaseNext ==
  \/ \E p \in Procs:
       \/ CreateDir(p) \/ WriteOwner(p) \/ Inspect(p) \/ MoveAside(p)
       \/ ReleaseLease(p) \/ Killed(p)
  \/ DirAges

LeaseSpec == LeaseInit /\ [][LeaseNext]_leaseVars

-----------------------------------------------------------------------------
(* Properties                                                              *)

\* The variables stay within their types.
LeaseTypeOK ==
  /\ lockDir.owner \in Procs \cup {NoOwner}
  /\ \A p \in Procs:
       /\ proc[p].left \in 0..Attempts
       /\ proc[p].pc \in {"idle", "again", "inspect", "write", "stale", "holds",
                          "refused", "ended"}

Holders == {p \in Procs: proc[p].pc = "holds"}

\* "Two embedded Agentum processes must therefore never reconcile them
\* concurrently": at most one process holds the lease, even when every process
\* writes its owner file in time and only a crash left a directory behind.
LeaseIsExclusive == ~stalled => Cardinality(Holders) <= 1

\* As long as no process has been killed and each writes its owner file within
\* the grace period, the lease is exclusive and the directory names its holder.
CleanLeaseIsExclusive ==
  (died = {} /\ ~stalled) => \A p \in Holders: lockDir.exists /\ lockDir.owner = p
=============================================================================
