------------------------------- MODULE MCRemote -------------------------------
(***************************************************************************)
(* Small instances of the components that must keep going: remote streams, *)
(* the connections to a host, the screencast bridge and the polled         *)
(* readouts, each under the fairness of its tasks.  One behaviour is a     *)
(* behaviour of one component, picked at the start; the others rest in an  *)
(* initial state of theirs.                                                *)
(***************************************************************************)
EXTENDS RemoteStream, SshControl, Screencast, Readouts, TLC

VARIABLE part

Parts == {"remote", "ssh", "cast", "read"}

MCVars == <<part, remoteVars, sshVars, castVars, readVars>>

\* A resting component with several initial states is in one of them.
Pinned ==
  /\ part = "ssh" \/ legacy = FALSE
  /\ part = "cast" \/ kind = "local"

MCInit ==
  /\ part \in Parts /\ Pinned
  /\ RemoteInit /\ SshInit /\ CastInit /\ ReadInit

Only(q) ==
  /\ UNCHANGED part
  /\ IF q = "remote" THEN TRUE ELSE UNCHANGED remoteVars
  /\ IF q = "ssh" THEN TRUE ELSE UNCHANGED sshVars
  /\ IF q = "cast" THEN TRUE ELSE UNCHANGED castVars
  /\ IF q = "read" THEN TRUE ELSE UNCHANGED readVars

MCNext ==
  \/ part = "remote" /\ RemoteNext /\ Only("remote")
  \/ part = "ssh" /\ SshNext /\ Only("ssh")
  \/ part = "cast" /\ CastNext /\ Only("cast")
  \/ part = "read" /\ ReadNext /\ Only("read")

\* Remote streams: tasks are scheduled and reaping a killed child ends.  Nothing
\* is assumed of the deadline, of the client, or of a write to a client, except
\* the first one, which is made with the lease held.  A probe does not fail for
\* ever.
RemoteFairness ==
  /\ WF_remoteVars(part = "remote" /\ EditCommits)
  /\ \A s \in Streams:
       /\ WF_remoteVars(part = "remote" /\ SendFirstSnapshot(s))
       /\ WF_remoteVars(part = "remote" /\ LoopSeesCancel(s))
       /\ WF_remoteVars(part = "remote" /\ RecoverCancelled(s))
       /\ WF_remoteVars(part = "remote" /\ strm[s].cancel /\ RepaintFails(s))
       /\ WF_remoteVars(part = "remote" /\ InputStops(s))
       /\ WF_remoteVars(part = "remote" /\ TailReaped(s))
       /\ WF_remoteVars(part = "remote" /\ Finish(s))
       /\ WF_remoteVars(part = "remote" /\ ProbeStarts(s))
       /\ SF_remoteVars(part = "remote" /\ ProbeReads(s))
       /\ WF_remoteVars(part = "remote" /\ ProbeResult(s))

\* Connections: whoever holds the lock makes progress, because every ssh and
\* database call is bounded by a timeout.  The lock is a fair queue, and the
\* warmer ticks for ever.
SshFairness ==
  /\ WF_sshVars(part = "ssh" /\ LockedSteps)
  /\ WF_sshVars(part = "ssh" /\ Begin("warmer"))
  /\ SF_sshVars(part = "ssh" /\ Acquire("warmer"))

\* The bridge: each task runs when it can.  select! picks among ready arms at
\* random, so an arm that stays ready is taken; a socket that nobody reads may
\* hold a send for ever, one that is closed may not.
CastFairness ==
  /\ WF_castVars(part = "cast" /\ BridgeSteps)
  /\ SF_castVars(part = "cast" /\ BridgeSeesNoPane)
  /\ WF_castVars(part = "cast" /\ RunTakesFrame)
  /\ SF_castVars(part = "cast" /\ RunLeaves)
  /\ WF_castVars(part = "cast" /\ RunEnds)
  /\ WF_castVars(part = "cast" /\ ~castPane.open /\ RunForwards)
  /\ WF_castVars(part = "cast" /\ HostReadsFrame)
  /\ WF_castVars(part = "cast" /\ HostPumpEnds)
  /\ WF_castVars(part = "cast" /\ HostReturns)
  /\ WF_castVars(part = "cast" /\ ~castPane.open /\ HostSendsFrame)

\* Readouts: the loop's channel and its ticker are served for ever, and a daemon
\* that is asked again and again answers some time.
Plans == part = "read" /\ UNCHANGED usageVars

ReadFairness ==
  /\ WF_readVars(Plans /\ GetAgentTasks)
  /\ SF_readVars(Plans /\ GetAgentTasks /\ planReply' # Failed)
  /\ WF_readVars(Plans /\ ApplyTasks)
  /\ WF_readVars(Plans /\ RefreshTick)

MCSpec ==
  /\ MCInit /\ [][MCNext]_MCVars
  /\ RemoteFairness /\ SshFairness /\ CastFairness /\ ReadFairness

-------------------------------------------------------------------------------
\* Every component stays within its types.
RemoteTypesOK == RemoteTypeOK /\ SshTypeOK /\ CastTypeOK /\ ReadTypeOK

\* Whatever was read before a lease or a lock was granted, only the saved host
\* is talked to: tails and input writers (routes/sessions.rs), masters and
\* forwards (host_runtime.rs, tmux ssh.rs), and no retry runs a script twice.
HostSafe ==
  /\ NoStaleChild
  /\ OnlyCurrentMasters
  /\ ForwardsAreOurs
  /\ ScriptRunsOnce

\* What breaks on the way to a host mends by itself: an edit gets rid of the
\* streams it waits for, a silent tail is replaced, a forward that was lost
\* with its master is armed again (routes/sessions.rs, host_runtime.rs).
RemoteRecovers == EditEnds /\ SilentTailReplaced /\ ForwardRestored

\* "this catch-up makes the panel converge even if a bus.lagged dropped the
\* relevant agent_tasks.updated" (terminal app.rs run_loop).
PlanIsShown == (part = "read") => PanelConverges
===============================================================================
