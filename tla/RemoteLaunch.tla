---------------------------- MODULE RemoteLaunch -----------------------------
(***************************************************************************)
(* Getting an agent to run on an SSH host: the readiness probe, bootstrap  *)
(* and agent installs, the preflight of a launch, and the launch           *)
(* transaction.  The transaction is one shell script that runs on the      *)
(* host: it stages the environment in a file of its own, creates a dormant *)
(* tmux session, respawns it with a wrapper that sources and removes the   *)
(* file, looks a second later whether the pane died, and commits.  The     *)
(* daemon waits for the script's answer for a limited time only: a script  *)
(* whose daemon gave up goes on, while the next start of the same session  *)
(* finds whatever it has left.                                             *)
(***************************************************************************)
EXTENDS Naturals, FiniteSets

CONSTANTS
    MaxScripts,     \* bound on launch scripts
    MaxGone,        \* bound on answers that never arrive
    MaxSteps,       \* bound on steps of a script or a call that fail
    MaxBinChanges   \* bound on programs that appear or vanish on the host

ASSUME LaunchBounds ==
    {MaxScripts, MaxGone, MaxSteps, MaxBinChanges} \subseteq Nat

VARIABLES
    bins,      \* programs found on the host's PATH
    hostCall,        \* the call that holds the host's lifecycle lease, or "none"
    skill,     \* the copy of a skill on the host: none, a part of it, or all
    report,    \* the last readiness report: ready, and the skill is installed
    hostSeen,  \* the host's last_seen was refreshed
    nth,       \* launch scripts started so far
    script,    \* script -> the step it is about to take
    outcome,   \* script -> what the daemon made of its answer
    envFile,   \* scripts whose environment file exists
    tmuxSess,  \* the tmux session of the target's name
    bound,     \* the row persists the target's name
    gone, failures, changes

launchVars == <<bins, hostCall, skill, report, hostSeen, nth, script, outcome,
                envFile, tmuxSess, bound, gone, failures, changes>>

Bins == {"tmux", "git", "agent"}
RequiredDeps == {"tmux", "git"}
Scripts == 1..MaxScripts
NoPane == [by |-> 0, pane |-> "none", owner |-> FALSE, gen |-> FALSE]
Panes == {"none", "dormant", "wrapper", "agent", "dead"}
Steps == {"none", "stage", "new", "configure", "respawn", "inspect", "commit",
          "answer", "failed", "over"}
Ops == {"none", "preflight", "wait", "mark", "generation", "persist",
        "bootstrap", "install", "skills"}

\* The variables stay within their types.
LaunchTypeOK ==
    /\ bins \subseteq Bins /\ hostCall \in Ops
    /\ skill \in {"none", "part", "all"}
    /\ report \in [ready : BOOLEAN, skill : BOOLEAN]
    /\ hostSeen \in BOOLEAN /\ nth \in 0..MaxScripts
    /\ script \in [Scripts -> Steps]
    /\ outcome \in [Scripts -> {"none", "ok", "error", "unknown"}]
    /\ envFile \subseteq Scripts /\ bound \in BOOLEAN
    /\ tmuxSess \in [by : 0..MaxScripts, pane : Panes, owner : BOOLEAN,
                     gen : BOOLEAN]
    /\ gone \in 0..MaxGone /\ failures \in 0..MaxSteps
    /\ changes \in 0..MaxBinChanges

LaunchInit ==
    /\ bins \in {Bins, {"git"}} /\ hostCall = "none" /\ skill = "none"
    /\ report = [ready |-> FALSE, skill |-> FALSE]
    /\ hostSeen = FALSE /\ nth = 0 /\ script = [n \in Scripts |-> "none"]
    /\ outcome = [n \in Scripts |-> "none"] /\ envFile = {}
    /\ tmuxSess = NoPane /\ bound \in BOOLEAN
    /\ gone = 0 /\ failures = 0 /\ changes = 0

Failure == failures < MaxSteps /\ failures' = failures + 1
Here == "tmux" \in bins /\ tmuxSess # NoPane

----------------------------------------------------------------------------
(* Readiness, bootstrap and installs (routes/hosts.rs, host_runtime.rs).   *)

\* probe_ssh and assemble_readiness: ready when no required program is missing
Ready(b) == RequiredDeps \subseteq b

\* readiness and test: an unreachable host reports every program missing
\* detect_host_skills lists the directories of ~/.claude/skills
Report(b, s) ==
    /\ report' = [ready |-> Ready(b), skill |-> s # "none"]
    /\ hostSeen' = (hostSeen \/ Ready(b))

Readiness ==
    /\ hostCall = "none"
    /\ \/ Report(bins, skill) /\ UNCHANGED failures
       \/ Report({}, "none") /\ Failure
    /\ UNCHANGED <<bins, hostCall, skill, nth, script, outcome, envFile,
                   tmuxSess, bound, gone, changes>>

\* bootstrap installs tmux or git, install_agents the agent's program
BeginSetup(kind) ==
    /\ hostCall = "none" /\ hostCall' = kind
    /\ UNCHANGED <<bins, skill, report, hostSeen, nth, script, outcome, envFile,
                   tmuxSess, bound, gone, failures, changes>>

Installs(kind) == IF kind = "bootstrap" THEN {"tmux", "git"} ELSE {"agent"}

\* the installer ran: a fresh report; it failed or timed out: the error, with
\* any of its programs installed by then
Setup(kind) ==
    /\ hostCall = kind /\ hostCall' = "none"
    /\ \/ /\ bins' = bins \cup Installs(kind) /\ Report(bins', skill)
          /\ UNCHANGED failures
       \/ /\ \E b \in SUBSET Installs(kind) : bins' = bins \cup b
          /\ Failure /\ UNCHANGED <<report, hostSeen>>
    /\ UNCHANGED <<skill, nth, script, outcome, envFile, tmuxSess, bound, gone,
                   changes>>

\* provision_skills copies the files of a skill one by one and reports; a copy
\* that fails ends the call with what was copied so far
ProvisionSkills ==
    /\ hostCall = "skills" /\ hostCall' = "none"
    /\ \/ skill' = "all" /\ Report(bins, skill') /\ UNCHANGED failures
       \/ /\ skill' \in {skill, IF skill = "all" THEN "all" ELSE "part"}
          /\ Failure /\ UNCHANGED <<report, hostSeen>>
    /\ UNCHANGED <<bins, nth, script, outcome, envFile, tmuxSess, bound, gone,
                   changes>>

\* somebody upgrades or removes a program on the host
BinsChange ==
    /\ changes < MaxBinChanges /\ changes' = changes + 1
    /\ \E b \in {"tmux", "agent"} : bins' = (bins \cup {b}) \ (bins \cap {b})
    /\ UNCHANGED <<hostCall, skill, report, hostSeen, nth, script, outcome,
                   envFile, tmuxSess, bound, gone, failures>>

----------------------------------------------------------------------------
(* The daemon's side of a launch.                                          *)

\* start_session_locked: reattach to a current pane, refuse one that carries
\* no mark and is not the row's persisted binding, kill one of an earlier
\* generation by its id and launch again
StartSession ==
    /\ hostCall = "none" /\ nth < MaxScripts
    /\ \/ /\ ~Here /\ hostCall' = "preflight"
          /\ UNCHANGED <<tmuxSess, bound>>
       \/ /\ Here /\ tmuxSess.owner /\ tmuxSess.gen /\ bound' = TRUE
          /\ UNCHANGED <<hostCall, tmuxSess>>
       \/ /\ Here /\ ~tmuxSess.gen /\ (tmuxSess.owner \/ bound)
          /\ tmuxSess' = NoPane /\ bound' = FALSE /\ hostCall' = "preflight"
    /\ UNCHANGED <<bins, skill, report, hostSeen, nth, script, outcome,
                   envFile, gone, failures, changes>>

\* preflight_remote_launch: the home, the directory, tmux, the shell and the
\* program are looked up now, and used by their absolute paths later; then the
\* script is sent
Preflight ==
    /\ hostCall = "preflight"
    /\ \/ /\ {"tmux", "agent"} \subseteq bins /\ hostCall' = "wait"
          /\ nth' = nth + 1 /\ script' = [script EXCEPT ![nth + 1] = "stage"]
          /\ UNCHANGED failures
       \/ /\ ~({"tmux", "agent"} \subseteq bins) /\ hostCall' = "none"
          /\ UNCHANGED <<nth, script, failures>>
       \/ hostCall' = "none" /\ Failure /\ UNCHANGED <<nth, script>>
    /\ UNCHANGED <<bins, skill, report, hostSeen, outcome, envFile, tmuxSess,
                   bound, gone, changes>>

\* ssh_output_with_stdin gives up: the timeout, a lost link, or an output pipe
\* that stays open.  Only the local ssh child is killed
GiveUpWaiting ==
    /\ hostCall = "wait" /\ gone < MaxGone /\ gone' = gone + 1 /\ hostCall' = "none"
    /\ outcome' = [outcome EXCEPT ![nth] = "unknown"]
    /\ UNCHANGED <<bins, skill, report, hostSeen, nth, script, envFile,
                   tmuxSess, bound, failures, changes>>

\* launch_remote_session reads the last protocol line of a finished script
ReadAnswer ==
    /\ hostCall = "wait" /\ script[nth] \in {"answer", "failed"}
    /\ script' = [script EXCEPT ![nth] = "over"]
    /\ outcome' = [outcome EXCEPT
                   ![nth] = IF script[nth] = "answer" THEN "ok" ELSE "error"]
    /\ hostCall' = IF script[nth] = "answer" THEN "mark" ELSE "none"
    /\ UNCHANGED <<bins, skill, report, hostSeen, nth, envFile, tmuxSess,
                   bound, gone, failures, changes>>

\* exact_remote_tmux_identity, then mark_remote_tmux_owner by the pane's id.
\* A pane that cannot be identified is left alone, one that cannot be marked
\* is killed
MarkOwner ==
    /\ hostCall = "mark"
    /\ \/ /\ Here /\ tmuxSess' = [tmuxSess EXCEPT !.owner = TRUE]
          /\ hostCall' = "generation" /\ UNCHANGED failures
       \/ /\ ~Here /\ hostCall' = "none" /\ UNCHANGED <<tmuxSess, failures>>
       \/ /\ Failure /\ hostCall' = "none"
          /\ tmuxSess' \in {tmuxSess, NoPane}
    /\ UNCHANGED <<bins, skill, report, hostSeen, nth, script, outcome,
                   envFile, bound, gone, changes>>

MarkGeneration ==
    /\ hostCall = "generation"
    /\ \/ /\ Here /\ tmuxSess' = [tmuxSess EXCEPT !.gen = TRUE]
          /\ hostCall' = "persist" /\ UNCHANGED failures
       \/ ~Here /\ hostCall' = "none" /\ UNCHANGED <<tmuxSess, failures>>
       \/ Failure /\ hostCall' = "none" /\ tmuxSess' = NoPane
    /\ UNCHANGED <<bins, skill, report, hostSeen, nth, script, outcome,
                   envFile, bound, gone, changes>>

PersistLaunch ==
    /\ hostCall = "persist" /\ hostCall' = "none"
    /\ \/ bound' = TRUE /\ UNCHANGED <<tmuxSess, failures>>
       \/ Failure /\ tmuxSess' = NoPane /\ UNCHANGED bound
    /\ UNCHANGED <<bins, skill, report, hostSeen, nth, script, outcome,
                   envFile, gone, changes>>

----------------------------------------------------------------------------
(* The script on the host (remote_launch_script).                          *)

\* Fault: the rollback removes the environment file and forgets the pane.
CleanupEnvOnly(n) == envFile' = envFile \ {n} /\ UNCHANGED tmuxSess

\* Fault: the rollback kills whatever pane has the target's name.
CleanupByName(n) == envFile' = envFile \ {n} /\ tmuxSess' = NoPane

\* the trap: drop the environment file, kill the session this script created
Cleanup(n) ==
    /\ envFile' = envFile \ {n}
    /\ tmuxSess' = IF tmuxSess.by = n THEN NoPane ELSE tmuxSess

\* a failing step prints its stage and exits through the trap; when nobody
\* reads the output any more the shell may die on the print without it
AbortLaunch(n) ==
    /\ script' = [script EXCEPT ![n] = "failed"]
    /\ Cleanup(n) \/ (outcome[n] = "unknown" /\ UNCHANGED <<envFile, tmuxSess>>)

Advance(n, next) == script' = [script EXCEPT ![n] = next]

\* the private directories, the environment file and the pane log
ScriptStages(n) ==
    /\ script[n] = "stage"
    /\ \/ envFile' = envFile \cup {n} /\ Advance(n, "new")
          /\ UNCHANGED <<tmuxSess, failures>>
       \/ AbortLaunch(n) /\ Failure

\* tmux new-session, dormant; tmux refuses a second session of that name
ScriptCreates(n) ==
    /\ script[n] = "new"
    /\ \/ /\ tmuxSess = NoPane /\ "tmux" \in bins /\ Advance(n, "configure")
          /\ tmuxSess' = [NoPane EXCEPT !.by = n, !.pane = "dormant"]
          /\ UNCHANGED <<envFile, failures>>
       \/ (tmuxSess # NoPane \/ "tmux" \notin bins) /\ AbortLaunch(n)
          /\ UNCHANGED failures
       \/ AbortLaunch(n) /\ Failure

\* the name still resolves to the id just created; remain-on-exit, pipe-pane
ScriptConfigures(n) ==
    /\ script[n] = "configure"
    /\ \/ tmuxSess.by = n /\ Advance(n, "respawn")
          /\ UNCHANGED <<envFile, tmuxSess, failures>>
       \/ tmuxSess.by # n /\ AbortLaunch(n) /\ UNCHANGED failures
       \/ AbortLaunch(n) /\ Failure

\* respawn-pane runs the wrapper by the session's id
ScriptRespawns(n) ==
    /\ script[n] = "respawn"
    /\ \/ /\ tmuxSess.by = n /\ Advance(n, "inspect")
          /\ tmuxSess' = [tmuxSess EXCEPT !.pane = "wrapper"]
          /\ UNCHANGED <<envFile, failures>>
       \/ tmuxSess.by # n /\ AbortLaunch(n) /\ UNCHANGED failures
       \/ AbortLaunch(n) /\ Failure

\* a second later: a dead pane is an early exit, reported with its output
ScriptInspects(n) ==
    /\ script[n] = "inspect"
    /\ \/ tmuxSess.by = n /\ tmuxSess.pane # "dead" /\ Advance(n, "commit")
          /\ UNCHANGED <<envFile, tmuxSess, failures>>
       \/ (tmuxSess.by # n \/ tmuxSess.pane = "dead") /\ AbortLaunch(n)
          /\ UNCHANGED failures
       \/ AbortLaunch(n) /\ Failure

\* remain-on-exit off, drop the environment file, commit and answer
ScriptCommits(n) ==
    /\ script[n] = "commit"
    /\ \/ /\ tmuxSess.by = n /\ Advance(n, "answer")
          /\ envFile' = envFile \ {n} /\ UNCHANGED <<tmuxSess, failures>>
       \/ tmuxSess.by # n /\ AbortLaunch(n) /\ UNCHANGED failures
       \/ AbortLaunch(n) /\ Failure

ScriptStep(n) ==
    /\ \/ ScriptStages(n) \/ ScriptCreates(n) \/ ScriptConfigures(n)
       \/ ScriptRespawns(n) \/ ScriptInspects(n) \/ ScriptCommits(n)
    /\ UNCHANGED <<bins, hostCall, skill, report, hostSeen, nth, outcome,
                   bound, gone, changes>>

\* the wrapper sources its file, removes it and executes the agent, or exits
WrapperRuns ==
    /\ tmuxSess.pane = "wrapper"
    /\ envFile' = envFile \ {tmuxSess.by}
    /\ tmuxSess' = [tmuxSess EXCEPT
                    !.pane = IF tmuxSess.by \in envFile /\ "agent" \in bins
                             THEN "agent" ELSE "dead"]
    /\ UNCHANGED <<bins, hostCall, skill, report, hostSeen, nth, script,
                   outcome, bound, gone, failures, changes>>

\* a dead pane stays while remain-on-exit is on, else its session vanishes
PaneEnds ==
    /\ tmuxSess.pane \in {"agent", "dead"}
    /\ LET by == tmuxSess.by IN
       tmuxSess' = IF script[by] \in {"inspect", "commit"}
                   THEN [tmuxSess EXCEPT !.pane = "dead"] ELSE NoPane
    /\ UNCHANGED <<bins, hostCall, skill, report, hostSeen, nth, script,
                   outcome, envFile, bound, gone, failures, changes>>

LaunchNext ==
    \/ Readiness \/ BinsChange
    \/ \E kind \in {"bootstrap", "install", "skills"} : BeginSetup(kind)
    \/ Setup("bootstrap") \/ Setup("install") \/ ProvisionSkills
    \/ StartSession \/ Preflight \/ GiveUpWaiting \/ ReadAnswer
    \/ MarkOwner \/ MarkGeneration \/ PersistLaunch
    \/ \E n \in Scripts : ScriptStep(n)
    \/ WrapperRuns \/ PaneEnds

LaunchSpec == LaunchInit /\ [][LaunchNext]_launchVars

----------------------------------------------------------------------------
(* Properties.                                                             *)

\* An answered launch is settled, whatever scripts of earlier attempts still
\* run: a failed one has left neither its environment file (which holds the
\* credentials) nor a pane, a successful one no environment file.
AnsweredIsSettled ==
    \A n \in Scripts :
        /\ outcome[n] = "error" => tmuxSess.by # n
        /\ outcome[n] \in {"ok", "error"} => n \notin envFile

\* Rolling a script back spares a pane that another attempt has created.
RollbackSparesOthers ==
    [][\A n \in Scripts :
         script'[n] = "failed" /\ script[n] # "failed" /\ tmuxSess.by # n
         => tmuxSess' = tmuxSess]_launchVars
============================================================================
