---------------------------- MODULE ProjectConfig ----------------------------
(***************************************************************************)
(* How a launch tells the agent about Agentum's MCP server.  Claude gets a *)
(* private file of its own, which holds the session's credential; Cursor,  *)
(* Gemini and OpenCode get an entry "agentum" merged into the project file *)
(* of the working directory, which only names an environment variable of   *)
(* that one launch.  Two sessions share the working directory, the user    *)
(* edits the project file, and the link to an SSH host may fail once the   *)
(* command it carried has run.  Launches, stops and deletes hold the       *)
(* host's lifecycle lease (lease), the agent and the user do not.          *)
(***************************************************************************)
EXTENDS Naturals, FiniteSets

CONSTANTS
    CfgSessions,     \* sessions of one host and one working directory
    UserServers,     \* entries the user may keep in the project file
    MaxUserEdits,    \* bound on the user's edits
    MaxLaunchFaults, \* bound on failing steps
    MaxLaunches      \* bound on start, stop and delete calls

ASSUME ConfigBounds == {MaxUserEdits, MaxLaunchFaults, MaxLaunches} \subseteq Nat

Unowned == "none"
ASSUME UnownedAssumption == Unowned \notin CfgSessions

VARIABLES
    place,      \* "local" or "ssh": where the host is
    tool,       \* session -> "claude" or "cursor"
    mcpFile,       \* the project file: kind, the user's entries, whose env name
    private,    \* sessions whose private Claude file exists
    lease,      \* the session that holds the host's lease, or NoOne
    pc,         \* session -> where its lifecycle call stands
    seen,       \* session -> the project file as its launch read it
    env,        \* sessions whose launch carries the env name of its entry
    agentPane,  \* session -> "none", "starting" or "up"
    marked,     \* sessions whose pane carries the owner and generation marks
    running,        \* sessions whose row says Running
    got,        \* session -> the entry its agent found when it read the file
    edits, launchFaults, launches

cfgVars == <<place, tool, mcpFile, private, lease, pc, seen, env, agentPane,
             marked, running, got, edits, launchFaults, launches>>

\* "unsafe" is a symbolic or a hard link, or no regular file; "invalid" is
\* text that is not a JSON object with an object of servers
FileKinds == {"absent", "object", "invalid", "unsafe"}
Entries == CfgSessions \cup {Unowned}
ProjectFiles == [kind : FileKinds, theirs : SUBSET UserServers, entry : Entries]
NoConfig == [kind |-> "absent", theirs |-> {}, entry |-> Unowned]
LaunchPhases == {"idle", "private", "read", "write", "verify", "spawn", "persist",
           "stop"}

\* The variables stay within their types.
ConfigTypeOK ==
    /\ place \in {"local", "ssh"} /\ tool \in [CfgSessions -> {"claude", "cursor"}]
    /\ mcpFile \in ProjectFiles
    /\ private \subseteq CfgSessions /\ env \subseteq CfgSessions
    /\ marked \subseteq CfgSessions /\ running \subseteq CfgSessions
    /\ lease \in Entries /\ pc \in [CfgSessions -> LaunchPhases]
    /\ seen \in [CfgSessions -> ProjectFiles] /\ got \in [CfgSessions -> Entries]
    /\ agentPane \in [CfgSessions -> {"none", "starting", "up"}]
    /\ edits \in 0..MaxUserEdits /\ launchFaults \in 0..MaxLaunchFaults
    /\ launches \in 0..MaxLaunches

ConfigInit ==
    /\ place \in {"local", "ssh"} /\ tool \in [CfgSessions -> {"claude", "cursor"}]
    /\ mcpFile \in {NoConfig, [NoConfig EXCEPT !.kind = "object", !.theirs = UserServers]}
    /\ private = {} /\ lease = Unowned /\ pc = [s \in CfgSessions |-> "idle"]
    /\ seen = [s \in CfgSessions |-> NoConfig] /\ env = {} /\ marked = {}
    /\ agentPane = [s \in CfgSessions |-> "none"] /\ running = {}
    /\ got = [s \in CfgSessions |-> Unowned] /\ edits = 0 /\ launchFaults = 0 /\ launches = 0

----------------------------------------------------------------------------
(* The files.                                                              *)

\* agent_mcp_file: the tools that read a project file
AgentMcpFile(t) == t = "cursor"

\* read_remote_file refuses a file that is no single-link regular file
Readable(f) == f.kind # "unsafe"

\* validate_local_replace_destination, and the guard of the remote script
SafeDestination(f) == f.kind # "unsafe"

\* merge_agent_config refuses a root or a servers value that is no object
Mergeable(f) == f.kind \in {"absent", "object"}
MergeAgentConfig(f, s) == [kind |-> "object", theirs |-> f.theirs, entry |-> s]

\* agent_mcp_config_matches: the entry refers to this launch's variable
AgentMcpConfigMatches(f, s) == f.kind = "object" /\ f.entry = s

\* one step of several fails: the link, the disk or the store
LaunchFault == launchFaults < MaxLaunchFaults /\ launchFaults' = launchFaults + 1

\* remove_session_claude_mcp_config; a failure is logged and the file stays
DropPrivate(s) ==
    IF tool[s] # "claude" THEN UNCHANGED <<private, launchFaults>>
    ELSE \/ private' = private \ {s} /\ UNCHANGED launchFaults
         \/ UNCHANGED private /\ LaunchFault

GoOn(s, p) == pc' = [pc EXCEPT ![s] = p] /\ UNCHANGED lease
GiveUp(s) == pc' = [pc EXCEPT ![s] = "idle"] /\ lease' = Unowned

----------------------------------------------------------------------------
(* start_session_locked and launch.                                        *)

\* has_session finds the pane and it is current: arm the pipe, row Running
Reattach(s) ==
    /\ agentPane[s] # "none" /\ (place = "local" \/ s \in marked)
    /\ running' = running \cup {s}
    /\ UNCHANGED <<private, lease, pc, agentPane, marked, env, got,
                   launchFaults>>

\* no pane, or a remote one without the current generation, which is killed:
\* drop what an earlier launch left, then provision
BeginLaunch(s) ==
    /\ agentPane[s] = "none" \/ (place = "ssh" /\ s \notin marked)
    /\ agentPane' = [agentPane EXCEPT ![s] = "none"] /\ running' = running \ {s}
    /\ marked' = marked \ {s} /\ env' = env \ {s}
    /\ got' = [got EXCEPT ![s] = Unowned]
    /\ DropPrivate(s)
    /\ IF s \in private' THEN UNCHANGED <<pc, lease>>
       ELSE /\ pc' = [pc EXCEPT
                      ![s] = IF tool[s] = "claude" THEN "private" ELSE "read"]
            /\ lease' = s

\* a remote pane without an owner mark that is not the row's persisted target
\* is refused by migrate_or_verify_remote_tmux_owner
Refuse(s) ==
    /\ agentPane[s] # "none" /\ place = "ssh" /\ s \notin marked
    /\ UNCHANGED <<private, lease, pc, agentPane, marked, running, env, got,
                   launchFaults>>

Start(s) ==
    /\ pc[s] = "idle" /\ lease = Unowned /\ launches < MaxLaunches
    /\ launches' = launches + 1
    /\ Reattach(s) \/ BeginLaunch(s) \/ Refuse(s)
    /\ UNCHANGED <<place, tool, mcpFile, seen, edits>>

\* atomic_private_write: staged, synced and renamed into place, or not at all
PrivateWrite(s) == private' = private \cup {s}

\* provision/write_combined_config locally: launch without MCP when the write
\* fails.  prepare_remote_runtime_dir and write_remote_file on a host: the
\* launch ends with the error, also when the file was written before the link
\* was lost
WritePrivate(s) ==
    /\ pc[s] = "private"
    /\ \/ PrivateWrite(s) /\ GoOn(s, "spawn") /\ UNCHANGED launchFaults
       \/ place = "local" /\ UNCHANGED private /\ GoOn(s, "spawn") /\ LaunchFault
       \/ place = "ssh" /\ (PrivateWrite(s) \/ UNCHANGED private)
          /\ GiveUp(s) /\ LaunchFault
    /\ UNCHANGED <<place, tool, mcpFile, seen, env, agentPane, marked,
                   running, got, edits, launches>>

\* a local launch goes on without the entry, a remote launch ends
Unprovisioned(s) == IF place = "local" THEN GoOn(s, "spawn") ELSE GiveUp(s)

\* write_agent_project_config reads the file and merges in memory
ReadProject(s) ==
    /\ pc[s] = "read"
    /\ \/ /\ Readable(mcpFile) /\ Mergeable(mcpFile)
          /\ seen' = [seen EXCEPT ![s] = mcpFile]
          /\ GoOn(s, "write") /\ UNCHANGED launchFaults
       \/ /\ ~Readable(mcpFile) \/ ~Mergeable(mcpFile)
          /\ Unprovisioned(s) /\ UNCHANGED <<seen, launchFaults>>
       \/ Unprovisioned(s) /\ LaunchFault /\ UNCHANGED seen
    /\ UNCHANGED <<place, tool, mcpFile, private, env, agentPane, marked,
                   running, got, edits, launches>>

\* write_host_file_bytes_with_timeout stages the text and renames it over the
\* file: what was read is not compared with what is replaced
WriteProject(s) ==
    /\ pc[s] = "write"
    /\ \/ /\ SafeDestination(mcpFile) /\ mcpFile' = MergeAgentConfig(seen[s], s)
          /\ env' = env \cup {s} /\ UNCHANGED launchFaults
          /\ GoOn(s, IF place = "ssh" THEN "verify" ELSE "spawn")
       \/ /\ ~SafeDestination(mcpFile) /\ Unprovisioned(s)
          /\ UNCHANGED <<mcpFile, env, launchFaults>>
       \/ /\ Unprovisioned(s) /\ LaunchFault /\ UNCHANGED env
          /\ mcpFile' \in IF place = "ssh"
                        THEN {mcpFile, MergeAgentConfig(seen[s], s)} ELSE {mcpFile}
    /\ UNCHANGED <<place, tool, private, seen, agentPane, marked, running, got,
                   edits, launches>>

\* verify_remote_agent_mcp_config
VerifyProject(s) ==
    /\ pc[s] = "verify"
    /\ \/ /\ Readable(mcpFile) /\ AgentMcpConfigMatches(mcpFile, s)
          /\ GoOn(s, "spawn") /\ UNCHANGED launchFaults
       \/ ~AgentMcpConfigMatches(mcpFile, s) /\ GiveUp(s) /\ UNCHANGED launchFaults
       \/ GiveUp(s) /\ LaunchFault
    /\ UNCHANGED <<place, tool, mcpFile, private, seen, env, agentPane, marked,
                   running, got, edits, launches>>

\* new_session and pipe_pane, or launch_remote_session and the two marks.  A
\* launch whose pane cannot be identified leaves it running unmarked; every
\* other failure leaves no pane.  A failed launch drops Claude's file
Spawn(s) ==
    /\ pc[s] = "spawn"
    /\ \/ /\ agentPane' = [agentPane EXCEPT ![s] = "starting"]
          /\ marked' = marked \cup {s}
          /\ GoOn(s, "persist") /\ UNCHANGED <<private, launchFaults>>
       \/ /\ LaunchFault /\ GiveUp(s) /\ UNCHANGED marked
          /\ private' = private \ {s}
          /\ \/ UNCHANGED agentPane
             \/ place = "ssh" /\ agentPane' = [agentPane EXCEPT ![s] = "starting"]
    /\ UNCHANGED <<place, tool, mcpFile, seen, env, running, got, edits,
                   launches>>

\* update_status_and_target, or the rollback of the pane
Persist(s) ==
    /\ pc[s] = "persist" /\ GiveUp(s)
    /\ \/ running' = running \cup {s} /\ UNCHANGED <<private, agentPane,
                                                     marked, launchFaults>>
       \/ /\ LaunchFault /\ UNCHANGED running /\ marked' = marked \ {s}
          /\ agentPane' = [agentPane EXCEPT ![s] = "none"]
          /\ private' = private \ {s}
    /\ UNCHANGED <<place, tool, mcpFile, seen, env, got, edits, launches>>

\* the agent starts up and reads its configuration; the process is external
AgentReads(s) ==
    /\ agentPane[s] = "starting"
    /\ agentPane' = [agentPane EXCEPT ![s] = "up"]
    /\ got' = [got EXCEPT ![s] =
                 IF AgentMcpFile(tool[s])
                 THEN IF mcpFile.kind = "object" THEN mcpFile.entry ELSE Unowned
                 ELSE IF s \in private THEN s ELSE Unowned]
    /\ UNCHANGED <<place, tool, mcpFile, private, lease, pc, seen, env, marked,
                   running, edits, launchFaults, launches>>

----------------------------------------------------------------------------
(* stop, kill and delete: the pane goes first, the credential after it.    *)

StopPane(s) ==
    /\ pc[s] = "idle" /\ lease = Unowned /\ launches < MaxLaunches
    /\ launches' = launches + 1
    /\ \/ /\ agentPane' = [agentPane EXCEPT ![s] = "none"]
          /\ marked' = marked \ {s} /\ running' = running \ {s}
          /\ pc' = [pc EXCEPT ![s] = "stop"] /\ lease' = s /\ UNCHANGED launchFaults
       \/ LaunchFault /\ UNCHANGED <<agentPane, marked, running, pc, lease>>
    /\ UNCHANGED <<place, tool, mcpFile, private, seen, env, got, edits>>

StopDropsPrivate(s) ==
    /\ pc[s] = "stop" /\ DropPrivate(s) /\ GiveUp(s)
    /\ UNCHANGED <<place, tool, mcpFile, seen, env, agentPane, marked,
                   running, got, edits, launches>>

\* the daemon dies and is started again: its calls are gone, the rest stays
ServerRestarts ==
    /\ lease # Unowned /\ GiveUp(lease) /\ LaunchFault
    /\ UNCHANGED <<place, tool, mcpFile, private, seen, env, agentPane, marked,
                   running, got, edits, launches>>

\* the user's editor: any set of entries, text that does not parse, a link
UserEdits ==
    /\ edits < MaxUserEdits /\ edits' = edits + 1
    /\ \/ \E t \in SUBSET UserServers :
            mcpFile' = [kind |-> "object", theirs |-> t, entry |-> mcpFile.entry]
       \/ \E k \in {"invalid", "unsafe"} : mcpFile' = [mcpFile EXCEPT !.kind = k]
    /\ mcpFile' # mcpFile
    /\ UNCHANGED <<place, tool, private, lease, pc, seen, env, agentPane,
                   marked, running, got, launchFaults, launches>>

ConfigNext ==
    \/ \E s \in CfgSessions :
         \/ Start(s) \/ WritePrivate(s) \/ ReadProject(s) \/ WriteProject(s)
         \/ VerifyProject(s) \/ Spawn(s) \/ Persist(s) \/ AgentReads(s)
         \/ StopPane(s) \/ StopDropsPrivate(s)
    \/ ServerRestarts \/ UserEdits

ConfigSpec == ConfigInit /\ [][ConfigNext]_cfgVars

----------------------------------------------------------------------------
(* Properties.                                                             *)

\* A Claude session shown as Running whose launch wrote its private file still
\* has the file: stops, deletes, failed launches and restarts remove it only
\* after the pane they belong to (the CLI may read it again at any time).
RunningKeepsCredential ==
    \A s \in running : got[s] = s /\ tool[s] = "claude" => s \in private
============================================================================
