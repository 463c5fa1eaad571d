------------------------------- MODULE MCHosts -------------------------------
(***************************************************************************)
(* Small instances of the components that start things and let people in:  *)
(* the runtime lease, sign-in, browsers, launches, passwords of ssh commands *)
(* and private files.  One behaviour is a behaviour of one component, picked *)
(* at the start; the others rest in an initial state of theirs.            *)
(***************************************************************************)
EXTENDS RuntimeLease, SignIn, HostBrowser, LocalBrowser, ProjectConfig,
        RemoteLaunch, AskPass, PrivateFiles, TLC

VARIABLE part

Parts == {"lease", "sign", "browser", "local", "config", "launch", "ask",
          "files"}

MCVars ==
  <<part, leaseVars, signVars, browserVars, localVars, cfgVars, launchVars,
    askVars, fileVars>>

\* A resting component with several initial states is in one of them.
Pinned ==
  /\ part = "config" \/ /\ place = "local" /\ mcpFile = NoConfig
                        /\ tool = [s \in CfgSessions |-> "claude"]
  /\ part = "launch" \/ (bins = Bins /\ bound = FALSE)
  /\ part = "ask" \/ /\ helper = "absent"
                     /\ cmd = [c \in SshCmds |->
                                 [way |-> "captured", pc |-> "new"]]
  /\ part = "files" \/ inode = <<>>

MCInit ==
  /\ part \in Parts /\ Pinned
  /\ LeaseInit
  /\ SignInit
  /\ BrowserInit
  /\ LocalInit
  /\ ConfigInit
  /\ LaunchInit
  /\ AskInit
  /\ FilesInit

Only(q) ==
  /\ UNCHANGED part
  /\ IF q = "lease" THEN TRUE ELSE UNCHANGED leaseVars
  /\ IF q = "sign" THEN TRUE ELSE UNCHANGED signVars
  /\ IF q = "browser" THEN TRUE ELSE UNCHANGED browserVars
  /\ IF q = "local" THEN TRUE ELSE UNCHANGED localVars
  /\ IF q = "config" THEN TRUE ELSE UNCHANGED cfgVars
  /\ IF q = "launch" THEN TRUE ELSE UNCHANGED launchVars
  /\ IF q = "ask" THEN TRUE ELSE UNCHANGED askVars
  /\ IF q = "files" THEN TRUE ELSE UNCHANGED fileVars

MCNext ==
  \/ part = "lease" /\ LeaseNext /\ Only("lease")
  \/ part = "sign" /\ SignNext /\ Only("sign")
  \/ part = "browser" /\ BrowserNext /\ Only("browser")
  \/ part = "local" /\ LocalNext /\ Only("local")
  \/ part = "config" /\ ConfigNext /\ Only("config")
  \/ part = "launch" /\ LaunchNext /\ Only("launch")
  \/ part = "ask" /\ AskNext /\ Only("ask")
  \/ part = "files" /\ FilesNext /\ Only("files")

MCSpec == MCInit /\ [][MCNext]_MCVars

-------------------------------------------------------------------------------
\* Every component stays within its types.
HostTypeOK ==
  /\ LeaseTypeOK /\ SignTypeOK /\ BrowserTypeOK /\ LocalTypeOK
  /\ ConfigTypeOK /\ LaunchTypeOK /\ AskTypeOK /\ FilesTypeOK

\* Of several starters of one thing nobody is harmed: daemons that take the
\* runtime lease (server lib.rs) and open one database (store lib.rs),
\* launches of the shared local browser (cdp_browser.rs, playwright_mcp.rs)
\* and of a host's browser, whose stop may come late (host_browser.rs).
StartsDoNotCollide ==
  /\ CleanLeaseIsExclusive
  /\ DaemonsShareDatabase
  /\ LaunchesDoNotCollide
  /\ KillSparesReplacement

\* What a launch put down for its agent is there while it is needed and gone
\* when it is not: the credential file of a Claude session
\* (mcp_provision.rs), the environment file and the pane of a remote script
\* (host_runtime.rs), the password of an ssh command (tmux ssh.rs).
LaunchIsSettled ==
  /\ RunningKeepsCredential
  /\ AnsweredIsSettled
  /\ PasswordIsThere

\* Signing in: no dead token revives, no peer gets past the limiter, no pinned
\* certificate changes (auth.rs, ratelimit.rs, tls.rs, terminal/mod.rs).
SignInHolds == DeadTokenStaysDead /\ LimiterHolds /\ PinsStayValid
===============================================================================
