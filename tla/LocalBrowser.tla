----------------------------- MODULE LocalBrowser -----------------------------
(***************************************************************************)
(* The shared browser of this machine and the MCP servers in front of it.  *)
(*                                                                         *)
(* Three singletons live in tmux sessions of their own: the Chromium       *)
(* ("chrome"), the Playwright MCP bound to it over CDP ("bound") and the   *)
(* Playwright MCP with a hidden browser of its own ("headless").  Each     *)
(* provisioning of an agent ensures the ones it needs: probe the port,     *)
(* take the launch lock, probe again, reset a session that does not        *)
(* listen, start a new one, wait for the port.  The browser can also be    *)
(* stopped by hand, and any of the processes can die.                      *)
(***************************************************************************)
EXTENDS Integers

CONSTANTS
  Provisions,   \* concurrent calls of provision_browser_mcp, each used once
  MaxStarts,    \* bound: tmux sessions started
  MaxFailures   \* bound: processes that die or hang

ASSUME LocalBrowserAssumption ==
  {MaxStarts, MaxFailures} \subseteq Nat /\ "free" \notin Provisions

VARIABLES
  server,     \* each singleton: its tmux session, whether its port answers
  launchLock, \* holder of each launch lock: the browser's, the servers'
  call,       \* each provisioning: where it is and which singleton it ensures
  stopper,    \* stop_local_cdp_browser: how far it is
  lbCount     \* sessions started and failures so far

localVars == <<server, launchLock, call, stopper, lbCount>>

Singletons == {"chrome", "bound", "headless"}
\* Both Playwright servers share one lock.
LockOf(w) == IF w = "chrome" THEN "chrome" ELSE "mcp"

Down == [tmux |-> FALSE, up |-> FALSE, life |-> 0, peer |-> 0]

LocalInit ==
  /\ server = [w \in Singletons |-> Down]
  /\ launchLock = [k \in {"chrome", "mcp"} |-> "free"]
  /\ call = [p \in Provisions |-> [pc |-> "idle", what |-> "chrome",
                                   got |-> "", stale |-> FALSE]]
  /\ stopper = "idle"
  /\ lbCount = [starts |-> 0, failures |-> 0]

CallAt(p, pc) == call[p].pc = pc
What(p) == call[p].what
CallGoes(p, pc) == call' = [call EXCEPT ![p].pc = pc]
Unlock(p) == launchLock' = [k \in {"chrome", "mcp"} |->
                              IF launchLock[k] = p THEN "free"
                                                   ELSE launchLock[k]]

\* Attached to a browser process that is not the one running now.
StaleBinding(w) ==
  /\ w = "bound" /\ server["chrome"].up
  /\ server[w].peer \notin {0, server["chrome"].life}

\* provision_browser_mcp after one ensure: the browser's endpoint leads to the
\* bound server, a browser that cannot be had to the headless one.
Ensured(p) ==
  call' = [call EXCEPT ![p] =
             IF What(p) = "chrome"
             THEN [@ EXCEPT !.pc = "probe", !.what = "bound"]
             ELSE [@ EXCEPT !.pc = "done", !.got = What(p),
                            !.stale = StaleBinding(What(p))]]
Refused(p, why) ==
  call' = [call EXCEPT ![p] =
             IF What(p) = "chrome"
             THEN [@ EXCEPT !.pc = "probe", !.what = "headless"]
             ELSE [@ EXCEPT !.pc = "done", !.got = why]]

-----------------------------------------------------------------------------
(* The processes                                                           *)

\* A session begins to listen; the bound server attaches to the browser that
\* answers then.
Boots(w) ==
  /\ server[w].tmux /\ ~server[w].up
  /\ server' = [server EXCEPT ![w].up = TRUE, ![w].peer =
                  IF w = "bound" /\ server["chrome"].up
                  THEN server["chrome"].life ELSE 0]
  /\ UNCHANGED <<launchLock, call, stopper, lbCount>>

\* Fault: the tmux session goes away and the server is still counted as up.
FailsUnseen(w) ==
  /\ server[w].tmux /\ lbCount.failures < MaxFailures
  /\ lbCount' = [lbCount EXCEPT !.failures = @ + 1]
  /\ server' = [server EXCEPT ![w].tmux = FALSE]
  /\ UNCHANGED <<launchLock, call, stopper>>

\* It exits and takes its session along, or hangs and keeps it.
Fails(w) ==
  /\ server[w].tmux /\ lbCount.failures < MaxFailures
  /\ lbCount' = [lbCount EXCEPT !.failures = @ + 1]
  /\ \/ server' = [server EXCEPT ![w] = Down]
     \/ server' = [server EXCEPT ![w].up = FALSE]
  /\ UNCHANGED <<launchLock, call, stopper>>

-----------------------------------------------------------------------------
(* ensure_local_cdp_browser and ensure                                     *)

\* The engine of this machine: bound to the browser, or headless by choice.
Provision(p) ==
  /\ CallAt(p, "idle")
  /\ \E w \in {"chrome", "headless"}:
       call' = [call EXCEPT ![p].pc = "probe", ![p].what = w]
  /\ UNCHANGED <<server, launchLock, stopper, lbCount>>

\* The fast path needs no lock.
ProbePort(p) ==
  /\ CallAt(p, "probe")
  /\ IF server[What(p)].up THEN Ensured(p) ELSE CallGoes(p, "lock")
  /\ UNCHANGED <<server, launchLock, stopper, lbCount>>

\* Fault: a caller goes on without waiting for the launch lock.
TakeLaunchLockFreely(p) ==
  /\ CallAt(p, "lock")
  /\ launchLock' = [launchLock EXCEPT ![LockOf(What(p))] = p]
  /\ CallGoes(p, "again")
  /\ UNCHANGED <<server, stopper, lbCount>>

TakeLaunchLock(p) ==
  /\ CallAt(p, "lock") /\ launchLock[LockOf(What(p))] = "free"
  /\ launchLock' = [launchLock EXCEPT ![LockOf(What(p))] = p]
  /\ CallGoes(p, "again")
  /\ UNCHANGED <<server, stopper, lbCount>>

\* A peer may have launched it meanwhile.  chromium_executable and
\* ensure_npx_available may find nothing installed.
ProbeAgain(p) ==
  /\ CallAt(p, "again")
  /\ \/ server[What(p)].up /\ Ensured(p) /\ Unlock(p)
     \/ ~server[What(p)].up /\ CallGoes(p, "reset") /\ UNCHANGED launchLock
     \/ ~server[What(p)].up /\ Refused(p, "missing") /\ Unlock(p)
  /\ UNCHANGED <<server, stopper, lbCount>>

\* A session that exists gets two seconds to answer, then it is killed.
ResetStale(p) ==
  LET w == What(p)
  IN /\ CallAt(p, "reset")
     /\ \/ /\ server[w].tmux /\ server[w].up
           /\ Ensured(p) /\ Unlock(p) /\ UNCHANGED server
        \/ /\ ~server[w].up
           /\ server' = [server EXCEPT ![w] = Down]
           /\ CallGoes(p, "new") /\ UNCHANGED launchLock
     /\ UNCHANGED <<stopper, lbCount>>

\* tmux refuses a name that exists.
NewSession(p) ==
  LET w == What(p)
  IN /\ CallAt(p, "new") /\ lbCount.starts < MaxStarts
     /\ lbCount' = [lbCount EXCEPT !.starts = @ + 1]
     /\ IF server[w].tmux
        THEN Refused(p, "duplicate") /\ Unlock(p) /\ UNCHANGED server
        ELSE /\ server' = [server EXCEPT ![w] =
                             [Down EXCEPT !.tmux = TRUE,
                                          !.life = lbCount.starts + 1]]
             /\ CallGoes(p, "wait") /\ UNCHANGED launchLock
     /\ UNCHANGED stopper

\* wait_until_listening.
AwaitPort(p) ==
  /\ CallAt(p, "wait")
  /\ \/ server[What(p)].up /\ Ensured(p)
     \/ ~server[What(p)].up /\ Refused(p, "timeout")
  /\ Unlock(p)
  /\ UNCHANGED <<server, stopper, lbCount>>

-----------------------------------------------------------------------------
(* stop_local_cdp_browser: without the launch lock                         *)

StopChrome ==
  /\ stopper = "idle"
  /\ server' = [server EXCEPT !["chrome"] = Down]
  /\ stopper' = "bound"
  /\ UNCHANGED <<launchLock, call, lbCount>>

StopBoundMcp ==
  /\ stopper = "bound"
  /\ server' = [server EXCEPT !["bound"] = Down]
  /\ stopper' = "done"
  /\ UNCHANGED <<launchLock, call, lbCount>>

EnsureSteps(p) ==
  \/ Provision(p) \/ ProbePort(p) \/ TakeLaunchLock(p) \/ ProbeAgain(p)
  \/ ResetStale(p) \/ NewSession(p) \/ AwaitPort(p)

LocalNext ==
  \/ \E p \in Provisions: EnsureSteps(p)
  \/ \E w \in Singletons: Boots(w) \/ Fails(w)
  \/ StopChrome \/ StopBoundMcp

LocalSpec == LocalInit /\ [][LocalNext]_localVars

-----------------------------------------------------------------------------
(* Properties                                                              *)

\* The variables stay within their types.
LocalTypeOK ==
  /\ \A w \in Singletons: server[w].up => server[w].tmux
  /\ \A k \in {"chrome", "mcp"}: launchLock[k] \in Provisions \cup {"free"}
  /\ \A p \in Provisions: What(p) \in Singletons

\* Launches of one singleton never overlap, so no call is turned away by tmux
\* with a name that exists and "wrongly degrade[s] to headless even though the
\* browser is healthy" (cdp_browser.rs:90), whatever dies or is stopped.
LaunchesDoNotCollide ==
  \A p \in Provisions:
    /\ call[p].got # "duplicate"
    /\ CallAt(p, "new") => ~server[What(p)].tmux
    /\ CallAt(p, "new") \/ CallAt(p, "wait")
         => launchLock[LockOf(What(p))] = p

-----------------------------------------------------------------------------
(* Statements the code does not keep: TLC refutes each of them, see the    *)
(* README, "What does not hold".                                           *)

\* The bound server must be stopped "whenever the CDP browser it attaches to
\* is torn down" (playwright_mcp.rs:124): an agent is never handed a server
\* that is attached to a browser which has been replaced.
BoundServesLive == \A p \in Provisions: ~call[p].stale
=============================================================================
