----------------------------- MODULE Readouts -----------------------------
(***************************************************************************)
(* Two read-outs that are polled rather than pushed.  The plan usage of    *)
(* the account: scans of the agents' logs and a call to the vendor, behind *)
(* a cache that any number of clients share (agentum-server, usage.rs and  *)
(* routes/usage.rs).  The plan of an agent in the terminal UI's side panel *)
(* (app.rs): fetched in the background, one fetch at a time for a session, *)
(* on an event that may be lost, on a keystroke and on a slow tick.        *)
(***************************************************************************)
EXTENDS Integers

CONSTANTS Viewers,      \* clients that poll the usage of the account
          UsageTtl,     \* CLAUDE_USAGE_TTL
          MaxUsageNow,  \* bound on the clock
          MaxPlans      \* bound on how often the agent changes its plan

Never == -1
NoPlan == -1            \* nothing in the panel's cache
NoReply == -3           \* no fetch is under way,
Asked == -2             \* the daemon has yet to answer it,
Failed == -1            \* or it has failed
Nobody == "nobody"

ASSUME ReadoutAssumption ==
    /\ UsageTtl \in Nat \ {0} /\ MaxUsageNow \in Nat /\ MaxPlans \in Nat
    /\ Nobody \notin Viewers

VARIABLES
    usageNow,       \* the daemon's monotonic clock
    cachedAt,       \* instant of the cached snapshot, Never when there is none
    usageLock,      \* viewer whose request holds the cache's mutex
    viewer,         \* step each viewer's request is at
    lastDone,       \* history: instant the last call to the vendor ended
    plan,           \* revision of the agent's plan on the server
    planReply,      \* answer on its way to the loop: a revision or Failed
    fetching,       \* agent_tasks_inflight holds the session
    shown,          \* revision in the panel's cache
    panel           \* right_panel_visible

usageVars == <<usageNow, cachedAt, usageLock, viewer, lastDone>>
planVars == <<plan, planReply, fetching, shown, panel>>
readVars == <<usageVars, planVars>>

\* The variables stay within their types.
ReadTypeOK ==
    /\ usageNow \in 0..MaxUsageNow
    /\ cachedAt \in {Never} \cup 0..MaxUsageNow
    /\ usageLock \in Viewers \cup {Nobody}
    /\ viewer \in [Viewers -> {"idle", "waiting", "scanning", "calling"}]
    /\ lastDone \in {Never} \cup 0..MaxUsageNow
    /\ plan \in 0..MaxPlans
    /\ planReply \in NoReply..MaxPlans
    /\ fetching \in BOOLEAN /\ panel \in BOOLEAN
    /\ shown \in {NoPlan} \cup 0..MaxPlans

-----------------------------------------------------------------------------
(* The usage of the account, GET /api/usage/claude.                        *)

\* The mutex is taken before the cache is looked at, and held across the scan
\* and the call.
AskUsage(v) ==
    /\ viewer[v] = "idle"
    /\ viewer' = [viewer EXCEPT ![v] = "waiting"]
    /\ UNCHANGED <<usageNow, cachedAt, usageLock, lastDone>>

Fresh == cachedAt # Never /\ usageNow - cachedAt < UsageTtl

TakeCache(v) ==
    /\ viewer[v] = "waiting" /\ usageLock = Nobody
    /\ IF Fresh
       THEN /\ viewer' = [viewer EXCEPT ![v] = "idle"]
            /\ UNCHANGED usageLock
       ELSE /\ viewer' = [viewer EXCEPT ![v] = "scanning"]
            /\ usageLock' = v
    /\ UNCHANGED <<usageNow, cachedAt, lastDone>>

Answer(v) ==
    /\ cachedAt' = usageNow
    /\ usageLock' = Nobody
    /\ viewer' = [viewer EXCEPT ![v] = "idle"]

\* scan_claude and the first half of enrich_claude: without a Claude directory
\* or a token the scan is the answer, otherwise the vendor is called.
ScanClaude(v) ==
    /\ viewer[v] = "scanning"
    /\ \/ Answer(v)
       \/ /\ viewer' = [viewer EXCEPT ![v] = "calling"]
          /\ UNCHANGED <<cachedAt, usageLock>>
    /\ UNCHANGED <<usageNow, lastDone>>

\* Fault: the answer of a call to the vendor is not put into the cache.
FetchOauthUncached(v) ==
    /\ viewer[v] = "calling"
    /\ usageLock' = Nobody
    /\ viewer' = [viewer EXCEPT ![v] = "idle"]
    /\ lastDone' = usageNow
    /\ UNCHANGED <<usageNow, cachedAt>>

\* fetch_oauth_usage ends, and a failure is cached like an answer.
FetchOauthUsage(v) ==
    /\ viewer[v] = "calling"
    /\ Answer(v)
    /\ lastDone' = usageNow
    /\ UNCHANGED usageNow

\* The client goes away: its handler is dropped wherever it waits, the mutex
\* with it, and nothing is cached.
ViewerLeaves(v) ==
    /\ viewer[v] # "idle"
    /\ viewer' = [viewer EXCEPT ![v] = "idle"]
    /\ usageLock' = IF usageLock = v THEN Nobody ELSE usageLock
    /\ UNCHANGED <<usageNow, cachedAt, lastDone>>

TimePasses ==
    /\ usageNow < MaxUsageNow
    /\ usageNow' = usageNow + 1
    /\ UNCHANGED <<cachedAt, usageLock, viewer, lastDone>>

-----------------------------------------------------------------------------
(* The agent's plan in the side panel.                                     *)

\* spawn_agent_tasks_fetch: a fetch for a session that has one is dropped.
SpawnTasksFetch ==
    /\ fetching' = TRUE
    /\ planReply' = IF fetching THEN planReply ELSE Asked

\* The agent changes its plan; the event may be lost by the bus.  It is of
\* interest when the session is cached or observed, and this one is observed.
PlanChanges ==
    /\ plan < MaxPlans
    /\ plan' = plan + 1
    /\ \/ SpawnTasksFetch
       \/ UNCHANGED <<fetching, planReply>>
    /\ UNCHANGED <<shown, panel>>

\* A move in the tree, F5 and F6.
Navigate ==
    /\ SpawnTasksFetch
    /\ UNCHANGED <<plan, shown, panel>>

\* Ctrl-T and the palette: a panel that opens is fetched for.
TogglePanel ==
    /\ panel' = ~panel
    /\ IF panel' THEN SpawnTasksFetch ELSE UNCHANGED <<fetching, planReply>>
    /\ UNCHANGED <<plan, shown>>

\* The daemon answers with the plan it has now, or the request fails.
GetAgentTasks ==
    /\ planReply = Asked
    /\ planReply' \in {plan, Failed}
    /\ UNCHANGED <<plan, fetching, shown, panel>>

\* Fault: a failed fetch leaves the marker of the fetch in flight.
ApplyTasksOnlyGood ==
    /\ planReply \notin {NoReply, Asked}
    /\ fetching' = (planReply = Failed)
    /\ planReply' = NoReply
    /\ shown' = IF planReply = Failed
                THEN IF shown = NoPlan THEN 0 ELSE shown
                ELSE planReply
    /\ UNCHANGED <<plan, panel>>

\* The loop applies the answer: the marker is cleared either way, and after a
\* failure the last plan stays in the panel.
ApplyTasks ==
    /\ planReply \notin {NoReply, Asked}
    /\ fetching' = FALSE
    /\ planReply' = NoReply
    /\ shown' = IF planReply = Failed
                THEN IF shown = NoPlan THEN 0 ELSE shown
                ELSE planReply
    /\ UNCHANGED <<plan, panel>>

\* The refresh tick: sessions that are not cached, and the observed one when
\* the panel is open.
RefreshTick ==
    /\ panel \/ shown = NoPlan
    /\ SpawnTasksFetch
    /\ UNCHANGED <<plan, shown, panel>>

\* /clear is typed into the pane: the panel's cache is wiped at once; the
\* daemon's plan changes (PlanChanges) if and when the reset request arrives.
ClearPlan ==
    /\ shown # NoPlan
    /\ shown' = NoPlan
    /\ UNCHANGED <<plan, fetching, planReply, panel>>

-----------------------------------------------------------------------------
ReadInit ==
    /\ usageNow = 0 /\ cachedAt = Never /\ usageLock = Nobody
    /\ viewer = [v \in Viewers |-> "idle"]
    /\ lastDone = Never
    /\ plan = 0
    /\ planReply = Asked /\ fetching = TRUE    \* prime_ids
    /\ shown = NoPlan
    /\ panel = TRUE

UsageNext ==
    \/ \E v \in Viewers :
         AskUsage(v) \/ TakeCache(v) \/ ScanClaude(v) \/ FetchOauthUsage(v)
         \/ ViewerLeaves(v)
    \/ TimePasses

PlanNext ==
    \/ PlanChanges
    \/ Navigate
    \/ TogglePanel
    \/ GetAgentTasks
    \/ ApplyTasks
    \/ RefreshTick
    \/ ClearPlan

ReadNext ==
    \/ UsageNext /\ UNCHANGED planVars
    \/ PlanNext /\ UNCHANGED usageVars

ReadSpec == ReadInit /\ [][ReadNext]_readVars

-----------------------------------------------------------------------------
\* "N polling clients don't multiply upstream calls" (routes/usage.rs): a call
\* to the vendor starts at least a time to live after the last one that ended,
\* whether that one succeeded or not and whoever was waiting meanwhile.
UpstreamIsPaced ==
    [][\A v \in Viewers :
         viewer[v] = "scanning" /\ viewer'[v] = "calling" =>
             lastDone = Never \/ usageNow - lastDone >= UsageTtl]_readVars

\* "this catch-up makes the panel converge even if a bus.lagged dropped the
\* relevant agent_tasks.updated" (run_loop): while the panel stays open it
\* shows the agent's plan again and again, whatever event was lost, fetch was
\* coalesced with an older one or request failed.
PanelConverges == <>[]panel => []<>(shown = plan)
=============================================================================
