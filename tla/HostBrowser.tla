----------------------------- MODULE HostBrowser -----------------------------
(***************************************************************************)
(* Headless Chromium on SSH hosts.                                         *)
(*                                                                         *)
(* A browser runs in a tmux session of its own on the host, named after    *)
(* the worktree's basename (the slug), and is reached through an ssh -L    *)
(* forward from a port of this machine.  The registry maps the slug to a   *)
(* bridge entry.  Every operation copies the entry, waits for the host's   *)
(* lifecycle lease, reloads the host's row, and compares generations       *)
(* before it acts; an edit or a delete of the host retires its bridges     *)
(* under the same lease and closes the ssh master with its forwards.       *)
(***************************************************************************)
EXTENDS Integers, FiniteSets

CONSTANTS
  BHosts,      \* stored SSH hosts, each destination a machine of its own
  Slugs,       \* worktree basenames
  MacPorts,    \* the local ports scanned for a forward, a range of numbers
  BOps,        \* requests, each used once
  MaxDest,     \* bound: destinations a host's row goes through
  MaxLives,    \* bound: Chromium processes
  MaxMasterDrops     \* bound: ssh masters lost

ASSUME BrowserAssumption ==
  /\ MacPorts \subseteq Nat
  /\ MaxDest \in Nat \ {0} /\ {MaxLives, MaxMasterDrops} \subseteq Nat
  /\ "free" \notin BOps

VARIABLES
  hostDest,   \* each host's destination in the store, 0 when deleted
  chrome,     \* each tmux session: how far it has booted, its port file
  reg,        \* the registry: the bridge entry of each slug
  lifeLease,  \* who holds each host's lifecycle lease
  fwd,        \* what each local port forwards to
  bop,        \* each request: where it is and the entry it copied
  bCount,     \* generations, processes and lost masters so far
  bEffect     \* the last kill or connection made for an entry

browserVars ==
  <<hostDest, chrome, reg, lifeLease, fwd, bop, bCount, bEffect>>

NoEntry == [gen |-> 0]
NoFwd == [life |-> 0]
Off == [boot |-> "off", life |-> 0, file |-> 0]
NoBrowserOp == [pc |-> "idle", kind |-> "", host |-> "", slug |-> "",
           entry |-> NoEntry]
NoEffect == [kind |-> "none"]

Places == {<<h, d, s>>: h \in BHosts, d \in 1..MaxDest, s \in Slugs}

BrowserInit ==
  /\ hostDest = [h \in BHosts |-> 1]
  /\ chrome = [p \in Places |-> Off]
  /\ reg = [s \in Slugs |-> NoEntry]
  /\ lifeLease = [h \in BHosts |-> "free"]
  /\ fwd = [n \in MacPorts |-> NoFwd]
  /\ bop = [o \in BOps |-> NoBrowserOp]
  /\ bCount = [gen |-> 0, life |-> 0, drops |-> 0]
  /\ bEffect = NoEffect

OpAt(o, pc) == bop[o].pc = pc
OpGoes(o, pc) == bop' = [bop EXCEPT ![o].pc = pc]
OpEnds(o) ==
  /\ bop' = [bop EXCEPT ![o] = [NoBrowserOp EXCEPT !.pc = "done"]]
  /\ lifeLease' = [h \in BHosts |->
                     IF lifeLease[h] = o THEN "free" ELSE lifeLease[h]]
Place(e) == <<e.host, e.dest, e.slug>>
SameEntry(e) == reg[e.slug].gen = e.gen
Forget(e) == IF SameEntry(e) THEN [reg EXCEPT ![e.slug] = NoEntry] ELSE reg
KillFor(e) ==
  [kind |-> "kill", entry |-> e, at |-> Place(e), newer |->
     \E s \in Slugs: /\ reg[s] # NoEntry /\ reg[s].gen # e.gen
                    /\ Place(reg[s]) = Place(e)]
Stopped(p) == [chrome EXCEPT ![p].boot = "off", ![p].life = 0]

-----------------------------------------------------------------------------
(* The machines                                                            *)

\* The pane's shell removes the old port file, then becomes Chromium.
PaneClears(p) ==
  /\ chrome[p].boot = "shell"
  /\ chrome' = [chrome EXCEPT ![p].boot = "exec", ![p].file = 0]
  /\ UNCHANGED <<hostDest, reg, lifeLease, fwd, bop, bCount, bEffect>>

\* Chromium binds a free port and writes it to the file.
ChromeServes(p) ==
  /\ chrome[p].boot = "exec"
  /\ bCount' = [bCount EXCEPT !.life = @ + 1]
  /\ chrome' = [chrome EXCEPT ![p] = [boot |-> "up", life |-> bCount.life + 1,
                                      file |-> bCount.life + 1]]
  /\ UNCHANGED <<hostDest, reg, lifeLease, fwd, bop, bEffect>>

\* A crash ends the tmux session and leaves the file.
ChromeDies(p) ==
  /\ chrome[p].boot = "up" /\ bCount.life < MaxLives
  /\ chrome' = Stopped(p)
  /\ UNCHANGED <<hostDest, reg, lifeLease, fwd, bop, bCount, bEffect>>

\* The ssh master dies with its forwards; the entries know nothing of it.
MasterDrops(h) ==
  /\ bCount.drops < MaxMasterDrops
  /\ \E n \in MacPorts: fwd[n] # NoFwd /\ fwd[n].host = h
  /\ bCount' = [bCount EXCEPT !.drops = @ + 1]
  /\ fwd' = [n \in MacPorts |-> IF fwd[n] # NoFwd /\ fwd[n].host = h
                                THEN NoFwd ELSE fwd[n]]
  /\ UNCHANGED <<hostDest, chrome, reg, lifeLease, bop, bEffect>>

-----------------------------------------------------------------------------
(* POST /api/host-browser                                                  *)

StartBegins(o, h, s) ==
  /\ OpAt(o, "idle")
  /\ bop' = [bop EXCEPT ![o] = [NoBrowserOp EXCEPT !.pc = "start", !.kind = "start",
                                  !.host = h, !.slug = s]]
  /\ UNCHANGED <<hostDest, chrome, reg, lifeLease, fwd, bCount, bEffect>>

\* With the lease: attach to a running session, or start one when the host
\* has a browser.
LaunchHostBrowser(o) ==
  LET h == bop[o].host
      p == <<h, hostDest[h], bop[o].slug>>
  IN /\ OpAt(o, "start") /\ lifeLease[h] = "free"
     /\ \/ /\ OpEnds(o) /\ UNCHANGED chrome
        \/ /\ hostDest[h] # 0 /\ bCount.life < MaxLives
           /\ lifeLease' = [lifeLease EXCEPT ![h] = o]
           /\ OpGoes(o, "port")
           /\ chrome' = IF chrome[p].boot # "off" THEN chrome
                        ELSE [chrome EXCEPT ![p].boot = "shell"]
     /\ UNCHANGED <<hostDest, reg, fwd, bCount, bEffect>>

\* The port is whatever the file holds; without one the wait times out.
AwaitCdpPort(o) ==
  LET h == bop[o].host
      p == <<h, hostDest[h], bop[o].slug>>
  IN /\ OpAt(o, "port")
     /\ \/ /\ chrome[p].file # 0
           /\ bop' = [bop EXCEPT ![o].pc = "tunnel", ![o].entry =
                        [gen |-> 0, host |-> h, dest |-> hostDest[h],
                         slug |-> bop[o].slug, port |-> chrome[p].file,
                         mac |-> 0]]
           /\ UNCHANGED lifeLease
        \/ chrome[p].file = 0 /\ OpEnds(o)
     /\ UNCHANGED <<hostDest, chrome, reg, fwd, bCount, bEffect>>

\* The first local port that is free, or that already has this very forward.
EnsureForwardTunnel(o) ==
  LET e == bop[o].entry
      spec == [host |-> e.host, dest |-> e.dest, slug |-> e.slug,
               life |-> e.port]
      usable == {n \in MacPorts: fwd[n] \in {NoFwd, spec}}
  IN /\ OpAt(o, "tunnel")
     /\ IF usable = {}
        THEN OpEnds(o) /\ UNCHANGED fwd
        ELSE LET n == CHOOSE k \in usable: \A j \in usable: k <= j
             IN /\ fwd' = [fwd EXCEPT ![n] = spec]
                /\ bop' = [bop EXCEPT ![o].pc = "register",
                                      ![o].entry.mac = n]
                /\ UNCHANGED lifeLease
     /\ UNCHANGED <<hostDest, chrome, reg, bCount, bEffect>>

\* A connect to the local end decides; a new entry replaces the slug's old one.
RegisterBridge(o) ==
  LET e == [bop[o].entry EXCEPT !.gen = bCount.gen + 1]
      reachable == fwd[e.mac] # NoFwd
  IN /\ OpAt(o, "register")
     /\ reg' = IF reachable THEN [reg EXCEPT ![e.slug] = e] ELSE reg
     /\ bCount' = [bCount EXCEPT !.gen = @ + 1]
     /\ OpEnds(o)
     /\ UNCHANGED <<hostDest, chrome, fwd, bEffect>>

-----------------------------------------------------------------------------
(* Operations on an entry: status, stop, navigate and screencast           *)

LookUp(o, kind, s) ==
  /\ OpAt(o, "idle") /\ reg[s] # NoEntry
  /\ bop' = [bop EXCEPT ![o] = [NoBrowserOp EXCEPT !.pc = "resolve", !.kind = kind,
                                  !.slug = s, !.entry = reg[s]]]
  /\ UNCHANGED <<hostDest, chrome, reg, lifeLease, fwd, bCount, bEffect>>

\* resolve_current_host under the lease: a deleted or moved host only lets the
\* entry be forgotten; a replaced entry ends the operation.
ResolveBridge(o) ==
  LET e == bop[o].entry
      current == hostDest[e.host] = e.dest
  IN /\ OpAt(o, "resolve") /\ lifeLease[e.host] = "free"
     /\ IF current /\ SameEntry(e) /\ bop[o].kind # "status"
        THEN /\ lifeLease' = [lifeLease EXCEPT ![e.host] = o]
             /\ OpGoes(o, bop[o].kind)
             /\ reg' = IF bop[o].kind = "stop" THEN Forget(e) ELSE reg
        ELSE /\ OpEnds(o)
             /\ reg' = IF current THEN reg ELSE Forget(e)
     /\ UNCHANGED <<hostDest, chrome, fwd, bCount, bEffect>>

\* stop: the entry is gone already when the session is killed.
StopKills(o) ==
  LET e == bop[o].entry
  IN /\ OpAt(o, "stop")
     /\ \/ /\ chrome' = Stopped(Place(e))
           /\ bEffect' = KillFor(e)
        \/ UNCHANGED <<chrome, bEffect>>
     /\ OpEnds(o)
     /\ UNCHANGED <<hostDest, reg, fwd, bCount>>

\* The connection goes to wherever the local port leads now; the generation
\* is compared once more before the page is driven.
ConnectPageCdp(o) ==
  LET e == bop[o].entry
      to == fwd[e.mac]
  IN /\ OpAt(o, "connect")
     /\ bEffect' = IF to # NoFwd /\ SameEntry(e)
                   THEN [kind |-> "connect", entry |-> e,
                         at |-> <<to.host, to.dest, to.slug>>]
                   ELSE bEffect
     /\ OpEnds(o)
     /\ UNCHANGED <<hostDest, chrome, reg, fwd, bCount>>

-----------------------------------------------------------------------------
(* PUT and DELETE of a host                                                *)

HostEditBegins(o, h) ==
  /\ OpAt(o, "idle") /\ lifeLease[h] = "free" /\ hostDest[h] # 0
  /\ lifeLease' = [lifeLease EXCEPT ![h] = o]
  /\ bop' = [bop EXCEPT ![o] = [NoBrowserOp EXCEPT !.pc = "retire", !.host = h]]
  /\ UNCHANGED <<hostDest, chrome, reg, fwd, bCount, bEffect>>

\* One entry of the host: killed where it was made, then forgotten unless
\* another start has replaced it.  A failing kill refuses the edit.
RetireHostBridges(o) ==
  LET h == bop[o].host
  IN /\ OpAt(o, "retire")
     /\ \E s \in Slugs:
          /\ reg[s] # NoEntry /\ reg[s].host = h
          /\ \/ /\ IF reg[s].dest = hostDest[h]
                   THEN /\ chrome' = Stopped(Place(reg[s]))
                        /\ bEffect' = KillFor(reg[s])
                   ELSE UNCHANGED <<chrome, bEffect>>
                /\ bop' = [bop EXCEPT ![o].pc = "forget",
                                      ![o].entry = reg[s]]
                /\ UNCHANGED lifeLease
             \/ OpEnds(o) /\ UNCHANGED <<chrome, bEffect>>
     /\ UNCHANGED <<hostDest, reg, fwd, bCount>>

RetireForgets(o) ==
  /\ OpAt(o, "forget")
  /\ reg' = Forget(bop[o].entry)
  /\ OpGoes(o, "retire")
  /\ UNCHANGED <<hostDest, chrome, lifeLease, fwd, bCount, bEffect>>

\* The masters are closed, then the row is written: new credentials, a new
\* destination, or no row.
HostEditCommits(o) ==
  LET h == bop[o].host
  IN /\ OpAt(o, "retire")
     /\ \A s \in Slugs: reg[s] # NoEntry => reg[s].host # h
     /\ fwd' = [n \in MacPorts |-> IF fwd[n] # NoFwd /\ fwd[n].host = h
                                   THEN NoFwd ELSE fwd[n]]
     /\ \E d \in {0, hostDest[h], hostDest[h] + 1}:
          d <= MaxDest /\ hostDest' = [hostDest EXCEPT ![h] = d]
     /\ OpEnds(o)
     /\ UNCHANGED <<chrome, reg, bCount, bEffect>>

StartSteps(o) ==
  \/ \E h \in BHosts, s \in Slugs: StartBegins(o, h, s)
  \/ LaunchHostBrowser(o) \/ AwaitCdpPort(o) \/ EnsureForwardTunnel(o)
  \/ RegisterBridge(o)

EntrySteps(o) ==
  \/ \E kind \in {"status", "stop", "connect"}, s \in Slugs: LookUp(o, kind, s)
  \/ ResolveBridge(o) \/ StopKills(o) \/ ConnectPageCdp(o)

EditSteps(o) ==
  \/ \E h \in BHosts: HostEditBegins(o, h)
  \/ RetireHostBridges(o) \/ RetireForgets(o) \/ HostEditCommits(o)

BrowserNext ==
  \/ \E o \in BOps: StartSteps(o) \/ EntrySteps(o) \/ EditSteps(o)
  \/ \E p \in Places: PaneClears(p) \/ ChromeServes(p) \/ ChromeDies(p)
  \/ \E h \in BHosts: MasterDrops(h)

BrowserSpec == BrowserInit /\ [][BrowserNext]_browserVars

-----------------------------------------------------------------------------
(* Properties                                                              *)

\* The variables stay within their types.
BrowserTypeOK ==
  /\ hostDest \in [BHosts -> 0..MaxDest]
  /\ \A p \in Places: chrome[p].boot \in {"off", "shell", "exec", "up"}
  /\ \A h \in BHosts: lifeLease[h] \in BOps \cup {"free"}
  /\ \A s \in Slugs: reg[s] # NoEntry => reg[s].mac \in MacPorts

\* A stop or a host edit that waited for the lease never kills the browser of
\* an entry registered since: same target name, another lifecycle
\* (host_browser.rs:619).
KillSparesReplacement == bEffect.kind = "kill" => ~bEffect.newer

-----------------------------------------------------------------------------
(* Statements the code does not keep: TLC refutes each of them, see the    *)
(* README, "What does not hold".                                           *)

\* "a closed forward's Mac port could be reused and a stale bridge could drive
\* the wrong browser" (host_browser.rs:732): a page is only ever driven on the
\* machine the entry was made for.
DrivesOwnBrowser ==
  bEffect.kind = "connect" => bEffect.at = Place(bEffect.entry)

\* The launch clears the old port file "so the await loop can't read a dead
\* port" (host_browser.rs:133).
PortIsLive ==
  \A o \in BOps:
    OpAt(o, "tunnel")
      => chrome[Place(bop[o].entry)].boot \notin {"shell", "exec"}
=============================================================================
