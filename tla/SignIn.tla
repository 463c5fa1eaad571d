------------------------------- MODULE SignIn -------------------------------
(***************************************************************************)
(* How a terminal UI gets onto a daemon: the certificate it pins (tls.rs,  *)
(* trust.rs, establish_trust), the token it caches (obtain_token), and the *)
(* daemon's side of it (routes/auth.rs, auth.rs, ratelimit.rs, the users   *)
(* and auth_sessions tables).  Handlers interleave at their awaits; time   *)
(* is a clock that ticks between any two steps.                            *)
(***************************************************************************)
EXTENDS Integers, Sequences, FiniteSets

CONSTANTS Peers,       \* machines a terminal UI runs on (loopback included)
          Capacity,    \* attempts the limiter lets through ...
          Window,      \* ... in a window of this many ticks
          Ttl,         \* lifetime of a token
          MaxClock,    \* bound on ticks
          MaxTokens,   \* bound on tokens minted
          MaxDrops     \* bound on failing connections and daemon crashes

ASSUME LimiterAssumption == Capacity \in Nat \ {0} /\ Window \in Nat \ {0}
ASSUME TokenAssumption == Ttl \in Nat /\ MaxTokens \in Nat

VARIABLES clock,
          accounts,    \* rows of users
          tokens,      \* token -> its row
          minted,      \* tokens made so far
          hits,        \* peer -> what the limiter remembers
          granted,     \* peer -> times of every attempt it let through
          dropped,     \* tokens logged out or expired and deleted
          certFile, keyFile, \* generations of the two files, 0 for none
          gen,         \* certificates generated so far
          boot,        \* how far the daemon's boot is
          pins,        \* peer -> generation it pinned, 0 for none
          creds,       \* peer -> cached token, 0 for none
          visit,        \* peer -> where its sign-in is
          drops

signVars == <<clock, accounts, tokens, minted, hits, granted, dropped,
              certFile, keyFile, gen, boot, pins, creds, visit, drops>>

Usernames == {"local", "ana"}
TokenIds == 1 .. MaxTokens
Gone == [user |-> "none", exp |-> 0, live |-> FALSE]
Away == [pc |-> "off", token |-> 0, name |-> "none", tries |-> 0,
         now |-> 0, asked |-> FALSE]

SignInit ==
  /\ clock = 0
  /\ accounts = {}
  /\ tokens = [t \in TokenIds |-> Gone]
  /\ minted = 0
  /\ hits = [p \in Peers |-> <<>>]
  /\ granted = [p \in Peers |-> <<>>]
  /\ dropped = {}
  /\ certFile = 0 /\ keyFile = 0 /\ gen = 0 /\ boot = "check"
  /\ pins = [p \in Peers |-> 0]
  /\ creds = [p \in Peers |-> 0]
  /\ visit = [p \in Peers |-> Away]
  /\ drops = 0

Tick ==
  /\ clock < MaxClock
  /\ clock' = clock + 1
  /\ UNCHANGED <<accounts, tokens, minted, hits, granted, dropped, certFile,
                 keyFile, gen, boot, pins, creds, visit, drops>>

-----------------------------------------------------------------------------
(* The daemon boots: the certificate and key are generated when either     *)
(* file is missing, the certificate written first.                         *)
MissingArtifact == certFile = 0 \/ keyFile = 0

EnsureArtifacts ==
  /\ boot = "check"
  /\ IF MissingArtifact
     THEN gen' = gen + 1 /\ certFile' = gen' /\ boot' = "key"
     ELSE boot' = "up" /\ UNCHANGED <<gen, certFile>>
  /\ UNCHANGED <<clock, accounts, tokens, minted, hits, granted, dropped,
                 keyFile, pins, creds, visit, drops>>

WriteKey ==
  /\ boot = "key"
  /\ keyFile' = gen
  /\ boot' = "up"
  /\ UNCHANGED <<clock, accounts, tokens, minted, hits, granted, dropped,
                 certFile, gen, pins, creds, visit, drops>>

(* A crash forgets the limiter's memory and every request under way.       *)
DaemonCrashes ==
  /\ drops < MaxDrops
  /\ drops' = drops + 1
  /\ boot' = "check"
  /\ hits' = [p \in Peers |-> <<>>]
  /\ granted' = [p \in Peers |-> <<>>]
  /\ visit' = [p \in Peers |-> Away]
  /\ UNCHANGED <<clock, accounts, tokens, minted, dropped, certFile, keyFile,
                 gen, pins, creds>>

-----------------------------------------------------------------------------
(* The limiter: the hits in front that are older than the window are       *)
(* forgotten, and an attempt is let through and remembered while there is  *)
(* room.                                                                   *)
FirstRecent(q) ==
  CHOOSE i \in 1 .. Len(q) + 1 :
    /\ i <= Len(q) => clock - q[i] < Window
    /\ \A j \in 1 .. i - 1 : clock - q[j] >= Window

Recent(q) == SubSeq(q, FirstRecent(q), Len(q))

(* Fault: the attempt that is being made is not counted.                   *)
AllowedOneMore(p) == Len(Recent(hits[p])) <= Capacity

Allowed(p) == Len(Recent(hits[p])) < Capacity

CheckLimit(p) ==
  IF Allowed(p)
  THEN /\ hits' = [hits EXCEPT ![p] = Append(Recent(@), clock)]
       /\ granted' = [granted EXCEPT ![p] = Append(@, clock)]
  ELSE /\ hits' = [hits EXCEPT ![p] = Recent(@)]
       /\ UNCHANGED granted

daemonVars == <<certFile, keyFile, gen, boot>>
SignStep(p, pc) == visit' = [visit EXCEPT ![p].pc = pc]

(* establish_trust: the pinned certificate, or the one the user confirms   *)
(* on first contact; any other is refused.                                 *)
EstablishTrust(p) ==
  /\ visit[p].pc = "off" /\ boot = "up"
  /\ \/ pins[p] = certFile /\ UNCHANGED pins /\ SignStep(p, "auth")
     \/ pins[p] = 0 /\ pins' = [pins EXCEPT ![p] = certFile] /\ SignStep(p, "auth")
  /\ UNCHANGED <<clock, accounts, tokens, minted, hits, granted, dropped,
                 daemonVars, creds, drops>>

(* obtain_token: a cached token is probed with /api/auth/me; any failure   *)
(* of the probe drops it.                                                  *)
CachedToken(p) ==
  /\ visit[p].pc = "auth"
  /\ visit' = [visit EXCEPT ![p].pc = IF creds[p] = 0 THEN "setup" ELSE "touch",
                          ![p].token = creds[p]]
  /\ UNCHANGED <<clock, accounts, tokens, minted, hits, granted, dropped,
                 daemonVars, pins, creds, drops>>

(* touch_auth_session: read the row, delete it when it has expired, else   *)
(* slide its expiry from the time read; an update of a row deleted in the  *)
(* meantime changes nothing.                                               *)
TouchReads(p) ==
  LET t == visit[p].token IN
  /\ visit[p].pc = "touch"
  /\ CASE ~tokens[t].live ->
            SignStep(p, "stale") /\ UNCHANGED <<tokens, dropped>>
       [] tokens[t].live /\ tokens[t].exp <= clock ->
            /\ tokens' = [tokens EXCEPT ![t].live = FALSE]
            /\ dropped' = dropped \cup {t}
            /\ SignStep(p, "stale")
       [] OTHER ->
            /\ visit' = [visit EXCEPT ![p].pc = "slide", ![p].now = clock]
            /\ UNCHANGED <<tokens, dropped>>
  /\ UNCHANGED <<clock, accounts, minted, hits, granted, daemonVars, pins,
                 creds, drops>>

TouchWrites(p) ==
  LET t == visit[p].token IN
  /\ visit[p].pc = "slide"
  /\ tokens' = [tokens EXCEPT
                ![t].exp = IF tokens[t].live THEN visit[p].now + Ttl ELSE @]
  /\ SignStep(p, "in")
  /\ UNCHANGED <<clock, accounts, minted, hits, granted, dropped, daemonVars,
                 pins, creds, drops>>

PortProbeFails(p) ==
  /\ visit[p].pc \in {"touch", "slide"}
  /\ drops < MaxDrops
  /\ drops' = drops + 1
  /\ SignStep(p, "stale")
  /\ UNCHANGED <<clock, accounts, tokens, minted, hits, granted, dropped,
                 daemonVars, pins, creds>>

DropCached(p) ==
  /\ visit[p].pc = "stale"
  /\ creds' = [creds EXCEPT ![p] = 0]
  /\ SignStep(p, "setup")
  /\ UNCHANGED <<clock, accounts, tokens, minted, hits, granted, dropped,
                 daemonVars, pins, drops>>

(* A daemon without accounts on the loopback: register "local" with a      *)
(* random password; otherwise ask the user, three times at most.           *)
AskSetup(p) ==
  /\ visit[p].pc = "setup"
  /\ SignStep(p, IF accounts = {} THEN "register" ELSE "prompt")
  /\ UNCHANGED <<clock, accounts, tokens, minted, hits, granted, dropped,
                 daemonVars, pins, creds, drops>>

Register(p) ==
  /\ visit[p].pc = "register"
  /\ CheckLimit(p)
  /\ visit' = [visit EXCEPT ![p].pc = IF Allowed(p) /\ accounts = {}
                                    THEN "hash" ELSE "prompt",
                          ![p].name = "local"]
  /\ UNCHANGED <<clock, accounts, tokens, minted, dropped, daemonVars, pins,
                 creds, drops>>

CreateUser(p) ==
  /\ visit[p].pc = "hash"
  /\ IF visit[p].name \in accounts
     THEN SignStep(p, "prompt") /\ UNCHANGED accounts
     ELSE SignStep(p, "mint") /\ accounts' = accounts \cup {visit[p].name}
  /\ UNCHANGED <<clock, tokens, minted, hits, granted, dropped, daemonVars,
                 pins, creds, drops>>

CreateAuthSession(p) ==
  /\ visit[p].pc = "mint" /\ minted < MaxTokens
  /\ minted' = minted + 1
  /\ tokens' = [tokens EXCEPT ![minted'] = [user |-> visit[p].name,
                                            exp |-> clock + Ttl,
                                            live |-> TRUE]]
  /\ visit' = [visit EXCEPT ![p].pc = "save", ![p].token = minted']
  /\ UNCHANGED <<clock, accounts, hits, granted, dropped, daemonVars, pins,
                 creds, drops>>

PutToken(p) ==
  /\ visit[p].pc = "save"
  /\ creds' = [creds EXCEPT ![p] = visit[p].token]
  /\ SignStep(p, "in")
  /\ UNCHANGED <<clock, accounts, tokens, minted, hits, granted, dropped,
                 daemonVars, pins, drops>>

Prompt(p) ==
  /\ visit[p].pc = "prompt"
  /\ IF visit[p].tries = 3 THEN visit' = [visit EXCEPT ![p] = Away]
     ELSE \E name \in {"ana", "none"} :
            visit' = [visit EXCEPT ![p].pc = "login", ![p].tries = @ + 1,
                                 ![p].name = name, ![p].asked = TRUE]
  /\ UNCHANGED <<clock, accounts, tokens, minted, hits, granted, dropped,
                 daemonVars, pins, creds, drops>>

Login(p) ==
  /\ visit[p].pc = "login"
  /\ CheckLimit(p)
  /\ SignStep(p, IF Allowed(p) /\ visit[p].name \in accounts THEN "mint"
             ELSE "prompt")
  /\ UNCHANGED <<clock, accounts, tokens, minted, dropped, daemonVars, pins,
                 creds, drops>>

(* Somebody registers with a password of their own from the dashboard.     *)
OtherRegisters ==
  /\ boot = "up" /\ accounts = {}
  /\ accounts' = {"ana"}
  /\ UNCHANGED <<clock, tokens, minted, hits, granted, dropped, daemonVars,
                 pins, creds, visit, drops>>

(* Once in, every request touches the token again; the terminal may close, *)
(* and the user may log out while a request is under way.                  *)
UseToken(p) ==
  /\ visit[p].pc = "in"
  /\ \/ SignStep(p, "touch")
     \/ visit' = [visit EXCEPT ![p] = Away]
  /\ UNCHANGED <<clock, accounts, tokens, minted, hits, granted, dropped,
                 daemonVars, pins, creds, drops>>

Logout(p) ==
  LET t == visit[p].token IN
  /\ visit[p].pc \in {"in", "touch", "slide"} /\ tokens[t].live
  /\ tokens' = [tokens EXCEPT ![t].live = FALSE]
  /\ dropped' = dropped \cup {t}
  /\ UNCHANGED <<clock, accounts, minted, hits, granted, daemonVars, pins,
                 creds, visit, drops>>

SweepExpired ==
  LET old == {t \in TokenIds : tokens[t].live /\ tokens[t].exp <= clock} IN
  /\ boot = "up" /\ old # {}
  /\ tokens' = [t \in TokenIds |-> IF t \in old
                                   THEN [tokens[t] EXCEPT !.live = FALSE]
                                   ELSE tokens[t]]
  /\ dropped' = dropped \cup old
  /\ UNCHANGED <<clock, accounts, minted, hits, granted, daemonVars, pins,
                 creds, visit, drops>>

-----------------------------------------------------------------------------
SignNext ==
  \/ Tick \/ EnsureArtifacts \/ WriteKey \/ DaemonCrashes \/ OtherRegisters
  \/ SweepExpired
  \/ \E p \in Peers :
       \/ EstablishTrust(p) \/ CachedToken(p) \/ TouchReads(p)
       \/ TouchWrites(p) \/ PortProbeFails(p) \/ DropCached(p) \/ AskSetup(p)
       \/ Register(p) \/ CreateUser(p) \/ CreateAuthSession(p) \/ PutToken(p)
       \/ Prompt(p) \/ Login(p) \/ UseToken(p) \/ Logout(p)

SignSpec == SignInit /\ [][SignNext]_signVars

\* The variables stay within their types.
SignTypeOK ==
  /\ accounts \subseteq Usernames
  /\ \A t \in TokenIds : tokens[t].live => tokens[t].user \in accounts
  /\ dropped \subseteq TokenIds
  /\ boot \in {"check", "key", "up"}
  /\ \A p \in Peers :
       /\ creds[p] \in 0 .. minted /\ pins[p] \in 0 .. gen
       /\ visit[p].pc \in {"off", "auth", "touch", "slide", "stale", "setup",
                          "register", "hash", "mint", "save", "prompt",
                          "login", "in"}

(* A token that was logged out or swept never works again, even when a     *)
(* request slides its expiry at the same time (touch_auth_session).        *)
DeadTokenStaysDead == \A t \in dropped : ~tokens[t].live

(* No peer gets more than Capacity attempts into any span shorter than     *)
(* Window, wherever the span starts (RateLimiter::check).                  *)
LimiterHolds ==
  \A p \in Peers : \A i, j \in DOMAIN granted[p] :
    j >= i + Capacity => granted[p][j] - granted[p][i] >= Window

(* Once a terminal has pinned the daemon's certificate, no later boot,     *)
(* crash or not, serves another one or one without its key                 *)
(* (ensure_artifacts, establish_trust).                                    *)
PinsStayValid ==
  boot = "up" => /\ certFile = keyFile
                 /\ \A p \in Peers : pins[p] \in {0, certFile}

-----------------------------------------------------------------------------
(* Statements the code does not keep: TLC refutes each of them, see the    *)
(* README, "What does not hold".                                           *)

(* "the user just runs `agentum` and lands in the TUI without ever seeing  *)
(* a login screen" (terminal/mod.rs:350): nobody is asked for the password *)
(* of an account that was made with a random one.                          *)
NeverAskedForRandom ==
  \A p \in Peers : visit[p].asked => accounts # {"local"}
=============================================================================
