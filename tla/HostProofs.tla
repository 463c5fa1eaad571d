----------------------------- MODULE HostProofs ------------------------------
(***************************************************************************)
(* Those who start something or want to get in: daemons that take the      *)
(* runtime lease, visitors that sign in, requests for host browsers and    *)
(* for the shared local browser, openers of the database.  Each component  *)
(* has an inductive invariant of its own; a behaviour of MCHosts moves one *)
(* component and leaves the others alone, so it keeps all of them.  Then   *)
(* what a launch puts down for its agent: the private file of a Claude     *)
(* session, the environment file and the pane of a script on a host, the   *)
(* password file of an ssh command.                                        *)
(***************************************************************************)
EXTENDS MCHosts, SequenceTheorems, WellFoundedInduction, FiniteSetTheorems, TLAPS

\* The least index with a property.
LEMMA LeastIndex ==
  ASSUME NEW S \in SUBSET Nat, S # {}
  PROVE  \E i \in S : \A j \in S : i <= j
<1> DEFINE R == {ss \in Nat \X Nat : ss[1] < ss[2]}
<1>1. IsWellFoundedOn(R, Nat)
  BY Zenon, NatLessThanWellFounded DEF OpToRel
<1>2. \A i, j \in Nat : i < j => <<i, j>> \in R
  OBVIOUS
<1> HIDE DEF R
<1>3. PICK i \in S : \A j \in S : ~(<<j, i>> \in R)
  BY <1>1, WFMin
<1>4. ASSUME NEW j \in S
      PROVE  i <= j
  <2>1. i \in Nat /\ j \in Nat /\ ~(<<j, i>> \in R)
    BY <1>3
  <2>2. ~(j < i)
    BY <1>2, <2>1
  <2> QED
    BY <2>1, <2>2
<1> QED
  BY <1>4

------------------------------------------------------------------------------
\* The runtime lease (server lib.rs)

LeasePCs == {"idle", "again", "inspect", "write", "stale", "holds", "refused",
             "ended"}

LeaseTypes ==
  /\ lockDir \in [exists: BOOLEAN, owner: Procs \cup {NoOwner}, fresh: BOOLEAN]
  /\ proc \in [Procs -> [pc: LeasePCs, left: 0..Attempts]]
  /\ \A p \in Procs: proc[p].pc \in {"inspect", "stale"} => proc[p].left # 0
  /\ stalled \in BOOLEAN

\* Nobody was killed and nobody was slow: a directory without an owner is
\* young and belongs to the one process that is about to write its name.
CleanInv ==
  died = {} /\ ~stalled =>
    /\ lockDir.exists /\ lockDir.owner = NoOwner => lockDir.fresh
    /\ \A p \in Procs:
         /\ proc[p].pc # "stale"
         /\ proc[p].pc = "write" => lockDir.exists /\ lockDir.owner = NoOwner
         /\ proc[p].pc = "holds" => lockDir.exists /\ lockDir.owner = p
    /\ \A p, q \in Procs: proc[p].pc = "write" /\ proc[q].pc = "write" => p = q

\* A step to pc moves one process there and keeps the tries it has left.
LEMMA LeaseStepMoves ==
  ASSUME LeaseTypes, NEW p \in Procs, NEW at \in LeasePCs, Step(p, at)
  PROVE  /\ proc' \in [Procs -> [pc: LeasePCs, left: 0..Attempts]]
         /\ \A q \in Procs: /\ proc'[q].left = proc[q].left
                            /\ proc'[q].pc = IF q = p THEN at ELSE proc[q].pc
  BY DEF Step, LeaseTypes

\* The invariant of the lease is inductive.
LEMMA LeaseSteps ==
  ASSUME LeaseTypes, CleanInv, LeaseNext
  PROVE  LeaseTypes' /\ CleanInv'
<1> USE DEF LeasePCs
<1>1. ASSUME NEW p \in Procs, CreateDir(p)
      PROVE  LeaseTypes' /\ CleanInv'
  <2>1. CASE proc[p].left = 0
    <3>1. Step(p, "refused") /\ UNCHANGED <<lockDir, died, stalled>>
      BY <1>1, <2>1 DEF CreateDir
    <3>2. LeaseTypes'
      BY <3>1, LeaseStepMoves DEF LeaseTypes
    <3>3. CleanInv'
      BY <3>1, LeaseStepMoves DEF CleanInv
    <3> QED
      BY <3>2, <3>3
  <2>2. CASE proc[p].left # 0 /\ lockDir.exists
    <3>1. Step(p, "inspect") /\ UNCHANGED <<lockDir, died, stalled>>
      BY <1>1, <2>2 DEF CreateDir
    <3>2. LeaseTypes'
      BY <2>2, <3>1, LeaseStepMoves DEF LeaseTypes
    <3>3. CleanInv'
      BY <3>1, LeaseStepMoves DEF CleanInv
    <3> QED
      BY <3>2, <3>3
  <2>3. CASE proc[p].left # 0 /\ ~lockDir.exists
    <3>1. /\ lockDir' = [exists |-> TRUE, owner |-> NoOwner, fresh |-> TRUE]
          /\ Step(p, "write") /\ UNCHANGED <<died, stalled>>
      BY <1>1, <2>3 DEF CreateDir
    <3>2. LeaseTypes'
      BY <3>1, LeaseStepMoves DEF LeaseTypes
    <3>3. CleanInv'
      BY <2>3, <3>1, LeaseStepMoves DEF CleanInv
    <3> QED
      BY <3>2, <3>3
  <2> QED
    BY <2>1, <2>2, <2>3
<1>2. ASSUME NEW p \in Procs, WriteOwner(p)
      PROVE  LeaseTypes' /\ CleanInv'
  <2>1. CASE lockDir.exists /\ lockDir.owner = NoOwner
    <3>1. /\ lockDir' = [lockDir EXCEPT !.owner = p] /\ Step(p, "holds")
          /\ UNCHANGED <<died, stalled>> /\ proc[p].pc = "write"
      BY <1>2, <2>1 DEF WriteOwner
    <3>2. /\ lockDir'.exists = lockDir.exists /\ lockDir'.owner = p
          /\ lockDir' \in [exists: BOOLEAN, owner: Procs \cup {NoOwner}, fresh: BOOLEAN]
      BY <3>1 DEF LeaseTypes
    <3>3. LeaseTypes'
      BY <3>1, <3>2, LeaseStepMoves DEF LeaseTypes
    <3>4. CleanInv'
      BY <2>1, <3>1, <3>2, LeaseStepMoves, OwnerAssumption DEF CleanInv
    <3> QED
      BY <3>3, <3>4
  <2>2. CASE ~(lockDir.exists /\ lockDir.owner = NoOwner)
    <3>1. lockDir' = Absent /\ Step(p, "refused") /\ UNCHANGED <<died, stalled>>
      BY <1>2, <2>2 DEF WriteOwner
    <3>2. LeaseTypes'
      BY <3>1, LeaseStepMoves DEF LeaseTypes, Absent, NoOwner
    <3>3. CleanInv'
      BY <1>2, <2>2, <3>1 DEF CleanInv, WriteOwner
    <3> QED
      BY <3>2, <3>3
  <2> QED
    BY <2>1, <2>2
<1>3. ASSUME NEW p \in Procs, Inspect(p)
      PROVE  LeaseTypes' /\ CleanInv'
  <2>1. UNCHANGED <<lockDir, died, stalled>> /\ proc[p].pc = "inspect"
    BY <1>3 DEF Inspect
  <2>2. CASE Step(p, "refused")
    <3>1. LeaseTypes'
      BY <2>1, <2>2, LeaseStepMoves DEF LeaseTypes
    <3>2. CleanInv'
      BY <2>1, <2>2, LeaseStepMoves DEF CleanInv
    <3> QED
      BY <3>1, <3>2
  <2>3. CASE /\ Step(p, "stale")
             /\ lockDir.exists /\ ~(lockDir.owner = NoOwner /\ lockDir.fresh)
             /\ lockDir.owner = NoOwner \/ lockDir.owner \in died
    <3>1. LeaseTypes'
      BY <2>1, <2>3, LeaseStepMoves DEF LeaseTypes
    <3>2. CleanInv'
      BY <2>1, <2>3 DEF CleanInv
    <3> QED
      BY <3>1, <3>2
  <2> QED
    BY <1>3, <2>2, <2>3 DEF Inspect
<1>4. ASSUME NEW p \in Procs, MoveAside(p)
      PROVE  LeaseTypes' /\ CleanInv'
  <2>1. /\ lockDir' = Absent /\ UNCHANGED <<died, stalled>> /\ proc[p].pc = "stale"
        /\ proc' = [proc EXCEPT ![p] = [pc |-> "again", left |-> proc[p].left - 1]]
    BY <1>4 DEF MoveAside, LeaseTypes
  <2>2. proc[p].left - 1 \in 0..Attempts
    BY <2>1, LeaseAssumption DEF LeaseTypes
  <2>3. LeaseTypes'
    BY <2>1, <2>2 DEF LeaseTypes, Absent, NoOwner
  <2>4. CleanInv'
    BY <2>1 DEF CleanInv
  <2> QED
    BY <2>3, <2>4
<1>5. ASSUME NEW p \in Procs, ReleaseLease(p)
      PROVE  LeaseTypes' /\ CleanInv'
  <2>1. /\ proc[p].pc = "holds" /\ Step(p, "ended") /\ UNCHANGED <<died, stalled>>
        /\ lockDir' = IF lockDir.exists /\ lockDir.owner = p THEN Absent ELSE lockDir
    BY <1>5 DEF ReleaseLease
  <2>2. LeaseTypes'
    BY <2>1, LeaseStepMoves DEF LeaseTypes, Absent, NoOwner
  <2>3. CleanInv'
    BY <2>1, LeaseStepMoves, OwnerAssumption DEF CleanInv, Absent
  <2> QED
    BY <2>2, <2>3
<1>6. ASSUME NEW p \in Procs, Killed(p)
      PROVE  LeaseTypes' /\ CleanInv'
  <2>1. Step(p, "ended") /\ died' # {} /\ UNCHANGED <<lockDir, stalled>>
    BY <1>6 DEF Killed
  <2>2. /\ proc' \in [Procs -> [pc: LeasePCs, left: 0..Attempts]]
        /\ \A q \in Procs: /\ proc'[q].left = proc[q].left
                           /\ proc'[q].pc = IF q = p THEN "ended" ELSE proc[q].pc
    BY <2>1, LeaseStepMoves
  <2>3. LeaseTypes'
    BY <2>1, <2>2 DEF LeaseTypes
  <2> QED
    BY <2>1, <2>3 DEF CleanInv
<1>7. CASE DirAges
  <2>1. /\ lockDir' = [lockDir EXCEPT !.fresh = FALSE] /\ UNCHANGED <<proc, died>>
        /\ stalled' = (stalled \/ lockDir.owner = NoOwner)
    BY <1>7 DEF DirAges
  <2>2. LeaseTypes'
    BY <2>1 DEF LeaseTypes
  <2>3. CleanInv'
    BY <2>1 DEF CleanInv, LeaseTypes
  <2> QED
    BY <2>2, <2>3
<1> QED
  BY <1>1, <1>2, <1>3, <1>4, <1>5, <1>6, <1>7 DEF LeaseNext

\* It holds at the start.
LEMMA LeaseStarts == LeaseInit => LeaseTypes /\ CleanInv
<1> SUFFICES ASSUME LeaseInit
             PROVE  LeaseTypes /\ CleanInv
  OBVIOUS
<1>1. Attempts \in 0..Attempts
  BY LeaseAssumption
<1>2. \A p \in Procs: proc[p].pc = "idle"
  BY DEF LeaseInit
<1>3. LeaseTypes
  BY <1>1, <1>2 DEF LeaseInit, LeaseTypes, LeasePCs, Absent, NoOwner
<1>4. CleanInv
  BY <1>2 DEF LeaseInit, CleanInv, Absent
<1> QED
  BY <1>3, <1>4

\* It gives the properties the hosts run checks.
LEMMA LeaseMeans ==
  LeaseTypes /\ CleanInv => LeaseTypeOK /\ CleanLeaseIsExclusive
  BY DEF LeaseTypes, CleanInv, LeasePCs, LeaseTypeOK, CleanLeaseIsExclusive, Holders

------------------------------------------------------------------------------
\* Signing in (auth.rs, ratelimit.rs, tls.rs)

VisitPCs == {"off", "auth", "touch", "slide", "stale", "setup", "register",
             "hash", "mint", "save", "prompt", "login", "in"}
NamesSeen == Usernames \cup {"none"}
TokenRows == [user: NamesSeen, exp: Int, live: BOOLEAN]
Visits == [pc: VisitPCs, token: 0..MaxTokens, name: NamesSeen, tries: Int,
           now: Int, asked: BOOLEAN]

SignTypes ==
  /\ clock \in Nat /\ minted \in 0..MaxTokens
  /\ accounts \subseteq Usernames
  /\ tokens \in [TokenIds -> TokenRows]
  /\ dropped \subseteq TokenIds
  /\ creds \in [Peers -> 0..MaxTokens]
  /\ visit \in [Peers -> Visits]

\* A step to pc moves one visit there and keeps its token and name.
LEMMA VisitMoves ==
  ASSUME visit \in [Peers -> Visits], NEW p \in Peers, NEW at \in VisitPCs,
         SignStep(p, at)
  PROVE  /\ visit' \in [Peers -> Visits]
         /\ \A q \in Peers : /\ visit'[q].token = visit[q].token
                             /\ visit'[q].name = visit[q].name
                             /\ visit'[q].pc = IF q = p THEN at ELSE visit[q].pc
  BY DEF SignStep, Visits

\* Where the limiter stops forgetting: every hit before that index is too old.
LEMMA FirstRecentIs ==
  ASSUME clock \in Nat, NEW q \in Seq(Nat)
  PROVE  /\ FirstRecent(q) \in 1 .. Len(q) + 1
         /\ \A j \in 1 .. FirstRecent(q) - 1 : clock - q[j] >= Window
<1> DEFINE S == {i \in 1 .. Len(q) + 1 : i <= Len(q) => clock - q[i] < Window}
<1>1. S \in SUBSET Nat /\ Len(q) + 1 \in S
  OBVIOUS
<1>2. PICK i \in S : \A j \in S : i <= j
  BY <1>1, LeastIndex
<1>3. \A j \in 1 .. i - 1 : clock - q[j] >= Window
  <2> SUFFICES ASSUME NEW j \in 1 .. i - 1
               PROVE  clock - q[j] >= Window
    OBVIOUS
  <2>1. j \in 1 .. Len(q) /\ j \notin S
    BY <1>2
  <2> QED
    BY <2>1, LimiterAssumption
<1>4. \E k \in 1 .. Len(q) + 1 :
        /\ k <= Len(q) => clock - q[k] < Window
        /\ \A j \in 1 .. k - 1 : clock - q[j] >= Window
  BY <1>2, <1>3
<1> QED
  BY <1>4 DEF FirstRecent

\* What the limiter remembers of one peer, and what it let through.
Remembers(h, g) ==
  /\ h \in Seq(Nat) /\ g \in Seq(Nat)
  /\ Len(h) <= Capacity
  /\ \A i, j \in 1 .. Len(g) : i <= j => g[i] <= g[j]
  /\ \A i \in 1 .. Len(g) : g[i] <= clock
  /\ \E k \in Nat :
       /\ Len(g) = k + Len(h)
       /\ \A i \in 1 .. Len(h) : h[i] = g[k + i]
       /\ \A i \in 1 .. k : clock - g[i] >= Window
  /\ \A i, j \in 1 .. Len(g) : j >= i + Capacity => g[j] - g[i] >= Window

\* Forgetting the hits outside the window loses none that counts.
LEMMA ForgetsOld ==
  ASSUME clock \in Nat, NEW h, NEW g, Remembers(h, g)
  PROVE  Remembers(Recent(h), g)
<1> DEFINE f == FirstRecent(h)
           r == Recent(h)
<1>1. h \in Seq(Nat) /\ g \in Seq(Nat) /\ Len(h) \in Nat /\ Len(g) \in Nat
  BY DEF Remembers
<1>2. f \in 1 .. Len(h) + 1 /\ \A j \in 1 .. f - 1 : clock - h[j] >= Window
  BY <1>1, FirstRecentIs
<1>3. /\ r \in Seq(Nat)
      /\ Len(r) = Len(h) - f + 1
      /\ \A i \in 1 .. Len(r) : r[i] = h[f + i - 1]
  <2> HIDE DEF f
  <2>1. r = SubSeq(h, f, Len(h))
    BY DEF Recent, f
  <2>2. \A i \in f .. Len(h) : h[i] \in Nat
    BY <1>1, <1>2
  <2> HIDE DEF r
  <2> QED
    BY <1>1, <1>2, <2>1, SubSeqProperties
<1> HIDE DEF f, r
<1>4. PICK k \in Nat :
        /\ Len(g) = k + Len(h)
        /\ \A i \in 1 .. Len(h) : h[i] = g[k + i]
        /\ \A i \in 1 .. k : clock - g[i] >= Window
  BY DEF Remembers
<1> DEFINE n == k + f - 1
<1>5. n \in Nat /\ Len(g) = n + Len(r)
  BY <1>1, <1>2, <1>3, <1>4
<1>6. ASSUME NEW i \in 1 .. Len(r)
      PROVE  r[i] = g[n + i]
  <2>1. f + i - 1 \in 1 .. Len(h)
    BY <1>1, <1>2, <1>3
  <2>2. r[i] = h[f + i - 1] /\ h[f + i - 1] = g[k + (f + i - 1)]
    BY <1>3, <1>4, <2>1
  <2>3. k + (f + i - 1) = n + i
    BY <1>1, <1>2
  <2> QED
    BY <2>2, <2>3
<1>7. ASSUME NEW i \in 1 .. n
      PROVE  clock - g[i] >= Window
  <2>1. CASE i <= k
    BY <1>4, <2>1
  <2>2. CASE i > k
    <3>1. i - k \in 1 .. Len(h) /\ i - k \in 1 .. f - 1
      BY <1>1, <1>2, <1>4, <2>2
    <3>2. h[i - k] = g[k + (i - k)] /\ clock - h[i - k] >= Window
      BY <1>2, <1>4, <3>1
    <3>3. k + (i - k) = i
      BY <1>4
    <3> QED
      BY <3>2, <3>3
  <2> QED
    BY <1>4, <2>1, <2>2
<1>8. \E m \in Nat : /\ Len(g) = m + Len(r)
                     /\ \A i \in 1 .. Len(r) : r[i] = g[m + i]
                     /\ \A i \in 1 .. m : clock - g[i] >= Window
  BY <1>5, <1>6, <1>7
<1>9. Len(r) <= Capacity
  BY <1>1, <1>2, <1>3, LimiterAssumption DEF Remembers
<1> QED
  BY <1>1, <1>3, <1>8, <1>9 DEF Remembers, r

\* An attempt let through below the capacity keeps every window within it.
LEMMA LetsThrough ==
  ASSUME clock \in Nat, NEW h, NEW g, Remembers(h, g), Len(h) < Capacity
  PROVE  Remembers(Append(h, clock), Append(g, clock))
<1> DEFINE hh == Append(h, clock)
           gg == Append(g, clock)
<1>1. h \in Seq(Nat) /\ g \in Seq(Nat) /\ Len(h) \in Nat /\ Len(g) \in Nat
  BY DEF Remembers
<1>2. /\ hh \in Seq(Nat) /\ Len(hh) = Len(h) + 1 /\ hh[Len(h) + 1] = clock
      /\ \A i \in 1 .. Len(h) : hh[i] = h[i]
  BY <1>1
<1>3. /\ gg \in Seq(Nat) /\ Len(gg) = Len(g) + 1 /\ gg[Len(g) + 1] = clock
      /\ \A i \in 1 .. Len(g) : gg[i] = g[i]
  BY <1>1
<1> HIDE DEF hh, gg
<1>4. PICK k \in Nat :
        /\ Len(g) = k + Len(h)
        /\ \A i \in 1 .. Len(h) : h[i] = g[k + i]
        /\ \A i \in 1 .. k : clock - g[i] >= Window
  BY DEF Remembers
<1>5. Len(hh) <= Capacity
  BY <1>1, <1>2, LimiterAssumption
<1>6. \A i \in 1 .. Len(gg) : gg[i] <= clock /\ gg[i] \in Nat
  <2> SUFFICES ASSUME NEW i \in 1 .. Len(gg)
               PROVE  gg[i] <= clock /\ gg[i] \in Nat
    OBVIOUS
  <2>1. CASE i = Len(g) + 1
    BY <1>3, <2>1
  <2>2. CASE i # Len(g) + 1
    <3>1. i \in 1 .. Len(g) /\ g[i] \in Nat
      BY <1>1, <1>3, <2>2
    <3> QED
      BY <1>3, <3>1 DEF Remembers
  <2> QED
    BY <2>1, <2>2
<1>7. \A i, j \in 1 .. Len(gg) : i <= j => gg[i] <= gg[j]
  <2> SUFFICES ASSUME NEW i \in 1 .. Len(gg), NEW j \in 1 .. Len(gg), i <= j
               PROVE  gg[i] <= gg[j]
    OBVIOUS
  <2>1. CASE j = Len(g) + 1
    BY <1>3, <1>6, <2>1
  <2>2. CASE j # Len(g) + 1
    <3>1. i \in 1 .. Len(g) /\ j \in 1 .. Len(g)
      BY <1>1, <1>3, <2>2
    <3> QED
      BY <1>3, <3>1 DEF Remembers
  <2> QED
    BY <2>1, <2>2
<1>8. /\ Len(gg) = k + Len(hh)
      /\ \A i \in 1 .. k : clock - gg[i] >= Window
  BY <1>1, <1>2, <1>3, <1>4
<1>9. ASSUME NEW i \in 1 .. Len(hh)
      PROVE  hh[i] = gg[k + i]
  <2>1. CASE i = Len(h) + 1
    <3>1. k + i = Len(g) + 1
      BY <1>1, <1>4, <2>1
    <3> QED
      BY <1>2, <1>3, <2>1, <3>1
  <2>2. CASE i # Len(h) + 1
    <3>1. i \in 1 .. Len(h) /\ k + i \in 1 .. Len(g)
      BY <1>1, <1>2, <1>4, <2>2
    <3> QED
      BY <1>2, <1>3, <1>4, <3>1
  <2> QED
    BY <2>1, <2>2
<1>10. \A i, j \in 1 .. Len(gg) : j >= i + Capacity => gg[j] - gg[i] >= Window
  <2> SUFFICES ASSUME NEW i \in 1 .. Len(gg), NEW j \in 1 .. Len(gg),
                      j >= i + Capacity
               PROVE  gg[j] - gg[i] >= Window
    OBVIOUS
  <2>1. CASE j = Len(g) + 1
    <3>1. i \in 1 .. k
      BY <1>1, <1>4, <2>1, LimiterAssumption
    <3> QED
      BY <1>3, <1>8, <2>1, <3>1
  <2>2. CASE j # Len(g) + 1
    <3>1. j \in 1 .. Len(g)
      BY <1>1, <1>3, <2>2
    <3>2. i <= j
      <4>1. i \in Int /\ j \in Int /\ Capacity \in Nat
        BY LimiterAssumption
      <4> QED
        BY ONLY <4>1, j >= i + Capacity
    <3>3. i \in 1 .. Len(g)
      BY <1>1, <1>3, <3>1, <3>2
    <3> QED
      BY <1>3, <3>1, <3>3 DEF Remembers
  <2> QED
    BY <2>1, <2>2
<1> QED
  BY <1>2, <1>3, <1>5, <1>6, <1>7, <1>8, <1>9, <1>10 DEF Remembers, hh, gg

-----------------------------------------------------------------------------
\* A live token was minted for an account; a dead one was minted and is dead;
\* whoever holds or uses a token was given one.
TokensInv ==
  /\ \A t \in TokenIds : tokens[t].live => t <= minted /\ tokens[t].user \in accounts
  /\ \A t \in dropped : t <= minted /\ ~tokens[t].live
  /\ \A p \in Peers : creds[p] <= minted /\ visit[p].token <= minted
  /\ \A p \in Peers : visit[p].pc \in {"touch", "slide", "in", "save"} => visit[p].token # 0
  /\ \A p \in Peers : /\ visit[p].pc = "mint" => visit[p].name \in accounts
                      /\ visit[p].pc = "hash" => visit[p].name = "local"

VisitOk(v) ==
  /\ v \in Visits /\ v.token <= minted
  /\ v.pc \in {"touch", "slide", "in", "save"} => v.token # 0
  /\ v.pc = "mint" => v.name \in accounts
  /\ v.pc = "hash" => v.name = "local"

\* Steps that only move one visit.
LEMMA OnlyVisit ==
  ASSUME SignTypes, TokensInv, NEW p \in Peers, NEW v, VisitOk(v),
         visit' = [visit EXCEPT ![p] = v],
         UNCHANGED <<clock, accounts, tokens, minted, dropped, creds>>
  PROVE  SignTypes' /\ TokensInv'
<1>1. visit' \in [Peers -> Visits] /\ \A q \in Peers : visit'[q] = IF q = p THEN v ELSE visit[q]
  BY DEF SignTypes, VisitOk
<1>2. SignTypes'
  BY <1>1 DEF SignTypes
<1>3. TokensInv'
  BY <1>1 DEF TokensInv, VisitOk
<1> QED
  BY <1>2, <1>3

\* The record of a visit after a step.
LEMMA SignStepIs ==
  ASSUME SignTypes, NEW p \in Peers, NEW at, SignStep(p, at)
  PROVE  visit' = [visit EXCEPT ![p] = [visit[p] EXCEPT !.pc = at]]
  BY DEF SignTypes, SignStep

\* What a visit must bring to be at pc.
LEMMA VisitMay ==
  ASSUME SignTypes, TokensInv, NEW p \in Peers, NEW at \in VisitPCs,
         at \in {"touch", "slide", "in", "save"} => visit[p].token # 0,
         at = "mint" => visit[p].name \in accounts,
         at = "hash" => visit[p].name = "local"
  PROVE  VisitOk([visit[p] EXCEPT !.pc = at])
<1>1. visit[p] \in Visits /\ visit[p].token <= minted
  BY DEF SignTypes, TokensInv
<1> DEFINE v == [visit[p] EXCEPT !.pc = at]
<1>2. v \in Visits /\ v.pc = at /\ v.token = visit[p].token /\ v.name = visit[p].name
  BY <1>1 DEF Visits
<1> HIDE DEF v
<1>3. VisitOk(v)
  BY <1>1, <1>2 DEF VisitOk
<1> QED
  BY <1>3 DEF v

\* A step that only says how far a visit is.
LEMMA VisitGoes ==
  ASSUME SignTypes, TokensInv, NEW p \in Peers, NEW at \in VisitPCs,
         at \in {"touch", "slide", "in", "save"} => visit[p].token # 0,
         at = "mint" => visit[p].name \in accounts,
         at = "hash" => visit[p].name = "local",
         SignStep(p, at),
         UNCHANGED <<clock, accounts, tokens, minted, dropped, creds>>
  PROVE  SignTypes' /\ TokensInv'
  BY VisitMay, SignStepIs, OnlyVisit

\* At the start no token is live and nobody holds one.
LEMMA TokensInit == SignInit => SignTypes /\ TokensInv
  BY LimiterAssumption, TokenAssumption DEF SignInit, SignTypes, TokensInv, Away, Gone,
     Visits, VisitPCs, TokenRows, NamesSeen, Usernames, TokenIds

\* Every step keeps what is known of tokens: a live one was minted and its account
\* exists, a dropped one is dead, and who presents one was given it.
LEMMA TokenSteps ==
  ASSUME SignTypes, TokensInv, SignNext
  PROVE  SignTypes' /\ TokensInv'
<1>1. CASE Tick
  BY <1>1 DEF Tick, SignTypes, TokensInv
<1>2. CASE EnsureArtifacts
  BY <1>2 DEF EnsureArtifacts, SignTypes, TokensInv
<1>3. CASE WriteKey
  BY <1>3 DEF WriteKey, SignTypes, TokensInv
<1>4. CASE DaemonCrashes
  <2>1. \A p \in Peers : visit'[p] = Away /\ Away.token = 0 /\ Away.pc = "off"
    BY <1>4 DEF DaemonCrashes, Away
  <2>2. visit' \in [Peers -> Visits] /\ 0 <= minted
    BY <1>4, TokenAssumption DEF DaemonCrashes, Away, Visits, VisitPCs, NamesSeen, SignTypes
  <2> QED
    BY <1>4, <2>1, <2>2 DEF DaemonCrashes, SignTypes, TokensInv
<1>5. CASE OtherRegisters
  BY <1>5 DEF OtherRegisters, SignTypes, TokensInv, Usernames
<1>6. CASE SweepExpired
  <2> DEFINE old == {t \in TokenIds : tokens[t].live /\ tokens[t].exp <= clock}
  <2>1. /\ tokens' = [t \in TokenIds |->
                        IF t \in old THEN [tokens[t] EXCEPT !.live = FALSE] ELSE tokens[t]]
        /\ dropped' = dropped \cup old
    BY <1>6 DEF SweepExpired
  <2>2. tokens' \in [TokenIds -> TokenRows]
    BY <2>1 DEF SignTypes, TokenRows
  <2>3. \A t \in TokenIds : /\ tokens'[t].live => tokens[t].live /\ tokens'[t].user = tokens[t].user
                            /\ t \in old => ~tokens'[t].live /\ t <= minted
    BY <2>1 DEF SignTypes, TokensInv, TokenRows
  <2> HIDE DEF old
  <2>4. old \subseteq TokenIds
    BY DEF old
  <2> QED
    BY <1>6, <2>1, <2>2, <2>3, <2>4 DEF SweepExpired, SignTypes, TokensInv
<1>7. ASSUME NEW p \in Peers, EstablishTrust(p)
      PROVE  SignTypes' /\ TokensInv'
  <2>1. SignStep(p, "auth")
    BY <1>7 DEF EstablishTrust
  <2>2. UNCHANGED <<clock, accounts, tokens, minted, dropped, creds>>
    BY <1>7 DEF EstablishTrust
  <2> QED
    BY <2>1, <2>2, VisitGoes DEF VisitPCs
<1>8. ASSUME NEW p \in Peers, CachedToken(p)
      PROVE  SignTypes' /\ TokensInv'
  <2> DEFINE v == [visit[p] EXCEPT !.pc = IF creds[p] = 0 THEN "setup" ELSE "touch",
                                   !.token = creds[p]]
  <2>1. /\ visit' = [visit EXCEPT ![p] = v]
        /\ UNCHANGED <<clock, accounts, tokens, minted, dropped, creds>>
    BY <1>8 DEF CachedToken, SignTypes
  <2>2. /\ v \in Visits /\ v.token = creds[p] /\ v.token <= minted
        /\ v.pc = IF creds[p] = 0 THEN "setup" ELSE "touch"
    BY DEF SignTypes, Visits, VisitPCs, TokensInv
  <2> HIDE DEF v
  <2>3. VisitOk(v)
    BY <2>2 DEF VisitOk
  <2> QED
    BY <2>1, <2>3, OnlyVisit
<1>9. ASSUME NEW p \in Peers, TouchReads(p)
      PROVE  SignTypes' /\ TokensInv'
  <2> DEFINE t == visit[p].token
  <2>1. t \in TokenIds /\ t <= minted
    BY <1>9, TokenAssumption DEF TouchReads, TokensInv, SignTypes, Visits, TokenIds
  <2>2. CASE ~tokens[t].live
    <3>1. SignStep(p, "stale") /\ UNCHANGED <<clock, accounts, tokens, minted, dropped, creds>>
      BY <1>9, <2>2 DEF TouchReads
    <3> QED
      BY <3>1, VisitGoes DEF VisitPCs
  <2>3. CASE tokens[t].live /\ tokens[t].exp <= clock
    <3>1. /\ tokens' = [tokens EXCEPT ![t].live = FALSE] /\ dropped' = dropped \cup {t}
          /\ SignStep(p, "stale") /\ UNCHANGED <<clock, accounts, minted, creds>>
      BY <1>9, <2>3 DEF TouchReads
    <3>2. /\ visit' \in [Peers -> Visits]
          /\ \A q \in Peers : /\ visit'[q].token = visit[q].token
                              /\ visit'[q].name = visit[q].name
                              /\ visit'[q].pc = IF q = p THEN "stale" ELSE visit[q].pc
      BY <3>1, VisitMoves DEF SignTypes, VisitPCs
    <3>3. /\ tokens' \in [TokenIds -> TokenRows]
          /\ \A u \in TokenIds : /\ tokens'[u].user = tokens[u].user
                                 /\ tokens'[u].live = IF u = t THEN FALSE ELSE tokens[u].live
      BY <2>1, <3>1 DEF SignTypes, TokenRows
    <3>4. SignTypes'
      BY <2>1, <3>1, <3>2, <3>3 DEF SignTypes
    <3>5. TokensInv'
      BY <2>1, <3>1, <3>2, <3>3 DEF SignTypes, TokensInv
    <3> QED
      BY <3>4, <3>5
  <2>4. CASE tokens[t].live /\ ~(tokens[t].exp <= clock)
    <3> DEFINE v == [visit[p] EXCEPT !.pc = "slide", !.now = clock]
    <3>1. /\ visit' = [visit EXCEPT ![p] = v]
          /\ UNCHANGED <<clock, accounts, tokens, minted, dropped, creds>>
      BY <1>9, <2>4 DEF TouchReads, SignTypes
    <3>2. visit[p] \in Visits /\ clock \in Int
      BY DEF SignTypes
    <3>3. v \in Visits /\ v.token = t /\ v.pc = "slide"
      BY <3>2 DEF Visits, VisitPCs
    <3>4. t # 0
      BY <2>1 DEF TokenIds
    <3> HIDE DEF v
    <3>5. VisitOk(v)
      BY <2>1, <3>3, <3>4 DEF VisitOk
    <3> QED
      BY <3>1, <3>5, OnlyVisit
  <2> QED
    BY <2>2, <2>3, <2>4
<1>10. ASSUME NEW p \in Peers, TouchWrites(p)
       PROVE  SignTypes' /\ TokensInv'
  <2> DEFINE t == visit[p].token
  <2>1. t \in TokenIds
    BY <1>10, TokenAssumption DEF TouchWrites, TokensInv, SignTypes, Visits, TokenIds
  <2>2. visit[p].now + Ttl \in Int /\ tokens[t].exp \in Int
    BY <2>1, TokenAssumption DEF SignTypes, Visits, TokenRows
  <2>3. /\ tokens' \in [TokenIds -> TokenRows]
        /\ \A u \in TokenIds : tokens'[u].live = tokens[u].live /\ tokens'[u].user = tokens[u].user
    BY <1>10, <2>1, <2>2 DEF TouchWrites, SignTypes, TokenRows
  <2>4. SignStep(p, "in") /\ UNCHANGED <<clock, accounts, minted, dropped, creds>>
    BY <1>10 DEF TouchWrites
  <2>5. visit' \in [Peers -> Visits] /\ \A q \in Peers : visit'[q].token = visit[q].token
                /\ visit'[q].name = visit[q].name
                /\ visit'[q].pc = IF q = p THEN "in" ELSE visit[q].pc
    BY <2>4 DEF SignStep, SignTypes, Visits, VisitPCs
  <2>6. t # 0
    BY <2>1 DEF TokenIds
  <2>7. SignTypes'
    BY <2>3, <2>4, <2>5 DEF SignTypes
  <2>8. TokensInv'
    BY <2>3, <2>4, <2>5, <2>6 DEF TokensInv, SignTypes
  <2> QED
    BY <2>7, <2>8
<1>11. ASSUME NEW p \in Peers, PortProbeFails(p)
       PROVE  SignTypes' /\ TokensInv'
  <2>1. SignStep(p, "stale") /\ UNCHANGED <<clock, accounts, tokens, minted, dropped, creds>>
    BY <1>11 DEF PortProbeFails
  <2> QED
    BY <2>1, VisitGoes DEF VisitPCs
<1>12. ASSUME NEW p \in Peers, DropCached(p)
       PROVE  SignTypes' /\ TokensInv'
  <2>1. /\ creds' = [creds EXCEPT ![p] = 0] /\ SignStep(p, "setup")
        /\ UNCHANGED <<clock, accounts, tokens, minted, dropped>>
    BY <1>12 DEF DropCached
  <2>2. visit' \in [Peers -> Visits] /\ \A q \in Peers : visit'[q].token = visit[q].token
                /\ visit'[q].name = visit[q].name
                /\ visit'[q].pc = IF q = p THEN "setup" ELSE visit[q].pc
    BY <2>1 DEF SignStep, SignTypes, Visits, VisitPCs
  <2>3. creds' \in [Peers -> 0..MaxTokens] /\ \A q \in Peers : creds'[q] <= minted
    BY <2>1, TokenAssumption DEF SignTypes, TokensInv
  <2>4. SignTypes'
    BY <2>1, <2>2, <2>3 DEF SignTypes
  <2>5. TokensInv'
    BY <2>1, <2>2, <2>3 DEF TokensInv
  <2> QED
    BY <2>4, <2>5
<1>13. ASSUME NEW p \in Peers, AskSetup(p)
       PROVE  SignTypes' /\ TokensInv'
  <2>1. /\ SignStep(p, "register") \/ SignStep(p, "prompt")
        /\ UNCHANGED <<clock, accounts, tokens, minted, dropped, creds>>
    BY <1>13 DEF AskSetup
  <2> QED
    BY <2>1, VisitGoes DEF VisitPCs
<1>14. ASSUME NEW p \in Peers, Register(p)
       PROVE  SignTypes' /\ TokensInv'
  <2> DEFINE v == [visit[p] EXCEPT !.name = "local",
                 !.pc = IF Allowed(p) /\ accounts = {} THEN "hash" ELSE "prompt"]
  <2>1. /\ visit' = [visit EXCEPT ![p] = v]
        /\ UNCHANGED <<clock, accounts, tokens, minted, dropped, creds>>
    BY <1>14 DEF Register, SignTypes
  <2>2. /\ v \in Visits /\ v.token = visit[p].token /\ v.token <= minted
        /\ v.pc \in {"hash", "prompt"} /\ v.name = "local"
    BY DEF SignTypes, Visits, VisitPCs, TokensInv, NamesSeen, Usernames
  <2> HIDE DEF v
  <2>3. VisitOk(v)
    BY <2>2 DEF VisitOk
  <2> QED
    BY <2>1, <2>3, OnlyVisit
<1>15. ASSUME NEW p \in Peers, CreateUser(p)
       PROVE  SignTypes' /\ TokensInv'
  <2>1. visit[p].name = "local" /\ UNCHANGED <<clock, tokens, minted, dropped, creds>>
    BY <1>15 DEF CreateUser, TokensInv
  <2>2. CASE visit[p].name \in accounts
    <3>1. SignStep(p, "prompt") /\ UNCHANGED accounts
      BY <1>15, <2>2 DEF CreateUser
    <3> QED
      BY <2>1, <3>1, VisitGoes DEF VisitPCs
  <2>3. CASE visit[p].name \notin accounts
    <3>1. SignStep(p, "mint") /\ accounts' = accounts \cup {"local"}
      BY <1>15, <2>1, <2>3 DEF CreateUser
    <3>2. visit' \in [Peers -> Visits] /\ \A q \in Peers : visit'[q].token = visit[q].token
                  /\ visit'[q].name = visit[q].name
                  /\ visit'[q].pc = IF q = p THEN "mint" ELSE visit[q].pc
      BY <3>1 DEF SignStep, SignTypes, Visits, VisitPCs
    <3>3. SignTypes'
      BY <2>1, <3>1, <3>2 DEF SignTypes, Usernames
    <3>4. TokensInv'
      BY <2>1, <3>1, <3>2 DEF TokensInv
    <3> QED
      BY <3>3, <3>4
  <2> QED
    BY <2>2, <2>3
<1>16. ASSUME NEW p \in Peers, CreateAuthSession(p)
       PROVE  SignTypes' /\ TokensInv'
  <2> DEFINE n == minted + 1
             row == [user |-> visit[p].name, exp |-> clock + Ttl, live |-> TRUE]
             v == [visit[p] EXCEPT !.pc = "save", !.token = n]
  <2>1. /\ n \in TokenIds /\ minted' = n /\ tokens' = [tokens EXCEPT ![n] = row]
        /\ visit' = [visit EXCEPT ![p] = v] /\ n \in 0..MaxTokens
        /\ UNCHANGED <<clock, accounts, dropped, creds>>
    <3>1. minted' = n /\ minted < MaxTokens /\ UNCHANGED <<clock, accounts, dropped, creds>>
      BY <1>16 DEF CreateAuthSession
    <3>2. n \in TokenIds /\ n \in 0..MaxTokens
      BY <3>1, TokenAssumption DEF SignTypes, TokenIds
    <3>3. tokens' = [tokens EXCEPT ![n] = row]
      BY <1>16, <3>1 DEF CreateAuthSession
    <3>4. visit' = [visit EXCEPT ![p].pc = "save", ![p].token = n]
      BY <1>16, <3>1 DEF CreateAuthSession
    <3>5. visit' = [visit EXCEPT ![p] = v]
      BY <3>4 DEF SignTypes
    <3> QED
      BY <3>1, <3>2, <3>3, <3>5
  <2>2. row \in TokenRows /\ row.live /\ row.user \in accounts
    BY <1>16, TokenAssumption DEF CreateAuthSession, SignTypes, TokensInv, TokenRows, Visits
  <2>3. v \in Visits /\ v.token = n /\ v.pc = "save"
    BY <2>1 DEF SignTypes, Visits, VisitPCs
  <2> HIDE DEF row, v
  <2>4. visit' \in [Peers -> Visits] /\ \A q \in Peers : visit'[q] = IF q = p THEN v ELSE visit[q]
    BY <2>1, <2>3 DEF SignTypes
  <2>5. /\ tokens' \in [TokenIds -> TokenRows]
        /\ \A u \in TokenIds : tokens'[u] = IF u = n THEN row ELSE tokens[u]
    BY <2>1, <2>2 DEF SignTypes
  <2>6. SignTypes'
    BY <2>1, <2>4, <2>5 DEF SignTypes
  <2>7. \A t \in dropped : t \in TokenIds /\ t <= minted /\ t # n
    BY DEF SignTypes, TokensInv, TokenIds
  <2>8. \A t \in TokenIds : tokens'[t].live => t <= minted' /\ tokens'[t].user \in accounts'
    BY <2>1, <2>2, <2>5 DEF SignTypes, TokensInv, TokenIds
  <2>9. \A t \in dropped' : t <= minted' /\ ~tokens'[t].live
    BY <2>1, <2>5, <2>7 DEF SignTypes, TokensInv, TokenIds
  <2>10. \A q \in Peers : creds'[q] <= minted' /\ visit'[q].token <= minted'
    <3> SUFFICES ASSUME NEW q \in Peers
                 PROVE  creds'[q] <= minted' /\ visit'[q].token <= minted'
      OBVIOUS
    <3>1. creds[q] \in Int /\ visit[q].token \in Int /\ minted \in Int
      BY DEF SignTypes, Visits
    <3>2. creds[q] <= minted /\ visit[q].token <= minted
      BY DEF TokensInv
    <3>3. visit'[q].token \in {n, visit[q].token}
      BY <2>3, <2>4
    <3> QED
      BY <2>1, <3>1, <3>2, <3>3
  <2>11. n # 0
    BY DEF SignTypes
  <2> QED
    BY <2>1, <2>3, <2>4, <2>6, <2>8, <2>9, <2>10, <2>11 DEF TokensInv
<1>17. ASSUME NEW p \in Peers, PutToken(p)
       PROVE  SignTypes' /\ TokensInv'
  <2>1. /\ creds' = [creds EXCEPT ![p] = visit[p].token] /\ SignStep(p, "in")
        /\ UNCHANGED <<clock, accounts, tokens, minted, dropped>> /\ visit[p].token # 0
    BY <1>17 DEF PutToken, TokensInv
  <2>2. visit' \in [Peers -> Visits] /\ \A q \in Peers : visit'[q].token = visit[q].token
                /\ visit'[q].name = visit[q].name
                /\ visit'[q].pc = IF q = p THEN "in" ELSE visit[q].pc
    BY <2>1 DEF SignStep, SignTypes, Visits, VisitPCs
  <2>3. SignTypes'
    BY <2>1, <2>2 DEF SignTypes, Visits
  <2>4. TokensInv'
    BY <2>1, <2>2 DEF SignTypes, TokensInv
  <2> QED
    BY <2>3, <2>4
<1>18. ASSUME NEW p \in Peers, Prompt(p)
       PROVE  SignTypes' /\ TokensInv'
  <2>1. UNCHANGED <<clock, accounts, tokens, minted, dropped, creds>>
    BY <1>18 DEF Prompt
  <2>2. CASE visit' = [visit EXCEPT ![p] = Away]
    <3>1. VisitOk(Away)
      BY TokenAssumption DEF VisitOk, Away, Visits, VisitPCs, NamesSeen, SignTypes
    <3> QED
      BY <2>1, <2>2, <3>1, OnlyVisit
  <2>3. ASSUME NEW name \in {"ana", "none"},
               visit' = [visit EXCEPT ![p].pc = "login", ![p].tries = @ + 1, ![p].name = name,
                                       ![p].asked = TRUE]
        PROVE  SignTypes' /\ TokensInv'
    <3> DEFINE v == [visit[p] EXCEPT !.pc = "login", !.tries = @ + 1, !.name = name, !.asked = TRUE]
    <3>1. visit' = [visit EXCEPT ![p] = v]
      BY <2>3 DEF SignTypes
    <3>2. visit[p] \in Visits /\ visit[p].token <= minted /\ name \in NamesSeen
          /\ visit[p].tries + 1 \in Int /\ visit[p].tries \in Int
      BY DEF SignTypes, TokensInv, NamesSeen, Usernames, Visits
    <3>3. v \in Visits /\ v.token = visit[p].token /\ v.pc = "login"
      BY <3>2 DEF Visits, VisitPCs
    <3> HIDE DEF v
    <3>4. VisitOk(v)
      BY <3>2, <3>3 DEF VisitOk
    <3> QED
      BY <2>1, <3>1, <3>4, OnlyVisit
  <2> QED
    BY <1>18, <2>2, <2>3 DEF Prompt
<1>19. ASSUME NEW p \in Peers, Login(p)
       PROVE  SignTypes' /\ TokensInv'
  <2>1. /\ (visit[p].name \in accounts /\ SignStep(p, "mint")) \/ SignStep(p, "prompt")
        /\ UNCHANGED <<clock, accounts, tokens, minted, dropped, creds>>
    BY <1>19 DEF Login
  <2> QED
    BY <2>1, VisitGoes DEF VisitPCs
<1>20. ASSUME NEW p \in Peers, UseToken(p)
       PROVE  SignTypes' /\ TokensInv'
  <2>1. /\ SignStep(p, "touch") \/ visit' = [visit EXCEPT ![p] = Away]
        /\ UNCHANGED <<clock, accounts, tokens, minted, dropped, creds>>
        /\ visit[p].token # 0
    BY <1>20 DEF UseToken, TokensInv
  <2>2. VisitOk(Away)
    BY TokenAssumption DEF VisitOk, Away, Visits, VisitPCs, NamesSeen, SignTypes
  <2> QED
    BY <2>1, <2>2, VisitGoes, OnlyVisit DEF VisitPCs
<1>21. ASSUME NEW p \in Peers, Logout(p)
       PROVE  SignTypes' /\ TokensInv'
  <2> DEFINE t == visit[p].token
  <2>1. t \in TokenIds /\ t <= minted
    BY <1>21, TokenAssumption DEF Logout, TokensInv, SignTypes, Visits, TokenIds
  <2>2. /\ tokens' = [tokens EXCEPT ![t].live = FALSE] /\ dropped' = dropped \cup {t}
        /\ UNCHANGED <<clock, accounts, minted, creds, visit>>
    BY <1>21 DEF Logout
  <2>3. /\ tokens' \in [TokenIds -> TokenRows]
        /\ \A u \in TokenIds : /\ tokens'[u].user = tokens[u].user
                               /\ tokens'[u].live = IF u = t THEN FALSE ELSE tokens[u].live
    BY <2>1, <2>2 DEF SignTypes, TokenRows
  <2> QED
    BY <2>1, <2>2, <2>3 DEF SignTypes, TokensInv
<1> QED
  BY <1>1, <1>2, <1>3, <1>4, <1>5, <1>6, <1>7, <1>8, <1>9, <1>10, <1>11, <1>12, <1>13, <1>14,
     <1>15, <1>16, <1>17, <1>18, <1>19, <1>20, <1>21 DEF SignNext

-----------------------------------------------------------------------------
\* The two files of a certificate are written one after the other: as long as
\* the second is missing nobody has pinned anything.
PinsInv ==
  /\ certFile \in Nat /\ keyFile \in Nat /\ gen \in Nat
  /\ boot \in {"check", "key", "up"} /\ pins \in [Peers -> Nat]
  /\ certFile <= gen /\ \A p \in Peers : pins[p] <= gen
  /\ keyFile = 0 => \A p \in Peers : pins[p] = 0
  /\ keyFile # 0 => certFile = keyFile /\ \A p \in Peers : pins[p] \in {0, certFile}
  /\ boot = "key" => keyFile = 0 /\ certFile = gen /\ gen # 0
  /\ boot = "up" => keyFile # 0

\* Every step keeps the pins: while a key exists, a pin is none or its certificate.
LEMMA PinSteps ==
  ASSUME PinsInv, SignNext
  PROVE  PinsInv'
<1>1. CASE UNCHANGED <<certFile, keyFile, gen, boot, pins>>
  BY <1>1 DEF PinsInv
<1>2. CASE EnsureArtifacts
  <2>1. CASE MissingArtifact
    <3>1. /\ gen' = gen + 1 /\ certFile' = gen + 1 /\ boot' = "key"
          /\ UNCHANGED <<keyFile, pins>>
      BY <1>2, <2>1 DEF EnsureArtifacts
    <3>2. keyFile = 0
      BY <2>1 DEF MissingArtifact, PinsInv
    <3> QED
      BY <3>1, <3>2 DEF PinsInv
  <2>2. CASE ~MissingArtifact
    BY <1>2, <2>2 DEF EnsureArtifacts, MissingArtifact, PinsInv
  <2> QED
    BY <2>1, <2>2
<1>3. CASE WriteKey
  BY <1>3 DEF WriteKey, PinsInv
<1>4. CASE DaemonCrashes
  BY <1>4 DEF DaemonCrashes, PinsInv
<1>5. ASSUME NEW p \in Peers, EstablishTrust(p)
      PROVE  PinsInv'
  BY <1>5 DEF EstablishTrust, daemonVars, PinsInv
<1>6. CASE Tick \/ OtherRegisters \/ SweepExpired
  BY <1>1, <1>6 DEF Tick, OtherRegisters, SweepExpired, daemonVars
<1>7. ASSUME NEW p \in Peers,
             \/ CachedToken(p) \/ TouchReads(p) \/ TouchWrites(p) \/ PortProbeFails(p)
             \/ DropCached(p) \/ AskSetup(p) \/ Register(p) \/ CreateUser(p)
             \/ CreateAuthSession(p) \/ PutToken(p) \/ Prompt(p) \/ Login(p)
             \/ UseToken(p) \/ Logout(p)
      PROVE  UNCHANGED <<certFile, keyFile, gen, boot, pins>>
  BY <1>7 DEF CachedToken, TouchReads, TouchWrites, PortProbeFails, DropCached, AskSetup,
     Register, CreateUser, CreateAuthSession, PutToken, Prompt, Login, UseToken, Logout,
     daemonVars
<1> QED
  BY <1>1, <1>2, <1>3, <1>4, <1>5, <1>6, <1>7 DEF SignNext

-----------------------------------------------------------------------------
\* What the limiter still remembers of a peer's granted attempts is all of
\* them that are not too old.
LimiterInv ==
  /\ clock \in Nat
  /\ hits \in [Peers -> Seq(Nat)] /\ granted \in [Peers -> Seq(Nat)]
  /\ \A p \in Peers : Remembers(hits[p], granted[p])

\* As time passes, what is too old stays too old.
LEMMA RemembersLater ==
  ASSUME clock \in Nat, NEW h, NEW g, Remembers(h, g), clock' = clock + 1
  PROVE  Remembers(h, g)'
<1>1. g \in Seq(Nat) /\ h \in Seq(Nat)
  BY DEF Remembers
<1>2. \A i \in 1 .. Len(g) : g[i] \in Nat
  BY <1>1
<1>3. PICK k \in Nat :
        /\ Len(g) = k + Len(h)
        /\ \A i \in 1 .. Len(h) : h[i] = g[k + i]
        /\ \A i \in 1 .. k : clock - g[i] >= Window
  BY DEF Remembers
<1>4. k <= Len(g) /\ Len(g) \in Nat
  BY <1>1, <1>3
<1>5. \A i \in 1 .. k : clock' - g[i] >= Window
  BY <1>2, <1>3, <1>4, LimiterAssumption
<1>6. \A i \in 1 .. Len(g) : g[i] <= clock'
  BY <1>2 DEF Remembers
<1> QED
  BY <1>3, <1>5, <1>6 DEF Remembers

\* One check of the limiter, granted or refused.
LEMMA Checked ==
  ASSUME LimiterInv, NEW p \in Peers, CheckLimit(p), UNCHANGED clock
  PROVE  LimiterInv'
<1>1. Remembers(Recent(hits[p]), granted[p]) /\ clock \in Nat
  BY ForgetsOld DEF LimiterInv
<1>2. CASE Allowed(p)
  <2>1. /\ hits' = [hits EXCEPT ![p] = Append(Recent(hits[p]), clock)]
        /\ granted' = [granted EXCEPT ![p] = Append(granted[p], clock)]
    BY <1>2 DEF CheckLimit, LimiterInv
  <2>2. Remembers(Append(Recent(hits[p]), clock), Append(granted[p], clock))
    BY <1>1, <1>2, LetsThrough DEF Allowed
  <2>3. Append(Recent(hits[p]), clock) \in Seq(Nat) /\ Append(granted[p], clock) \in Seq(Nat)
    BY <2>2 DEF Remembers
  <2>4. \A q \in Peers : Remembers(hits'[q], granted'[q])
    BY <2>1, <2>2 DEF LimiterInv
  <2>5. \A q \in Peers : Remembers(hits[q], granted[q])'
    BY <2>4 DEF Remembers
  <2> QED
    BY <2>1, <2>3, <2>5 DEF LimiterInv
<1>3. CASE ~Allowed(p)
  <2>1. hits' = [hits EXCEPT ![p] = Recent(hits[p])] /\ UNCHANGED granted
    BY <1>3 DEF CheckLimit, LimiterInv
  <2>2. Recent(hits[p]) \in Seq(Nat)
    BY <1>1 DEF Remembers
  <2>3. \A q \in Peers : Remembers(hits'[q], granted'[q])
    BY <1>1, <2>1 DEF LimiterInv
  <2>4. \A q \in Peers : Remembers(hits[q], granted[q])'
    BY <2>3 DEF Remembers
  <2> QED
    BY <2>1, <2>2, <2>4 DEF LimiterInv
<1> QED
  BY <1>2, <1>3

\* A fresh limiter remembers nothing.
LEMMA NothingRemembered ==
  ASSUME clock \in Nat
  PROVE  Remembers(<<>>, <<>>)
<1>1. Len(<<>>) = 0 /\ <<>> \in Seq(Nat)
  OBVIOUS
<1>2. \E k \in Nat :
        /\ Len(<<>>) = k + Len(<<>>)
        /\ \A i \in 1 .. Len(<<>>) : <<>>[i] = <<>>[k + i]
        /\ \A i \in 1 .. k : clock - <<>>[i] >= Window
  <2> WITNESS 0 \in Nat
  <2> QED BY <1>1
<1> QED
  BY <1>1, <1>2, LimiterAssumption DEF Remembers

\* The limiter starts empty.
LEMMA LimiterInit == SignInit => LimiterInv
  BY NothingRemembered DEF SignInit, LimiterInv

\* Every step keeps what the limiter remembers.
LEMMA LimiterSteps ==
  ASSUME LimiterInv, SignNext
  PROVE  LimiterInv'
<1>1. CASE UNCHANGED <<clock, hits, granted>>
  BY <1>1 DEF LimiterInv, Remembers
<1>2. CASE Tick
  <2>1. clock' = clock + 1 /\ UNCHANGED <<hits, granted>>
    BY <1>2 DEF Tick
  <2>2. \A p \in Peers : Remembers(hits[p], granted[p]) /\ clock \in Nat
    BY DEF LimiterInv
  <2>3. \A p \in Peers : Remembers(hits[p], granted[p])'
    <3> SUFFICES ASSUME NEW p \in Peers
                 PROVE  Remembers(hits[p], granted[p])'
      OBVIOUS
    <3> DEFINE h == hits[p]
               g == granted[p]
    <3>1. hits'[p] = h /\ granted'[p] = g /\ Remembers(h, g)
      BY <2>1, <2>2
    <3> QED
      BY <2>1, <2>2, <3>1, RemembersLater
  <2> QED
    BY <2>1, <2>3 DEF LimiterInv
<1>3. CASE DaemonCrashes
  <2>1. UNCHANGED clock /\ hits' = [p \in Peers |-> <<>>] /\ granted' = [p \in Peers |-> <<>>]
    BY <1>3 DEF DaemonCrashes
  <2>2. Remembers(<<>>, <<>>)
    BY NothingRemembered DEF LimiterInv
  <2>3. \A p \in Peers : Remembers(hits[p], granted[p])'
    BY <2>1, <2>2 DEF Remembers
  <2> QED
    BY <2>1, <2>3 DEF LimiterInv
<1>4. ASSUME NEW p \in Peers, Register(p) \/ Login(p)
      PROVE  LimiterInv'
  BY <1>4, Checked DEF Register, Login
<1>5. CASE EnsureArtifacts \/ WriteKey \/ OtherRegisters \/ SweepExpired
  BY <1>1, <1>5 DEF EnsureArtifacts, WriteKey, OtherRegisters, SweepExpired
<1>6. ASSUME NEW p \in Peers,
             \/ EstablishTrust(p) \/ CachedToken(p) \/ TouchReads(p) \/ TouchWrites(p)
             \/ PortProbeFails(p) \/ DropCached(p) \/ AskSetup(p) \/ CreateUser(p)
             \/ CreateAuthSession(p) \/ PutToken(p) \/ Prompt(p) \/ UseToken(p) \/ Logout(p)
      PROVE  UNCHANGED <<clock, hits, granted>>
  BY <1>6 DEF EstablishTrust, CachedToken, TouchReads, TouchWrites, PortProbeFails, DropCached,
     AskSetup, CreateUser, CreateAuthSession, PutToken, Prompt, UseToken, Logout
<1> QED
  BY <1>1, <1>2, <1>3, <1>4, <1>5, <1>6 DEF SignNext

-----------------------------------------------------------------------------
SignInv == SignTypes /\ TokensInv /\ PinsInv /\ LimiterInv

\* The invariant of signing in is inductive.
LEMMA SignSteps ==
  ASSUME SignInv, [SignNext]_signVars
  PROVE  SignInv'
<1>1. CASE SignNext
  BY <1>1, TokenSteps, PinSteps, LimiterSteps DEF SignInv
<1>2. CASE UNCHANGED signVars
  BY <1>2 DEF SignInv, SignTypes, TokensInv, PinsInv, LimiterInv, Remembers, signVars
<1> QED
  BY <1>1, <1>2

\* It holds at the start.
LEMMA SignStarts == SignInit => SignInv
<1>1. SignInit => PinsInv
  BY DEF SignInit, PinsInv
<1> QED
  BY <1>1, TokensInit, LimiterInit DEF SignInv

\* It gives the properties the hosts run checks.
LEMMA SignMeans == SignInv => SignTypeOK /\ DeadTokenStaysDead /\ LimiterHolds /\ PinsStayValid
<1> SUFFICES ASSUME SignInv
             PROVE  SignTypeOK /\ DeadTokenStaysDead /\ LimiterHolds /\ PinsStayValid
  OBVIOUS
<1>1. DeadTokenStaysDead
  BY DEF SignInv, TokensInv, DeadTokenStaysDead
<1>2. PinsStayValid
  BY DEF SignInv, PinsInv, PinsStayValid
<1>3. LimiterHolds
  <2>1. \A p \in Peers : /\ granted[p] \in Seq(Nat)
                        /\ Remembers(hits[p], granted[p])
    BY DEF SignInv, LimiterInv
  <2>2. \A p \in Peers : DOMAIN granted[p] = 1 .. Len(granted[p])
    BY <2>1
  <2> QED
    BY <2>1, <2>2 DEF Remembers, LimiterHolds
<1>4. SignTypeOK
  BY DEF SignInv, SignTypes, TokensInv, PinsInv, SignTypeOK, Visits, VisitPCs
<1> QED
  BY <1>1, <1>2, <1>3, <1>4

------------------------------------------------------------------------------
\* The shared local browser (cdp_browser.rs, playwright_mcp.rs)

CallPCs == {"idle", "probe", "lock", "again", "reset", "new", "wait", "done"}
InLock == {"again", "reset", "new", "wait"}
Answers == {"", "missing", "duplicate", "timeout"} \cup Singletons

Calls == [pc: CallPCs, what: Singletons, got: Answers, stale: BOOLEAN]
Servers == [tmux: BOOLEAN, up: BOOLEAN, life: Int, peer: Int]

LocalTypes ==
  /\ server \in [Singletons -> Servers]
  /\ launchLock \in [{"chrome", "mcp"} -> Provisions \cup {"free"}]
  /\ call \in [Provisions -> Calls]
  /\ lbCount \in [starts: Int, failures: Int]
  /\ \A w \in Singletons: server[w].up => server[w].tmux

\* Between taking the launch lock and giving it back a call owns its
\* singleton: nobody else starts a session of that name.
LocalInv ==
  \A p \in Provisions:
    /\ call[p].got # "duplicate"
    /\ call[p].pc \in InLock => launchLock[LockOf(call[p].what)] = p
    /\ call[p].pc = "new" => ~server[call[p].what].tmux

\* A call that goes elsewhere with the lock as it was.
LEMMA CallMoves ==
  ASSUME LocalTypes, LocalInv, NEW p \in Provisions, NEW c,
         c \in Calls,
         c.got # "duplicate",
         c.pc \in InLock => launchLock[LockOf(c.what)] = p,
         c.pc = "new" => ~server[c.what].tmux,
         call' = [call EXCEPT ![p] = c],
         UNCHANGED <<server, launchLock, lbCount>>
  PROVE  LocalTypes' /\ LocalInv'
<1> USE DEF Calls, Servers
<1>1. \A q \in Provisions: call'[q] = IF q = p THEN c ELSE call[q]
  BY DEF LocalTypes
<1>2. LocalTypes'
  BY DEF LocalTypes
<1>3. LocalInv'
  BY <1>1 DEF LocalInv
<1> QED
  BY <1>2, <1>3

\* A call that gives the lock back.
LEMMA CallLeaves ==
  ASSUME LocalTypes, LocalInv, NEW p \in Provisions, NEW c,
         c \in Calls,
         c.got # "duplicate", c.pc \notin InLock,
         call' = [call EXCEPT ![p] = c], Unlock(p),
         UNCHANGED server, lbCount' \in [starts: Int, failures: Int]
  PROVE  LocalTypes' /\ LocalInv'
<1> USE DEF Calls, Servers
<1>1. \A q \in Provisions: call'[q] = IF q = p THEN c ELSE call[q]
  BY DEF LocalTypes
<1>2. /\ launchLock' \in [{"chrome", "mcp"} -> Provisions \cup {"free"}]
      /\ \A k \in {"chrome", "mcp"}: launchLock[k] # p => launchLock'[k] = launchLock[k]
  BY DEF Unlock, LocalTypes
<1>3. LocalTypes'
  BY <1>2 DEF LocalTypes
<1>4. \A w: LockOf(w) \in {"chrome", "mcp"}
  BY DEF LockOf
<1>5. LocalInv'
  BY <1>1, <1>2, <1>4 DEF LocalInv, InLock
<1> QED
  BY <1>3, <1>5

Sound(c) ==
  /\ c \in Calls
  /\ c.got # "duplicate" /\ c.pc \in {"probe", "done"}

\* A singleton that answers: the call goes on to the bound server or is done.
LEMMA EnsuredIs ==
  ASSUME LocalTypes, LocalInv, NEW p \in Provisions, Ensured(p)
  PROVE  \E c: call' = [call EXCEPT ![p] = c] /\ Sound(c)
<1> USE DEF Calls, Servers
<1> DEFINE a == [call[p] EXCEPT !.pc = "probe", !.what = "bound"]
           b == [call[p] EXCEPT !.pc = "done", !.got = What(p),
                                !.stale = StaleBinding(What(p))]
           c == IF What(p) = "chrome" THEN a ELSE b
<1>1. call' = [call EXCEPT ![p] = c]
  BY DEF Ensured, LocalTypes
<1>2. call[p] \in Calls
      /\ call[p].got # "duplicate"
  BY DEF LocalTypes, LocalInv
<1>3. StaleBinding(What(p)) \in BOOLEAN
  BY DEF StaleBinding, LocalTypes, Singletons
<1>4. Sound(a)
  BY <1>2 DEF Sound, CallPCs, Singletons
<1>5. Sound(b)
  BY <1>2, <1>3 DEF Sound, CallPCs, Singletons, Answers, What
<1> HIDE DEF a, b
<1> QED
  BY <1>1, <1>4, <1>5

\* One that does not: the call falls back to headless or is done.
LEMMA RefusedIs ==
  ASSUME LocalTypes, LocalInv, NEW p \in Provisions, NEW why \in {"missing", "timeout"},
         Refused(p, why)
  PROVE  \E c: call' = [call EXCEPT ![p] = c] /\ Sound(c)
<1> USE DEF Calls, Servers
<1> DEFINE a == [call[p] EXCEPT !.pc = "probe", !.what = "headless"]
           b == [call[p] EXCEPT !.pc = "done", !.got = why]
           c == IF What(p) = "chrome" THEN a ELSE b
<1>1. call' = [call EXCEPT ![p] = c]
  BY DEF Refused, LocalTypes
<1>2. call[p] \in Calls
      /\ call[p].got # "duplicate"
  BY DEF LocalTypes, LocalInv
<1>4. Sound(a)
  BY <1>2 DEF Sound, CallPCs, Singletons
<1>5. Sound(b)
  BY <1>2 DEF Sound, CallPCs, Singletons, Answers
<1> HIDE DEF a, b
<1> QED
  BY <1>1, <1>4, <1>5

\* A call that is through with its singleton and gives the lock back.
LEMMA ProvisionEnds ==
  ASSUME LocalTypes, LocalInv, NEW p \in Provisions,
         \/ Ensured(p)
         \/ Refused(p, "missing")
         \/ Refused(p, "timeout"),
         Unlock(p), UNCHANGED server, lbCount' \in [starts: Int, failures: Int]
  PROVE  LocalTypes' /\ LocalInv'
<1>1. PICK c: call' = [call EXCEPT ![p] = c] /\ Sound(c)
  BY EnsuredIs, RefusedIs
<1> QED
  BY <1>1, CallLeaves DEF Sound, InLock

\* A step to pc keeps the singleton the call asks for.
LEMMA CallGoesIs ==
  ASSUME LocalTypes, LocalInv, NEW p \in Provisions, NEW at \in CallPCs, CallGoes(p, at)
  PROVE  \E c: /\ call' = [call EXCEPT ![p] = c]
               /\ c \in Calls
               /\ c.pc = at /\ c.what = call[p].what /\ c.got # "duplicate"
<1> USE DEF Calls, Servers
<1> DEFINE c == [call[p] EXCEPT !.pc = at]
<1>1. call' = [call EXCEPT ![p] = c]
  BY DEF CallGoes, LocalTypes
<1>2. call[p] \in Calls
      /\ call[p].got # "duplicate"
  BY DEF LocalTypes, LocalInv
<1>3. /\ c \in Calls
      /\ c.pc = at /\ c.what = call[p].what /\ c.got # "duplicate"
  BY <1>2
<1> QED
  BY <1>1, <1>3

\* The servers change, the calls do not.
LEMMA ServersChange ==
  ASSUME LocalTypes, LocalInv, UNCHANGED <<launchLock, call>>,
         lbCount' \in [starts: Int, failures: Int],
         server' \in [Singletons -> Servers],
         \A w \in Singletons: /\ server'[w].tmux => server[w].tmux
                              /\ server'[w].up => server'[w].tmux
  PROVE  LocalTypes' /\ LocalInv'
<1> USE DEF Calls, Servers
<1>1. \A p \in Provisions: call[p].what \in Singletons
  BY DEF LocalTypes
<1>2. LocalTypes'
  BY DEF LocalTypes
<1>3. LocalInv'
  BY <1>1 DEF LocalInv
<1> QED
  BY <1>2, <1>3

\* One server is replaced by one that is up only in a session that was there.
LEMMA OneServer ==
  ASSUME LocalTypes, LocalInv, UNCHANGED <<launchLock, call>>,
         lbCount' \in [starts: Int, failures: Int],
         NEW w \in Singletons, NEW v \in Servers, server' = [server EXCEPT ![w] = v],
         v.tmux => server[w].tmux, v.up => v.tmux
  PROVE  LocalTypes' /\ LocalInv'
<1>1. /\ server' \in [Singletons -> Servers]
      /\ \A u \in Singletons: server'[u] = IF u = w THEN v ELSE server[u]
  BY DEF LocalTypes
<1>2. \A u \in Singletons: /\ server'[u].tmux => server[u].tmux
                           /\ server'[u].up => server'[u].tmux
  BY <1>1 DEF LocalTypes
<1> QED
  BY <1>1, <1>2, ServersChange

\* A server that is down has no session.
LEMMA DownIs == Down \in Servers /\ ~Down.up /\ ~Down.tmux
  BY DEF Down, Servers

\* The invariant of the shared browser is inductive.
LEMMA LocalSteps ==
  ASSUME LocalTypes, LocalInv, LocalNext
  PROVE  LocalTypes' /\ LocalInv'
<1> USE DEF Calls, Servers
<1>1. ASSUME NEW p \in Provisions, Provision(p)
      PROVE  LocalTypes' /\ LocalInv'
  <2>1. PICK w \in {"chrome", "headless"}:
          call' = [call EXCEPT ![p].pc = "probe", ![p].what = w]
    BY <1>1 DEF Provision
  <2> DEFINE c == [call[p] EXCEPT !.pc = "probe", !.what = w]
  <2>2. call' = [call EXCEPT ![p] = c]
    BY <2>1 DEF LocalTypes
  <2>3. call[p] \in Calls
        /\ call[p].got # "duplicate"
    BY DEF LocalTypes, LocalInv
  <2>4. /\ c \in Calls
        /\ c.pc = "probe" /\ c.got # "duplicate"
    BY <2>3 DEF CallPCs, Singletons
  <2> HIDE DEF c
  <2> QED
    BY <1>1, <2>2, <2>4, CallMoves DEF Provision, InLock
<1>2. ASSUME NEW p \in Provisions, ProbePort(p)
      PROVE  LocalTypes' /\ LocalInv'
  <2>1. UNCHANGED <<server, launchLock, lbCount>>
    BY <1>2 DEF ProbePort
  <2>2. \E c: /\ call' = [call EXCEPT ![p] = c] /\ c.got # "duplicate"
              /\ c \in Calls
              /\ c.pc \in {"probe", "done", "lock"}
    BY <1>2, EnsuredIs, CallGoesIs DEF ProbePort, Sound, CallPCs
  <2> QED
    BY <2>1, <2>2, CallMoves DEF InLock
<1>3. ASSUME NEW p \in Provisions, TakeLaunchLock(p)
      PROVE  LocalTypes' /\ LocalInv'
  <2> DEFINE k == LockOf(What(p))
  <2>1. /\ launchLock[k] = "free" /\ launchLock' = [launchLock EXCEPT ![k] = p]
        /\ CallGoes(p, "again") /\ UNCHANGED <<server, lbCount>>
    BY <1>3 DEF TakeLaunchLock
  <2>2. k \in {"chrome", "mcp"}
    BY DEF LockOf
  <2>3. PICK c: /\ call' = [call EXCEPT ![p] = c]
                /\ c \in Calls
                /\ c.pc = "again" /\ c.what = call[p].what /\ c.got # "duplicate"
    BY <2>1, CallGoesIs DEF CallPCs
  <2>4. \A q \in Provisions: call'[q] = IF q = p THEN c ELSE call[q]
    BY <2>3 DEF LocalTypes
  <2>5. LocalTypes'
    BY <2>1, <2>2, <2>3 DEF LocalTypes
  <2>6. launchLock'[k] = p /\ \A j: j # k => launchLock'[j] = launchLock[j]
    BY <2>1, <2>2 DEF LocalTypes
  <2>7. \A q \in Provisions: call[q].pc \in InLock => LockOf(call[q].what) # k
    BY <2>1, LocalBrowserAssumption DEF LocalInv
  <2>8. LockOf(c.what) = k
    BY <2>3 DEF What
  <2> HIDE DEF k
  <2>9. LocalInv'
    BY <2>1, <2>3, <2>4, <2>6, <2>7, <2>8 DEF LocalInv
  <2> QED
    BY <2>5, <2>9
<1>4. ASSUME NEW p \in Provisions, ProbeAgain(p)
      PROVE  LocalTypes' /\ LocalInv'
  <2>1. UNCHANGED <<server, lbCount>> /\ call[p].pc = "again"
    BY <1>4 DEF ProbeAgain, CallAt
  <2>2. CASE (Ensured(p) \/ Refused(p, "missing")) /\ Unlock(p)
    BY <2>1, <2>2, ProvisionEnds DEF LocalTypes
  <2>3. CASE CallGoes(p, "reset") /\ UNCHANGED launchLock
    BY <2>1, <2>3, CallGoesIs, CallMoves DEF CallPCs, InLock, LocalInv
  <2> QED
    BY <1>4, <2>2, <2>3 DEF ProbeAgain
<1>5. ASSUME NEW p \in Provisions, ResetStale(p)
      PROVE  LocalTypes' /\ LocalInv'
  <2> DEFINE w == What(p)
  <2>1. UNCHANGED lbCount /\ call[p].pc = "reset"
    BY <1>5 DEF ResetStale, CallAt
  <2>2. CASE Ensured(p) /\ Unlock(p) /\ UNCHANGED server
    BY <2>1, <2>2, ProvisionEnds DEF LocalTypes
  <2>3. CASE /\ server' = [server EXCEPT ![w] = Down]
             /\ CallGoes(p, "new") /\ UNCHANGED launchLock
    <3>1. PICK c: /\ call' = [call EXCEPT ![p] = c]
                  /\ c \in Calls
                  /\ c.pc = "new" /\ c.what = call[p].what /\ c.got # "duplicate"
      BY <2>3, CallGoesIs DEF CallPCs
    <3>2. \A q \in Provisions: call'[q] = IF q = p THEN c ELSE call[q]
      BY <3>1 DEF LocalTypes
    <3>3. /\ server' \in [Singletons -> Servers]
          /\ \A v \in Singletons: /\ server'[v].tmux => server[v].tmux
                                  /\ server'[v].up => server'[v].tmux
          /\ ~server'[w].tmux
      BY <2>3 DEF LocalTypes, Down, What
    <3>4. LocalTypes'
      BY <2>1, <2>3, <3>1, <3>3 DEF LocalTypes
    <3>5. \A q \in Provisions: call[q].what \in Singletons
      BY DEF LocalTypes
    <3>6. LocalInv'
      BY <2>1, <2>3, <3>1, <3>2, <3>3, <3>5 DEF LocalInv, InLock, What
    <3> QED
      BY <3>4, <3>6
  <2> QED
    BY <1>5, <2>2, <2>3 DEF ResetStale
<1>6. ASSUME NEW p \in Provisions, NewSession(p)
      PROVE  LocalTypes' /\ LocalInv'
  <2> DEFINE w == What(p)
             new == [Down EXCEPT !.tmux = TRUE, !.life = lbCount.starts + 1]
  <2>1. /\ ~server[w].tmux /\ call[p].pc = "new" /\ w \in Singletons
        /\ launchLock[LockOf(w)] = p
    BY <1>6 DEF NewSession, CallAt, LocalInv, LocalTypes, What, InLock
  <2>2. /\ server' = [server EXCEPT ![w] = new] /\ CallGoes(p, "wait") /\ UNCHANGED launchLock
        /\ lbCount' \in [starts: Int, failures: Int]
    <3>1. /\ server' = [server EXCEPT ![w] = new] /\ CallGoes(p, "wait")
          /\ UNCHANGED launchLock /\ lbCount' = [lbCount EXCEPT !.starts = @ + 1]
      BY <1>6, <2>1 DEF NewSession
    <3>2. lbCount \in [starts: Int, failures: Int]
      BY DEF LocalTypes
    <3>3. lbCount' \in [starts: Int, failures: Int]
      BY ONLY <3>1, <3>2
    <3> QED
      BY <3>1, <3>3
  <2>3. new \in Servers /\ ~new.up
    <3>1. lbCount \in [starts: Int, failures: Int]
      BY DEF LocalTypes
    <3>2. lbCount.starts + 1 \in Int
      BY ONLY <3>1
    <3> QED
      BY <3>2, DownIs DEF Servers
  <2>4. PICK c: /\ call' = [call EXCEPT ![p] = c]
                /\ c \in Calls
                /\ c.pc = "wait" /\ c.what = call[p].what /\ c.got # "duplicate"
    BY <2>2, CallGoesIs DEF CallPCs
  <2>5. \A q \in Provisions: call'[q] = IF q = p THEN c ELSE call[q]
    BY <2>4 DEF LocalTypes
  <2> HIDE DEF new
  <2>6. \A v \in Singletons: server'[v] = IF v = w THEN new ELSE server[v]
    BY <2>2 DEF LocalTypes
  <2>7. LocalTypes'
    BY <2>2, <2>3, <2>4, <2>6 DEF LocalTypes
  <2>8. \A q \in Provisions: /\ call[q].what \in Singletons
                             /\ q # p /\ call[q].pc = "new" => call[q].what # w
    BY <2>1 DEF LocalTypes, LocalInv, InLock
  <2>9. LocalInv'
    BY <2>1, <2>2, <2>4, <2>5, <2>6, <2>8 DEF LocalInv, InLock, What
  <2> QED
    BY <2>7, <2>9
<1>7. ASSUME NEW p \in Provisions, AwaitPort(p)
      PROVE  LocalTypes' /\ LocalInv'
  BY <1>7, ProvisionEnds DEF AwaitPort, LocalTypes
<1>8. ASSUME NEW w \in Singletons, Boots(w)
      PROVE  LocalTypes' /\ LocalInv'
  <2> DEFINE n == IF w = "bound" /\ server["chrome"].up THEN server["chrome"].life ELSE 0
             v == [server[w] EXCEPT !.up = TRUE, !.peer = n]
  <2>1. server' = [server EXCEPT ![w].up = TRUE, ![w].peer = n]
    BY <1>8 DEF Boots
  <2>2. server' = [server EXCEPT ![w] = v]
    BY <2>1 DEF LocalTypes
  <2>3. n \in Int
    BY DEF LocalTypes, Servers, Singletons
  <2> HIDE DEF n
  <2>4. v \in Servers /\ v.tmux = server[w].tmux /\ server[w].tmux
    BY <1>8, <2>3 DEF Boots, LocalTypes, Servers
  <2> HIDE DEF v
  <2>5. /\ UNCHANGED <<launchLock, call>>
        /\ lbCount' \in [starts: Int, failures: Int]
    BY <1>8 DEF Boots, LocalTypes
  <2> QED
    BY <2>2, <2>4, <2>5, OneServer
<1>9. ASSUME NEW w \in Singletons, Fails(w)
      PROVE  LocalTypes' /\ LocalInv'
  <2>1. lbCount' \in [starts: Int, failures: Int] /\ UNCHANGED <<launchLock, call>>
    BY <1>9 DEF Fails, LocalTypes
  <2>2. CASE server' = [server EXCEPT ![w] = Down]
    BY <2>1, <2>2, OneServer, DownIs
  <2>3. CASE server' = [server EXCEPT ![w].up = FALSE]
    <3> DEFINE v == [server[w] EXCEPT !.up = FALSE]
    <3>1. server' = [server EXCEPT ![w] = v]
      BY <2>3 DEF LocalTypes
    <3>2. v \in Servers /\ v.tmux = server[w].tmux /\ ~v.up
      BY DEF LocalTypes, Servers
    <3> HIDE DEF v
    <3> QED
      BY <2>1, <3>1, <3>2, OneServer
  <2> QED
    BY <1>9, <2>2, <2>3 DEF Fails
<1>10. CASE StopChrome \/ StopBoundMcp
  <2>1. PICK w \in Singletons: server' = [server EXCEPT ![w] = Down]
    BY <1>10 DEF StopChrome, StopBoundMcp, Singletons
  <2> QED
    BY <1>10, <2>1, OneServer, DownIs DEF StopChrome, StopBoundMcp, LocalTypes
<1> QED
  BY <1>1, <1>2, <1>3, <1>4, <1>5, <1>6, <1>7, <1>8, <1>9, <1>10 DEF LocalNext, EnsureSteps

\* It holds at the start.
LEMMA LocalStarts == LocalInit => LocalTypes /\ LocalInv
<1> SUFFICES ASSUME LocalInit
             PROVE  LocalTypes /\ LocalInv
  OBVIOUS
<1>1. server \in [Singletons -> Servers] /\ \A w \in Singletons: ~server[w].up
  BY DownIs DEF LocalInit
<1>2. /\ call \in [Provisions -> Calls]
      /\ \A p \in Provisions: call[p].pc = "idle" /\ call[p].got = ""
  BY DEF LocalInit, Calls, CallPCs, Answers, Singletons
<1>3. LocalTypes
  <2>1. lbCount \in [starts: Int, failures: Int]
    <3>1. lbCount = [starts |-> 0, failures |-> 0]
      BY DEF LocalInit
    <3> QED
      BY ONLY <3>1
  <2>2. launchLock \in [{"chrome", "mcp"} -> Provisions \cup {"free"}]
    BY DEF LocalInit
  <2> QED
    BY <1>1, <1>2, <2>1, <2>2 DEF LocalTypes
<1>4. LocalInv
  BY <1>2 DEF LocalInv, InLock
<1> QED
  BY <1>3, <1>4

\* It gives the properties the hosts run checks.
LEMMA LocalMeans == LocalTypes /\ LocalInv => LocalTypeOK /\ LaunchesDoNotCollide
  BY DEF LocalTypes, LocalInv, InLock, Calls, LocalTypeOK,
     LaunchesDoNotCollide, CallAt, What

------------------------------------------------------------------------------
\* Private files (store lib.rs, server logs)

InodeKinds == {"private", "loose", "foreign"}
OpenerPCs == {"look", "open", "check", "repair", "ready", "in", "confirmed",
              "refused"}
Opened == {"check", "repair", "ready", "in", "confirmed"}

FilesTypes ==
  /\ \E n \in Nat: DOMAIN inode = 1..n
  /\ inode \in [DOMAIN inode -> InodeKinds]
  /\ named \in [{"db", "log"} -> DOMAIN inode \cup {0}]
  /\ opener \in [Openers -> [at: OpenerPCs, saw: DOMAIN inode \cup {0},
                             fd: DOMAIN inode \cup {0}, lost: 0..CreateRetries]]
  /\ \A o \in Openers: opener[o].at \in {"check", "repair", "ready"} => opener[o].fd # 0
  /\ swaps \in 0..MaxSwaps

\* While nobody else has touched a path: what an opener saw or opened is what
\* its path names, a path that names a file keeps naming it, and only a
\* database that is not ours is ever refused.
SharedInv ==
  swaps = 0 =>
    /\ named["db"] # 0 => named["db"] # named["log"]
    /\ \A o \in Openers:
         /\ opener[o].at = "open" /\ opener[o].saw # 0
              => opener[o].saw = Path(o) /\ Ours(Path(o))
         /\ opener[o].at \in Opened
              => opener[o].fd = Path(o) /\ Path(o) # 0 /\ Ours(Path(o))
         /\ Path(o) = 0 \/ (opener[o].at = "open" /\ opener[o].saw = 0)
              => opener[o].lost = 0
    /\ \A o \in DbOpeners:
         opener[o].at = "refused" => named["db"] # 0 /\ ~Ours(named["db"])

\* Numbers of files.
LEMMA CountIs ==
  ASSUME NEW n \in Nat, DOMAIN inode = 1..n
  PROVE  FileCount = n
<1>1. Cardinality(1..n) = n
  BY FS_Interval
<1> QED
  BY <1>1 DEF FileCount

\* The invariant of the private files gives the properties the hosts run checks.
LEMMA FilesMean == FilesTypes /\ SharedInv => FilesTypeOK /\ DaemonsShareDatabase
<1> SUFFICES ASSUME FilesTypes, SharedInv
             PROVE  FilesTypeOK /\ DaemonsShareDatabase
  OBVIOUS
<1>1. PICK n \in Nat: DOMAIN inode = 1..n
  BY DEF FilesTypes
<1>2. FileCount = n
  BY <1>1, CountIs
<1>3. DOMAIN inode \cup {0} = 0..FileCount
  BY <1>1, <1>2
<1>4. FilesTypeOK
  BY <1>3 DEF FilesTypes, FilesTypeOK, InodeKinds, OpenerPCs
<1>5. DaemonsShareDatabase
  BY DEF SharedInv, DaemonsShareDatabase, Is, Opened, Path, PathOf, Openers
<1> QED
  BY <1>4, <1>5

\* It holds at the start, whatever files are there.
LEMMA FilesStart == FilesInit => FilesTypes /\ SharedInv
<1> SUFFICES ASSUME FilesInit
             PROVE  FilesTypes /\ SharedInv
  OBVIOUS
<1>1. opener = [o \in Openers |-> NotYet] /\ swaps = 0
  BY DEF FilesInit
<1> DEFINE D == DOMAIN inode
<1>2. /\ D = 1..0 \/ D = 1..1 \/ D = 1..2
      /\ inode \in [D -> InodeKinds]
      /\ named \in [{"db", "log"} -> D \cup {0}]
      /\ named["db"] # 0 => named["db"] # named["log"]
  <2>1. PICK db \in {"none", "private", "loose", "foreign"},
            log \in {"none", "private", "loose", "foreign"}:
          /\ inode = [f \in (IF db = "none" THEN {} ELSE {1})
                              \cup (IF log = "none" THEN {} ELSE {2}) |->
                        IF f = 1 THEN db ELSE log]
          /\ db = "none" => log = "none"
          /\ named = [p \in {"db", "log"} |->
                        IF p = "db" THEN (IF db = "none" THEN 0 ELSE 1)
                        ELSE IF log = "none" THEN 0 ELSE 2]
    BY DEF FilesInit
  <2>2. CASE db = "none"
    BY <2>1, <2>2 DEF InodeKinds
  <2>3. CASE db # "none" /\ log = "none"
    BY <2>1, <2>3 DEF InodeKinds
  <2>4. CASE db # "none" /\ log # "none"
    BY <2>1, <2>4 DEF InodeKinds
  <2> QED
    BY <2>1, <2>2, <2>3, <2>4
<1>3. \E n \in Nat: D = 1..n
  BY <1>2
<1>4. NotYet \in [at: OpenerPCs, saw: D \cup {0}, fd: D \cup {0}, lost: 0..CreateRetries]
  BY FilesAssumption DEF NotYet, OpenerPCs
<1> HIDE DEF D
<1>5. opener \in [Openers -> [at: OpenerPCs, saw: D \cup {0}, fd: D \cup {0},
                             lost: 0..CreateRetries]]
  BY <1>1, <1>4
<1>6. \A o \in Openers: opener[o].at = "look" /\ opener[o].lost = 0
  BY <1>1 DEF NotYet
<1>7. FilesTypes
  BY <1>1, <1>2, <1>3, <1>5, <1>6, FilesAssumption DEF FilesTypes, D
<1>8. SharedInv
  BY <1>1, <1>2, <1>6 DEF SharedInv, Opened, Openers
<1> QED
  BY <1>7, <1>8

OpenerStates == [at: OpenerPCs, saw: DOMAIN inode \cup {0},
                 fd: DOMAIN inode \cup {0}, lost: 0..CreateRetries]

\* What an opener of one path may be while nobody else touches it.
FairOpener(o, c) ==
  /\ c.at = "open" /\ c.saw # 0 => c.saw = Path(o) /\ Ours(Path(o))
  /\ c.at \in Opened => c.fd = Path(o) /\ Path(o) # 0 /\ Ours(Path(o))
  /\ Path(o) = 0 \/ (c.at = "open" /\ c.saw = 0) => c.lost = 0
  /\ o \in DbOpeners /\ c.at = "refused" => named["db"] # 0 /\ ~Ours(named["db"])

\* One opener moves; modes may be repaired, no path changes.
LEMMA OpenerMoves ==
  ASSUME FilesTypes, SharedInv, NEW o \in Openers, NEW c \in OpenerStates,
         opener' = [opener EXCEPT ![o] = c],
         c.at \in {"check", "repair", "ready"} => c.fd # 0,
         inode' \in [DOMAIN inode -> InodeKinds], UNCHANGED <<named, swaps>>,
         swaps = 0 => /\ FairOpener(o, c)
                      /\ \A f \in DOMAIN inode: inode'[f] = "foreign" <=> inode[f] = "foreign"
  PROVE  FilesTypes' /\ SharedInv'
<1>1. DOMAIN inode' = DOMAIN inode
  OBVIOUS
<1>2. \A q \in Openers: opener'[q] = IF q = o THEN c ELSE opener[q]
  BY DEF FilesTypes
<1>3. FilesTypes'
  BY <1>1, <1>2 DEF FilesTypes, OpenerStates
<1>4. ASSUME swaps = 0
      PROVE  SharedInv'
  <2>1. \A p \in {"db", "log"}: named[p] # 0 => (Ours(named[p]))' = Ours(named[p])
    BY <1>4 DEF FilesTypes, Ours
  <2>2. \A q \in Openers: /\ Path(q)' = Path(q)
                          /\ Path(q) # 0 => (Ours(Path(q)))' = Ours(Path(q))
    BY <2>1 DEF Path, PathOf, Ours
  <2>3. \A q \in DbOpeners: q \in Openers
    BY DEF Openers
  <2> QED
    BY <1>2, <1>4, <2>1, <2>2, <2>3 DEF SharedInv, FairOpener
<1>5. ASSUME swaps # 0
      PROVE  SharedInv'
  BY <1>5 DEF SharedInv
<1> QED
  BY <1>3, <1>4, <1>5

\* The record of an opener after a step.
LEMMA OpenerIs ==
  ASSUME FilesTypes, NEW o \in Openers, NEW at \in OpenerPCs, OpenerTo(o, at)
  PROVE  \E c \in OpenerStates: /\ opener' = [opener EXCEPT ![o] = c]
                                /\ c.at = at /\ c.saw = opener[o].saw
                                /\ c.fd = opener[o].fd /\ c.lost = opener[o].lost
<1> DEFINE c == [opener[o] EXCEPT !.at = at]
<1>1. opener[o] \in OpenerStates
  BY DEF FilesTypes, OpenerStates
<1>2. opener' = [opener EXCEPT ![o] = c]
  BY DEF FilesTypes, OpenerTo
<1>3. /\ c \in OpenerStates /\ c.at = at /\ c.saw = opener[o].saw
      /\ c.fd = opener[o].fd /\ c.lost = opener[o].lost
  BY <1>1 DEF OpenerStates
<1> QED
  BY <1>2, <1>3

\* A step that only says how far an opener is.
LEMMA OpenerGoes ==
  ASSUME FilesTypes, SharedInv, NEW o \in Openers, NEW at \in OpenerPCs,
         OpenerTo(o, at), UNCHANGED <<inode, named, swaps>>,
         at \in {"check", "repair", "ready"} => opener[o].fd # 0,
         at # "look", at # "open",
         swaps = 0 =>
           /\ at \in Opened => opener[o].fd = Path(o) /\ Path(o) # 0 /\ Ours(Path(o))
           /\ Path(o) = 0 => opener[o].lost = 0
           /\ o \in DbOpeners /\ at = "refused" => named["db"] # 0 /\ ~Ours(named["db"])
  PROVE  FilesTypes' /\ SharedInv'
<1>1. PICK c \in OpenerStates: /\ opener' = [opener EXCEPT ![o] = c]
                               /\ c.at = at /\ c.saw = opener[o].saw
                               /\ c.fd = opener[o].fd /\ c.lost = opener[o].lost
  BY OpenerIs
<1>2. inode' \in [DOMAIN inode -> InodeKinds]
  BY DEF FilesTypes
<1>3. swaps = 0 => FairOpener(o, c)
  BY <1>1 DEF FairOpener
<1> QED
  BY <1>1, <1>2, <1>3, OpenerMoves

\* An opener looks at its path.
LEMMA LookSteps ==
  ASSUME FilesTypes, SharedInv, NEW o \in Openers, LookAt(o)
  PROVE  FilesTypes' /\ SharedInv'
<1>1. UNCHANGED <<named, inode, swaps>> /\ opener[o].at = "look"
  BY DEF LookAt, Is
<1>2. swaps = 0 => (Path(o) = 0 => opener[o].lost = 0)
  BY DEF SharedInv
<1>3. CASE Path(o) # 0 /\ ~Ours(Path(o))
  <2>1. OpenerTo(o, "refused")
    BY <1>3 DEF LookAt
  <2>2. o \in DbOpeners => named["db"] # 0 /\ ~Ours(named["db"])
    BY <1>3 DEF Path, PathOf
  <2> QED
    BY <1>1, <1>3, <2>1, <2>2, OpenerGoes DEF OpenerPCs, Opened
<1>4. CASE ~(Path(o) # 0 /\ ~Ours(Path(o)))
  <2> DEFINE c == [opener[o] EXCEPT !.at = "open", !.saw = Path(o)]
  <2>1. opener' = [opener EXCEPT ![o].at = "open", ![o].saw = Path(o)]
    BY <1>4 DEF LookAt
  <2>2. opener' = [opener EXCEPT ![o] = c]
    BY <2>1 DEF FilesTypes
  <2>3. Path(o) \in DOMAIN inode \cup {0} /\ opener[o] \in OpenerStates
    BY DEF FilesTypes, Path, PathOf, OpenerStates
  <2>4. /\ c \in OpenerStates /\ c.at = "open" /\ c.saw = Path(o)
        /\ c.fd = opener[o].fd /\ c.lost = opener[o].lost
    BY <2>3 DEF OpenerStates, OpenerPCs
  <2> HIDE DEF c
  <2>5. inode' \in [DOMAIN inode -> InodeKinds]
    BY <1>1 DEF FilesTypes
  <2>6. swaps = 0 => FairOpener(o, c)
    BY <1>2, <1>4, <2>4 DEF FairOpener, Opened
  <2> QED
    BY <1>1, <2>2, <2>4, <2>5, <2>6, OpenerMoves
<1> QED
  BY <1>3, <1>4

\* It opens the file it saw.
LEMMA OpenSteps ==
  ASSUME FilesTypes, SharedInv, NEW o \in Openers, OpenFile(o)
  PROVE  FilesTypes' /\ SharedInv'
<1>1. UNCHANGED <<named, inode, swaps>> /\ opener[o].at = "open" /\ opener[o].saw # 0
  BY DEF OpenFile, Is
<1>2. swaps = 0 => opener[o].saw = Path(o) /\ Ours(Path(o))
  BY <1>1 DEF SharedInv
<1>3. CASE Path(o) = opener[o].saw
  <2> DEFINE c == [opener[o] EXCEPT !.at = "check", !.fd = Path(o)]
  <2>1. opener' = [opener EXCEPT ![o].at = "check", ![o].fd = Path(o)]
    BY <1>3 DEF OpenFile
  <2>2. opener' = [opener EXCEPT ![o] = c]
    BY <2>1 DEF FilesTypes
  <2>3. Path(o) \in DOMAIN inode \cup {0} /\ opener[o] \in OpenerStates
    BY DEF FilesTypes, Path, PathOf, OpenerStates
  <2>4. /\ c \in OpenerStates /\ c.at = "check" /\ c.saw = opener[o].saw
        /\ c.fd = Path(o) /\ c.lost = opener[o].lost
    BY <2>3 DEF OpenerStates, OpenerPCs
  <2> HIDE DEF c
  <2>5. inode' \in [DOMAIN inode -> InodeKinds]
    BY <1>1 DEF FilesTypes
  <2>6. swaps = 0 => FairOpener(o, c)
    BY <1>1, <1>2, <1>3, <2>4 DEF FairOpener
  <2> QED
    BY <1>1, <1>3, <2>2, <2>4, <2>5, <2>6, OpenerMoves
<1>4. CASE Path(o) # opener[o].saw
  <2>1. OpenerTo(o, "refused") /\ swaps # 0
    BY <1>2, <1>4 DEF OpenFile
  <2> QED
    BY <1>1, <2>1, OpenerGoes DEF OpenerPCs
<1> QED
  BY <1>3, <1>4

\* It compares what it opened with what the path names.
LEMMA CheckSteps ==
  ASSUME FilesTypes, SharedInv, NEW o \in Openers, CheckPath(o)
  PROVE  FilesTypes' /\ SharedInv'
<1>1. /\ UNCHANGED <<named, inode, swaps>> /\ opener[o].at = "check" /\ opener[o].fd # 0
      /\ OpenerTo(o, IF Path(o) = opener[o].fd THEN "repair" ELSE "refused")
  BY DEF CheckPath, Is, FilesTypes
<1>2. swaps = 0 => opener[o].fd = Path(o) /\ Path(o) # 0 /\ Ours(Path(o))
  BY <1>1 DEF SharedInv, Opened
<1>3. CASE Path(o) = opener[o].fd
  BY <1>1, <1>2, <1>3, OpenerGoes DEF OpenerPCs
<1>4. CASE Path(o) # opener[o].fd
  <2>1. OpenerTo(o, "refused") /\ swaps # 0
    BY <1>1, <1>2, <1>4
  <2> QED
    BY <1>1, <2>1, OpenerGoes DEF OpenerPCs
<1> QED
  BY <1>3, <1>4

\* A file becomes private: as long as it was ours, this changes nobody's view.
LEMMA RepairSteps ==
  ASSUME FilesTypes, SharedInv, NEW o \in Openers, NEW at \in OpenerPCs, OpenerTo(o, at),
         NEW f \in DOMAIN inode, inode' = [inode EXCEPT ![f] = "private"],
         UNCHANGED <<named, swaps>>, at # "look", at # "open",
         at \in {"check", "repair", "ready"} => opener[o].fd # 0,
         swaps = 0 =>
           /\ Ours(f) /\ at # "refused" /\ Path(o) # 0
           /\ at \in Opened => opener[o].fd = Path(o) /\ Ours(Path(o))
  PROVE  FilesTypes' /\ SharedInv'
<1>1. PICK c \in OpenerStates: /\ opener' = [opener EXCEPT ![o] = c]
                               /\ c.at = at /\ c.saw = opener[o].saw
                               /\ c.fd = opener[o].fd /\ c.lost = opener[o].lost
  BY OpenerIs
<1>2. inode' \in [DOMAIN inode -> InodeKinds]
  BY DEF FilesTypes, InodeKinds
<1>3. swaps = 0 => \A g \in DOMAIN inode: inode'[g] = "foreign" <=> inode[g] = "foreign"
  BY DEF FilesTypes, Ours
<1>4. swaps = 0 => FairOpener(o, c)
  BY <1>1 DEF FairOpener
<1> QED
  BY <1>1, <1>2, <1>3, <1>4, OpenerMoves

\* It repairs the mode, or hands the path to SQLite or to the log sink.
LEMMA UseSteps ==
  ASSUME FilesTypes, SharedInv, NEW o \in Openers,
         \/ RepairMode(o) \/ SqliteOpens(o) \/ Revalidate(o) \/ SinkStarts(o)
  PROVE  FilesTypes' /\ SharedInv'
<1>1. opener[o].at \in Opened /\ swaps = 0 =>
        opener[o].fd = Path(o) /\ Path(o) # 0 /\ Ours(Path(o))
  BY DEF SharedInv
<1>2. CASE RepairMode(o)
  <2>1. /\ opener[o].at = "repair" /\ opener[o].fd # 0 /\ opener[o].fd \in DOMAIN inode
        /\ inode' = [inode EXCEPT ![opener[o].fd] = "private"]
        /\ OpenerTo(o, IF Path(o) = opener[o].fd THEN "ready" ELSE "refused")
        /\ UNCHANGED <<named, swaps>>
    BY <1>2 DEF RepairMode, Is, FilesTypes
  <2>2. CASE Path(o) = opener[o].fd
    BY <1>1, <2>1, <2>2, RepairSteps DEF OpenerPCs, Opened
  <2>3. CASE Path(o) # opener[o].fd
    <3>1. OpenerTo(o, "refused") /\ swaps # 0
      BY <1>1, <2>1, <2>3 DEF Opened
    <3> QED
      BY <2>1, <3>1, RepairSteps DEF OpenerPCs
  <2> QED
    BY <2>2, <2>3
<1>3. CASE SqliteOpens(o)
  <2>1. opener[o].at = "ready" /\ UNCHANGED <<named, inode, swaps>>
    BY <1>3 DEF SqliteOpens, Is
  <2>2. CASE Path(o) = 0 \/ ~Ours(Path(o))
    <3>1. OpenerTo(o, "refused") /\ swaps # 0
      BY <1>1, <1>3, <2>1, <2>2 DEF SqliteOpens, Opened
    <3> QED
      BY <2>1, <3>1, OpenerGoes DEF OpenerPCs
  <2>3. CASE ~(Path(o) = 0 \/ ~Ours(Path(o)))
    <3> DEFINE c == [opener[o] EXCEPT !.at = "in", !.fd = Path(o)]
    <3>1. opener' = [opener EXCEPT ![o].at = "in", ![o].fd = Path(o)]
      BY <1>3, <2>3 DEF SqliteOpens
    <3>2. opener' = [opener EXCEPT ![o] = c]
      BY <3>1 DEF FilesTypes
    <3>3. Path(o) \in DOMAIN inode \cup {0} /\ opener[o] \in OpenerStates
      BY DEF FilesTypes, Path, PathOf, OpenerStates
    <3>4. c \in OpenerStates /\ c.at = "in" /\ c.fd = Path(o) /\ c.lost = opener[o].lost
      BY <3>3 DEF OpenerStates, OpenerPCs
    <3> HIDE DEF c
    <3>5. inode' \in [DOMAIN inode -> InodeKinds]
      BY <2>1 DEF FilesTypes
    <3>6. swaps = 0 => FairOpener(o, c)
      BY <2>3, <3>4 DEF FairOpener
    <3> QED
      BY <2>1, <3>2, <3>4, <3>5, <3>6, OpenerMoves
  <2> QED
    BY <2>2, <2>3
<1>4. CASE Revalidate(o)
  <2>1. opener[o].at = "in" /\ UNCHANGED <<named, swaps>>
    BY <1>4 DEF Revalidate, Is
  <2>2. CASE Path(o) # 0 /\ Ours(Path(o))
    <3>1. OpenerTo(o, "confirmed") /\ inode' = [inode EXCEPT ![Path(o)] = "private"]
      BY <1>4, <2>2 DEF Revalidate
    <3>2. Path(o) \in DOMAIN inode
      BY <2>2 DEF FilesTypes, Path, PathOf
    <3> QED
      BY <1>1, <2>1, <2>2, <3>1, <3>2, RepairSteps DEF OpenerPCs, Opened
  <2>3. CASE ~(Path(o) # 0 /\ Ours(Path(o)))
    <3>1. OpenerTo(o, "refused") /\ UNCHANGED inode /\ swaps # 0
      BY <1>1, <1>4, <2>1, <2>3 DEF Revalidate, Opened
    <3> QED
      BY <2>1, <3>1, OpenerGoes DEF OpenerPCs
  <2> QED
    BY <2>2, <2>3
<1>5. CASE SinkStarts(o)
  <2>1. /\ opener[o].at = "ready" /\ UNCHANGED <<named, inode, swaps>> /\ o \in LogOpeners
        /\ OpenerTo(o, "confirmed") \/ OpenerTo(o, "refused")
    BY <1>5 DEF SinkStarts, Is
  <2>2. o \notin DbOpeners
    BY <2>1, FilesAssumption
  <2> QED
    BY <1>1, <2>1, <2>2, OpenerGoes DEF OpenerPCs, Opened
<1> QED
  BY <1>2, <1>3, <1>4, <1>5

\* A new file at a path: the files there were keep their numbers and modes.
LEMMA NewFileIs ==
  ASSUME FilesTypes, NEW p \in {"db", "log"}, NEW kind \in InodeKinds, NewFile(p, kind)
  PROVE  \E n \in Nat: /\ DOMAIN inode = 1..n /\ DOMAIN inode' = 1..n + 1
                       /\ inode' \in [1..n + 1 -> InodeKinds]
                       /\ \A f \in 1..n: inode'[f] = inode[f]
                       /\ inode'[n + 1] = kind
                       /\ named' = [named EXCEPT ![p] = n + 1] /\ FileCount = n
<1>1. PICK n \in Nat: DOMAIN inode = 1..n
  BY DEF FilesTypes
<1>2. FileCount = n
  BY <1>1, CountIs
<1>3. /\ inode' = [f \in 1..(n + 1) |-> IF f \in 1..n THEN inode[f] ELSE kind]
      /\ named' = [named EXCEPT ![p] = n + 1]
  BY <1>1, <1>2 DEF NewFile
<1>4. inode' \in [1..n + 1 -> InodeKinds]
  BY <1>1, <1>3 DEF FilesTypes
<1>5. /\ DOMAIN inode' = 1..n + 1 /\ inode'[n + 1] = kind
      /\ \A f \in 1..n: inode'[f] = inode[f]
  BY <1>3
<1> QED
  BY <1>1, <1>2, <1>3, <1>4, <1>5

\* It creates the file, or finds that another one did and looks again.
LEMMA CreateSteps ==
  ASSUME FilesTypes, SharedInv, NEW o \in Openers, CreateFile(o)
  PROVE  FilesTypes' /\ SharedInv'
<1>1. opener[o].at = "open" /\ opener[o].saw = 0 /\ UNCHANGED swaps
  BY DEF CreateFile, Is
<1>2. swaps = 0 => opener[o].lost = 0
  BY <1>1 DEF SharedInv
<1>3. CASE Path(o) = 0 /\ NewFile(PathOf(o), "private")
           /\ opener' = [opener EXCEPT ![o].at = "check", ![o].fd = FileCount + 1]
  <2> DEFINE p == PathOf(o)
  <2>1. PICK n \in Nat: /\ DOMAIN inode = 1..n /\ DOMAIN inode' = 1..n + 1
                        /\ inode' \in [1..n + 1 -> InodeKinds]
                        /\ \A f \in 1..n: inode'[f] = inode[f]
                        /\ inode'[n + 1] = "private"
                        /\ named' = [named EXCEPT ![p] = n + 1] /\ FileCount = n
    BY <1>3, NewFileIs DEF PathOf, InodeKinds
  <2>2. p \in {"db", "log"}
    BY DEF PathOf
  <2>3. named' \in [{"db", "log"} -> 0..n + 1] /\ named'[p] = n + 1
        /\ \A q \in {"db", "log"}: q # p => named'[q] = named[q]
    BY <2>1, <2>2 DEF FilesTypes
  <2> DEFINE c == [opener[o] EXCEPT !.at = "check", !.fd = n + 1]
             S == [at: OpenerPCs, saw: 0..n + 1, fd: 0..n + 1, lost: 0..CreateRetries]
  <2>4. opener' = [opener EXCEPT ![o] = c]
    BY <1>3, <2>1 DEF FilesTypes
  <2>5. \A q \in Openers: opener[q] \in S
    BY <2>1 DEF FilesTypes
  <2>6. c \in S /\ c.at = "check" /\ c.fd = n + 1 /\ c.lost = opener[o].lost
    <3>1. opener[o] \in S /\ n + 1 \in 0..n + 1
      BY <2>5
    <3> QED
      BY <3>1 DEF OpenerPCs
  <2> HIDE DEF c, S
  <2>7. opener' \in [Openers -> S] /\ \A q \in Openers: opener'[q] = IF q = o THEN c ELSE opener[q]
    BY <2>4, <2>5, <2>6 DEF FilesTypes
  <2>8. DOMAIN inode' \cup {0} = 0..n + 1 /\ n + 1 \in Nat
    BY <2>1
  <2>9. FilesTypes'
    <3>1. opener' \in [Openers -> [at: OpenerPCs, saw: DOMAIN inode' \cup {0},
                                   fd: DOMAIN inode' \cup {0}, lost: 0..CreateRetries]]
      BY <2>7, <2>8 DEF S
    <3>2. \E m \in Nat: DOMAIN inode' = 1..m
      BY <2>1, <2>8
    <3>3. \A q \in Openers: opener'[q].at \in {"check", "repair", "ready"} => opener'[q].fd # 0
      <4>1. \A q \in Openers: opener[q].at \in {"check", "repair", "ready"} => opener[q].fd # 0
        BY DEF FilesTypes
      <4>2. n + 1 # 0
        BY <2>1
      <4> QED
        BY <2>6, <2>7, <4>1, <4>2
    <3>4. named' \in [{"db", "log"} -> DOMAIN inode' \cup {0}]
      BY <2>3, <2>8
    <3>5. inode' \in [DOMAIN inode' -> InodeKinds] /\ swaps' \in 0..MaxSwaps
      BY <1>1, <2>1 DEF FilesTypes
    <3> QED
      BY <3>1, <3>2, <3>3, <3>4, <3>5 DEF FilesTypes
  <2>10. ASSUME swaps = 0
         PROVE  SharedInv'
    <3>1. \A q \in Openers: /\ PathOf(q) = p => Path(q) = 0 /\ Path(q)' = n + 1
                            /\ PathOf(q) # p => Path(q)' = Path(q)
      BY <1>3, <2>3 DEF Path, PathOf
    <3>2. \A q \in Openers: Path(q) # 0 => (Ours(Path(q)))' = Ours(Path(q)) \/ PathOf(q) = p
      BY <2>1, <3>1 DEF FilesTypes, Path, PathOf, Ours
    <3>3. (Ours(n + 1))'
      BY <2>1 DEF Ours
    <3>4. named'["db"] # 0 => named'["db"] # named'["log"]
      BY <2>1, <2>2, <2>3, <2>10 DEF FilesTypes, SharedInv
    <3>5. ASSUME NEW q \in Openers
          PROVE  /\ opener'[q].at = "open" /\ opener'[q].saw # 0
                      => opener'[q].saw = Path(q)' /\ (Ours(Path(q)))'
                 /\ opener'[q].at \in Opened
                      => opener'[q].fd = Path(q)' /\ Path(q)' # 0 /\ (Ours(Path(q)))'
                 /\ Path(q)' = 0 \/ (opener'[q].at = "open" /\ opener'[q].saw = 0)
                      => opener'[q].lost = 0
      <4>1. CASE q = o
        BY <1>2, <2>6, <2>7, <2>10, <3>1, <3>3, <4>1 DEF Ours
      <4>2. CASE q # o /\ PathOf(q) = p
        BY <2>7, <2>10, <3>1, <4>2 DEF SharedInv
      <4>3. CASE q # o /\ PathOf(q) # p
        <5>1. /\ opener[q].at = "open" /\ opener[q].saw # 0
                   => opener[q].saw = Path(q) /\ Ours(Path(q))
              /\ opener[q].at \in Opened
                   => opener[q].fd = Path(q) /\ Path(q) # 0 /\ Ours(Path(q))
              /\ Path(q) = 0 \/ (opener[q].at = "open" /\ opener[q].saw = 0)
                   => opener[q].lost = 0
          BY <2>10 DEF SharedInv
        <5>2. opener'[q] = opener[q] /\ Path(q)' = Path(q)
          BY <2>7, <3>1, <4>3
        <5>3. Path(q) # 0 => (Ours(Path(q)))' = Ours(Path(q))
          BY <3>2, <4>3
        <5> QED
          BY <5>1, <5>2, <5>3
      <4> QED
        BY <4>1, <4>2, <4>3
    <3>6. ASSUME NEW q \in DbOpeners, opener'[q].at = "refused"
          PROVE  named'["db"] # 0 /\ (~Ours(named["db"]))'
      <4>1. q \in Openers /\ PathOf(q) = "db" /\ Path(q) = named["db"]
        BY DEF Openers, PathOf, Path
      <4>2. opener[q].at = "refused" /\ named["db"] # 0 /\ ~Ours(named["db"])
        BY <2>6, <2>7, <2>10, <3>6, <4>1 DEF SharedInv
      <4>3. p # "db"
        BY <3>1, <4>1, <4>2
      <4>4. named'["db"] = named["db"] /\ named["db"] \in 1..n
        BY <2>1, <2>3, <4>2, <4>3 DEF FilesTypes
      <4> QED
        BY <2>1, <4>2, <4>4 DEF Ours
    <3> QED
      BY <3>4, <3>5, <3>6 DEF SharedInv
  <2>11. swaps # 0 => SharedInv'
    BY <1>1 DEF SharedInv
  <2> QED
    BY <2>9, <2>10, <2>11
<1>4. CASE Path(o) # 0 /\ UNCHANGED <<named, inode>>
           /\ IF o \in DbOpeners /\ opener[o].lost < CreateRetries
              THEN opener' = [opener EXCEPT ![o].at = "look", ![o].lost = @ + 1]
              ELSE OpenerTo(o, "refused")
  <2>1. CASE o \in DbOpeners /\ opener[o].lost < CreateRetries
    <3> DEFINE c == [opener[o] EXCEPT !.at = "look", !.lost = @ + 1]
    <3>1. opener' = [opener EXCEPT ![o].at = "look", ![o].lost = @ + 1]
      BY <1>4, <2>1
    <3>2. opener' = [opener EXCEPT ![o] = c]
      BY <3>1 DEF FilesTypes
    <3>3. opener[o] \in OpenerStates
      BY DEF FilesTypes, OpenerStates
    <3>4. opener[o].lost + 1 \in 0..CreateRetries
      BY <2>1, <3>3, FilesAssumption DEF OpenerStates
    <3>5. c \in OpenerStates /\ c.at = "look"
      BY <3>3, <3>4 DEF OpenerStates, OpenerPCs
    <3> HIDE DEF c
    <3>6. inode' \in [DOMAIN inode -> InodeKinds]
      BY <1>4 DEF FilesTypes
    <3>7. FairOpener(o, c)
      BY <1>4, <3>5 DEF FairOpener, Opened
    <3> QED
      BY <1>1, <1>4, <3>2, <3>5, <3>6, <3>7, OpenerMoves
  <2>2. CASE ~(o \in DbOpeners /\ opener[o].lost < CreateRetries)
    <3>1. OpenerTo(o, "refused")
      BY <1>4, <2>2
    <3>2. swaps = 0 => o \notin DbOpeners
      BY <1>2, <2>2, FilesAssumption
    <3> QED
      BY <1>1, <1>4, <3>1, <3>2, OpenerGoes DEF OpenerPCs, Opened
  <2> QED
    BY <2>1, <2>2
<1> QED
  BY <1>3, <1>4 DEF CreateFile

\* Somebody else touches a path: nothing is promised from then on.
LEMMA SwapSteps ==
  ASSUME FilesTypes, SharedInv, SwapFile
  PROVE  FilesTypes' /\ SharedInv'
<1>1. swaps' = swaps + 1 /\ swaps < MaxSwaps /\ UNCHANGED opener
  BY DEF SwapFile
<1>2. swaps' \in 0..MaxSwaps /\ swaps' # 0
  BY <1>1, FilesAssumption DEF FilesTypes
<1>3. SharedInv'
  BY <1>2 DEF SharedInv
<1>4. ASSUME NEW p \in {"db", "log"}, named' = [named EXCEPT ![p] = 0], UNCHANGED inode
      PROVE  FilesTypes'
  BY <1>1, <1>2, <1>4 DEF FilesTypes
<1>5. ASSUME NEW p \in {"db", "log"}, NEW kind \in {"loose", "foreign"}, NewFile(p, kind)
      PROVE  FilesTypes'
  <2>1. PICK n \in Nat: /\ DOMAIN inode = 1..n /\ DOMAIN inode' = 1..n + 1
                        /\ inode' \in [1..n + 1 -> InodeKinds]
                        /\ named' = [named EXCEPT ![p] = n + 1]
    BY <1>5, NewFileIs DEF InodeKinds
  <2>2. named' \in [{"db", "log"} -> DOMAIN inode' \cup {0}]
    BY <2>1 DEF FilesTypes
  <2>3. DOMAIN inode \cup {0} \subseteq DOMAIN inode' \cup {0}
    BY <2>1
  <2>4. opener' \in [Openers -> [at: OpenerPCs, saw: DOMAIN inode' \cup {0},
                                 fd: DOMAIN inode' \cup {0}, lost: 0..CreateRetries]]
    BY <1>1, <2>3 DEF FilesTypes
  <2>5. \E m \in Nat: DOMAIN inode' = 1..m
    BY <2>1
  <2>6. inode' \in [DOMAIN inode' -> InodeKinds]
    BY <2>1
  <2> QED
    BY <1>1, <1>2, <2>2, <2>4, <2>5, <2>6 DEF FilesTypes
<1>6. ASSUME NEW p \in {"db", "log"}, named[p] # 0,
             inode' = [inode EXCEPT ![named[p]] = "loose"], UNCHANGED named
      PROVE  FilesTypes'
  <2>1. DOMAIN inode' = DOMAIN inode /\ inode' \in [DOMAIN inode -> InodeKinds]
    BY <1>6 DEF FilesTypes, InodeKinds
  <2> QED
    BY <1>1, <1>2, <1>6, <2>1 DEF FilesTypes
<1> QED
  BY <1>3, <1>4, <1>5, <1>6 DEF SwapFile

\* The invariant of the private files is inductive.
LEMMA FilesSteps ==
  ASSUME FilesTypes, SharedInv, FilesNext
  PROVE  FilesTypes' /\ SharedInv'
<1>1. CASE SwapFile
  BY <1>1, SwapSteps
<1>2. ASSUME NEW o \in Openers,
             \/ DatabaseLooks(o) \/ DatabaseStep(o) \/ SqliteOpens(o) \/ Revalidate(o)
             \/ LogLooks(o) \/ LogStep(o) \/ SinkStarts(o)
      PROVE  FilesTypes' /\ SharedInv'
  <2>1. \/ LookAt(o) \/ CreateFile(o) \/ OpenFile(o) \/ CheckPath(o) \/ RepairMode(o)
        \/ SqliteOpens(o) \/ Revalidate(o) \/ SinkStarts(o)
    BY <1>2 DEF DatabaseLooks, DatabaseStep, LogLooks, LogStep
  <2> QED
    BY <2>1, LookSteps, CreateSteps, OpenSteps, CheckSteps, UseSteps
<1> QED
  BY <1>1, <1>2 DEF FilesNext

------------------------------------------------------------------------------
\* Browsers on hosts (host_browser.rs)

ChromeStates == [boot: {"off", "shell", "exec", "up"}, life: Int, file: Int]
Drafts == [gen: Nat, host: BHosts, dest: Int, slug: Slugs, port: Int,
           mac: MacPorts \cup {0}]
Bridges == {e \in Drafts: e.gen # 0 /\ e.mac \in MacPorts}
BopPCs == {"idle", "start", "port", "tunnel", "register", "resolve", "stop",
           "connect", "retire", "forget", "done"}
BopKinds == {"", "start", "status", "stop", "connect"}
BopStates == [pc: BopPCs, kind: BopKinds, host: BHosts \cup {""},
              slug: Slugs \cup {""}, entry: Drafts \cup {NoEntry}]

BrowserTypes ==
  /\ hostDest \in [BHosts -> 0..MaxDest]
  /\ chrome \in [Places -> ChromeStates]
  /\ reg \in [Slugs -> Bridges \cup {NoEntry}]
  /\ lifeLease \in [BHosts -> BOps \cup {"free"}]
  /\ bop \in [BOps -> BopStates]
  /\ bCount \in [gen: Nat, life: Int, drops: Int]

\* What a request may rely on at each of its steps: the lease of its host
\* while it works there, and, once its entry is forgotten, that no other entry
\* of that place is registered.
OpInv(o) ==
  /\ bop[o].pc = "start" => bop[o].host \in BHosts /\ bop[o].slug \in Slugs
  /\ bop[o].pc \in {"port", "tunnel", "register", "retire", "forget"} =>
       bop[o].host \in BHosts /\ lifeLease[bop[o].host] = o
  /\ bop[o].pc = "port" => bop[o].slug \in Slugs /\ hostDest[bop[o].host] # 0
  /\ bop[o].pc \in {"tunnel", "register"} =>
       bop[o].entry \in Drafts /\ bop[o].entry.host = bop[o].host
  /\ bop[o].pc = "register" => bop[o].entry.mac \in MacPorts
  /\ bop[o].pc \in {"resolve", "stop", "connect", "forget"} => bop[o].entry \in Bridges
  /\ bop[o].pc = "resolve" => bop[o].kind \in {"status", "stop", "connect"}
  /\ bop[o].pc \in {"stop", "connect"} => lifeLease[bop[o].entry.host] = o
  /\ bop[o].pc = "stop" =>
       \/ reg[bop[o].entry.slug] = NoEntry
       \/ reg[bop[o].entry.slug].host # bop[o].entry.host

BrowserInv ==
  /\ \A s \in Slugs: reg[s] # NoEntry => reg[s].slug = s
  /\ \A o \in BOps: OpInv(o)
  /\ KillSparesReplacement

\* A registered bridge is not the empty entry.
LEMMA NoEntryIs == \A e \in Bridges: e # NoEntry /\ e.gen # 0 /\ e \in Drafts
<1> SUFFICES ASSUME NEW e \in Bridges
             PROVE  e # NoEntry /\ e.gen # 0 /\ e \in Drafts
  OBVIOUS
<1>1. e.gen # 0 /\ NoEntry.gen = 0 /\ e \in Drafts
  BY DEF Bridges, NoEntry
<1> QED
  BY <1>1

\* A step of one request: what the others rely on stays.
LEMMA OneRequest ==
  ASSUME BrowserTypes, BrowserInv, BrowserTypes', NEW o \in BOps,
         \A q \in BOps \ {o}: bop'[q] = bop[q],
         \A h \in BHosts: lifeLease[h] \notin {o, "free"} => lifeLease'[h] = lifeLease[h],
         \A s \in Slugs: \/ reg'[s] = reg[s]
                         \/ reg'[s] = NoEntry
                         \/ reg'[s].slug = s /\ lifeLease[reg'[s].host] = o,
         \A h \in BHosts: hostDest'[h] = hostDest[h] \/ lifeLease[h] = o,
         OpInv(o)', KillSparesReplacement'
  PROVE  BrowserInv'
<1>1. \A s \in Slugs: reg'[s] # NoEntry => reg'[s].slug = s
  BY DEF BrowserInv
<1>2. ASSUME NEW q \in BOps
      PROVE  OpInv(q)'
  <2>1. CASE q = o
    BY <2>1
  <2>2. CASE q # o
    <3>1. bop'[q] = bop[q] /\ OpInv(q) /\ bop[q] \in BopStates /\ q # "free"
      BY <2>2, BrowserAssumption DEF BrowserInv, BrowserTypes
    <3>2. \A h \in BHosts: lifeLease[h] = q => lifeLease'[h] = q /\ hostDest'[h] = hostDest[h]
      BY <2>2, <3>1
    <3>3. bop[q].pc \in {"stop", "connect"} =>
            bop[q].entry.host \in BHosts /\ bop[q].entry.slug \in Slugs
      BY <3>1 DEF OpInv, Bridges, Drafts
    <3>4. bop[q].pc = "stop" =>
            \/ reg'[bop[q].entry.slug] = NoEntry
            \/ reg'[bop[q].entry.slug].host # bop[q].entry.host
      BY <2>2, <3>1, <3>3 DEF OpInv
    <3> QED
      BY <3>1, <3>2, <3>3, <3>4 DEF OpInv
  <2> QED
    BY <2>1, <2>2
<1> QED
  BY <1>1, <1>2 DEF BrowserInv

\* A request that ends gives its leases back and takes nobody else's.
LEMMA BopEnds ==
  ASSUME BrowserTypes, NEW o \in BOps, OpEnds(o)
  PROVE  /\ bop' \in [BOps -> BopStates] /\ bop'[o].pc = "done"
         /\ \A q \in BOps \ {o}: bop'[q] = bop[q]
         /\ lifeLease' \in [BHosts -> BOps \cup {"free"}]
         /\ \A h \in BHosts: lifeLease[h] \notin {o, "free"} => lifeLease'[h] = lifeLease[h]
<1> DEFINE r == [NoBrowserOp EXCEPT !.pc = "done"]
<1>1. r \in BopStates /\ r.pc = "done"
  BY DEF NoBrowserOp, BopStates, BopPCs, BopKinds
<1> HIDE DEF r
<1>2. bop' = [bop EXCEPT ![o] = r]
  BY DEF OpEnds, r
<1>3. lifeLease' = [h \in BHosts |-> IF lifeLease[h] = o THEN "free" ELSE lifeLease[h]]
  BY DEF OpEnds
<1> QED
  BY <1>1, <1>2, <1>3 DEF BrowserTypes

\* A request that is over relies on nothing.
LEMMA DoneNeedsNothing ==
  ASSUME NEW o \in BOps, bop'[o].pc = "done"
  PROVE  OpInv(o)'
  BY DEF OpInv

\* A request that ends and leaves the other variables typed.
LEMMA RequestEnds ==
  ASSUME BrowserTypes, BrowserInv, NEW o \in BOps, OpEnds(o),
         hostDest' \in [BHosts -> 0..MaxDest],
         chrome' \in [Places -> ChromeStates],
         reg' \in [Slugs -> Bridges \cup {NoEntry}],
         bCount' \in [gen: Nat, life: Int, drops: Int],
         \A s \in Slugs: \/ reg'[s] = reg[s]
                         \/ reg'[s] = NoEntry
                         \/ reg'[s].slug = s /\ lifeLease[reg'[s].host] = o,
         \A h \in BHosts: hostDest'[h] = hostDest[h] \/ lifeLease[h] = o,
         KillSparesReplacement'
  PROVE  BrowserTypes' /\ BrowserInv'
<1>1. BrowserTypes'
  BY BopEnds DEF BrowserTypes
<1> QED
  BY <1>1, BopEnds, DoneNeedsNothing, OneRequest

\* A request that goes on, its host's lease taken or kept.
LEMMA RequestGoes ==
  ASSUME BrowserTypes, BrowserInv, NEW o \in BOps, NEW r \in BopStates,
         bop' = [bop EXCEPT ![o] = r],
         chrome' \in [Places -> ChromeStates], UNCHANGED <<hostDest, bCount>>,
         lifeLease' \in [BHosts -> BOps \cup {"free"}],
         \A h \in BHosts: lifeLease[h] \notin {o, "free"} => lifeLease'[h] = lifeLease[h],
         reg' \in [Slugs -> Bridges \cup {NoEntry}],
         \A s \in Slugs: reg'[s] = reg[s] \/ reg'[s] = NoEntry,
         OpInv(o)', KillSparesReplacement'
  PROVE  BrowserTypes' /\ BrowserInv'
<1>1. bop' \in [BOps -> BopStates] /\ \A q \in BOps \ {o}: bop'[q] = bop[q]
  BY DEF BrowserTypes
<1>2. BrowserTypes'
  BY <1>1 DEF BrowserTypes
<1> QED
  BY <1>1, <1>2, OneRequest

\* Forgetting an entry removes it, or leaves the entry that replaced it.
LEMMA ForgetIs ==
  ASSUME BrowserTypes, BrowserInv, NEW e \in Bridges
  PROVE  /\ Forget(e) \in [Slugs -> Bridges \cup {NoEntry}]
         /\ \A s \in Slugs: Forget(e)[s] = reg[s] \/ Forget(e)[s] = NoEntry
         /\ SameEntry(e) => Forget(e)[e.slug] = NoEntry
<1>1. e.slug \in Slugs
  BY DEF Bridges, Drafts
<1> QED
  BY <1>1 DEF Forget, BrowserTypes

\* A step that kills no browser.
LEMMA NoNewKill ==
  ASSUME BrowserInv, UNCHANGED bEffect
  PROVE  KillSparesReplacement'
  BY DEF BrowserInv, KillSparesReplacement

\* The record of a request.
LEMMA BopIs ==
  ASSUME BrowserTypes, NEW o \in BOps
  PROVE  bop[o] \in BopStates
  BY DEF BrowserTypes

\* The record of a request after a step to pc.
LEMMA GoesIs ==
  ASSUME BrowserTypes, NEW o \in BOps, NEW at \in BopPCs, OpGoes(o, at)
  PROVE  \E r \in BopStates:
           /\ bop' = [bop EXCEPT ![o] = r] /\ bop'[o] = r
           /\ r.pc = at /\ r.kind = bop[o].kind /\ r.host = bop[o].host
           /\ r.slug = bop[o].slug /\ r.entry = bop[o].entry
<1> DEFINE r == [bop[o] EXCEPT !.pc = at]
<1>1. bop' = [bop EXCEPT ![o] = r] /\ bop'[o] = r
  BY DEF OpGoes, BrowserTypes
<1>2. /\ r \in BopStates /\ r.pc = at /\ r.kind = bop[o].kind /\ r.host = bop[o].host
      /\ r.slug = bop[o].slug /\ r.entry = bop[o].entry
  BY BopIs DEF BopStates
<1> QED
  BY <1>1, <1>2

\* The steps of a start.
LEMMA StartMoves ==
  ASSUME BrowserTypes, BrowserInv, NEW o \in BOps, StartSteps(o)
  PROVE  BrowserTypes' /\ BrowserInv'
<1>1. ASSUME NEW h \in BHosts, NEW s \in Slugs, StartBegins(o, h, s)
      PROVE  BrowserTypes' /\ BrowserInv'
  <2> DEFINE r == [NoBrowserOp EXCEPT !.pc = "start", !.kind = "start", !.host = h, !.slug = s]
  <2>1. bop' = [bop EXCEPT ![o] = r]
    BY <1>1 DEF StartBegins
  <2>2. /\ r \in BopStates /\ r.pc = "start" /\ r.host = h /\ r.slug = s
    BY DEF NoBrowserOp, BopStates, BopPCs, BopKinds
  <2> HIDE DEF r
  <2>3. bop'[o] = r
    BY <2>1 DEF BrowserTypes
  <2>4. OpInv(o)'
    BY <2>2, <2>3 DEF OpInv
  <2>5. UNCHANGED <<hostDest, chrome, reg, lifeLease, bCount, bEffect>>
    BY <1>1 DEF StartBegins
  <2> QED
    BY <2>1, <2>2, <2>4, <2>5, NoNewKill, RequestGoes DEF BrowserTypes
<1>2. CASE LaunchHostBrowser(o)
  <2> DEFINE h == bop[o].host
             p == <<h, hostDest[h], bop[o].slug>>
  <2>1. /\ bop[o].pc = "start" /\ lifeLease[h] = "free" /\ h \in BHosts /\ bop[o].slug \in Slugs
        /\ UNCHANGED <<hostDest, reg, bCount, bEffect>>
    BY <1>2 DEF LaunchHostBrowser, OpAt, BrowserInv, OpInv
  <2>2. CASE OpEnds(o) /\ UNCHANGED chrome
    BY <2>1, <2>2, NoNewKill, RequestEnds DEF BrowserTypes
  <2>3. CASE /\ hostDest[h] # 0 /\ lifeLease' = [lifeLease EXCEPT ![h] = o]
             /\ OpGoes(o, "port")
             /\ chrome' = IF chrome[p].boot # "off" THEN chrome
                          ELSE [chrome EXCEPT ![p].boot = "shell"]
    <3>1. PICK r \in BopStates:
            /\ bop' = [bop EXCEPT ![o] = r] /\ bop'[o] = r
            /\ r.pc = "port" /\ r.host = h /\ r.slug = bop[o].slug
      BY <2>3, GoesIs DEF BopPCs
    <3>2. chrome' \in [Places -> ChromeStates]
      BY <2>3 DEF BrowserTypes, ChromeStates
    <3>3. lifeLease' \in [BHosts -> BOps \cup {"free"}] /\ lifeLease'[h] = o
      BY <2>1, <2>3 DEF BrowserTypes
    <3>4. \A g \in BHosts: lifeLease[g] \notin {o, "free"} => lifeLease'[g] = lifeLease[g]
      BY <2>1, <2>3 DEF BrowserTypes
    <3>5. OpInv(o)'
      BY <2>1, <2>3, <3>1, <3>3 DEF OpInv
    <3> HIDE DEF h, p
    <3> QED
      BY <2>1, <3>1, <3>2, <3>3, <3>4, <3>5, NoNewKill, RequestGoes DEF BrowserTypes
  <2> QED
    BY <1>2, <2>2, <2>3 DEF LaunchHostBrowser
<1>3. CASE AwaitCdpPort(o)
  <2> DEFINE h == bop[o].host
             p == <<h, hostDest[h], bop[o].slug>>
  <2>1. /\ bop[o].pc = "port" /\ h \in BHosts /\ bop[o].slug \in Slugs /\ hostDest[h] # 0
        /\ lifeLease[h] = o /\ UNCHANGED <<hostDest, chrome, reg, bCount, bEffect>>
    BY <1>3 DEF AwaitCdpPort, OpAt, BrowserInv, OpInv
  <2>2. CASE OpEnds(o)
    BY <2>1, <2>2, NoNewKill, RequestEnds DEF BrowserTypes
  <2>3. CASE /\ bop' = [bop EXCEPT ![o].pc = "tunnel", ![o].entry =
                          [gen |-> 0, host |-> h, dest |-> hostDest[h],
                           slug |-> bop[o].slug, port |-> chrome[p].file, mac |-> 0]]
             /\ UNCHANGED lifeLease
    <3> DEFINE e == [gen |-> 0, host |-> h, dest |-> hostDest[h],
                     slug |-> bop[o].slug, port |-> chrome[p].file, mac |-> 0]
               r == [bop[o] EXCEPT !.pc = "tunnel", !.entry = e]
    <3>1. bop' = [bop EXCEPT ![o] = r]
      BY <2>3 DEF BrowserTypes
    <3>2. hostDest[h] \in 1..MaxDest
      BY <2>1, BrowserAssumption DEF BrowserTypes
    <3>3. p \in Places
      BY <2>1, <3>2 DEF Places
    <3>4. chrome[p].file \in Int
      BY <3>3 DEF BrowserTypes, ChromeStates
    <3>5. e \in Drafts /\ e.host = h
      BY <2>1, <3>2, <3>4 DEF Drafts
    <3> HIDE DEF e
    <3>6. r \in BopStates /\ r.pc = "tunnel" /\ r.host = h /\ r.entry = e
      BY <3>5, BopIs DEF BopStates, BopPCs
    <3> HIDE DEF r
    <3>7. bop'[o] = r
      BY <3>1 DEF BrowserTypes
    <3>8. OpInv(o)'
      BY <2>1, <2>3, <3>5, <3>6, <3>7 DEF OpInv
    <3> HIDE DEF h, p
    <3> QED
      BY <2>1, <2>3, <3>1, <3>6, <3>8, NoNewKill, RequestGoes DEF BrowserTypes
  <2> QED
    BY <1>3, <2>2, <2>3 DEF AwaitCdpPort
<1>4. CASE EnsureForwardTunnel(o)
  <2> DEFINE e == bop[o].entry
             spec == [host |-> e.host, dest |-> e.dest, slug |-> e.slug, life |-> e.port]
             usable == {n \in MacPorts: fwd[n] \in {NoFwd, spec}}
             n == CHOOSE k \in usable: \A j \in usable: k <= j
  <2>1. /\ bop[o].pc = "tunnel" /\ e \in Drafts /\ e.host = bop[o].host
        /\ bop[o].host \in BHosts /\ lifeLease[bop[o].host] = o
        /\ UNCHANGED <<hostDest, chrome, reg, bCount, bEffect>>
    BY <1>4 DEF EnsureForwardTunnel, OpAt, BrowserInv, OpInv
  <2>2. CASE usable = {}
    <3>1. OpEnds(o)
      BY <1>4, <2>2 DEF EnsureForwardTunnel
    <3> QED
      BY <2>1, <3>1, NoNewKill, RequestEnds DEF BrowserTypes
  <2>3. CASE usable # {}
    <3>1. bop' = [bop EXCEPT ![o].pc = "register", ![o].entry.mac = n] /\ UNCHANGED lifeLease
      BY <1>4, <2>3 DEF EnsureForwardTunnel
    <3>2. usable \in SUBSET Nat
      BY BrowserAssumption
    <3> HIDE DEF usable
    <3>3. n \in usable
      BY <2>3, <3>2, LeastIndex
    <3>4. n \in MacPorts
      BY <3>3 DEF usable
    <3> HIDE DEF n
    <3> DEFINE d == [e EXCEPT !.mac = n]
               r == [bop[o] EXCEPT !.pc = "register", !.entry = d]
    <3>5. bop' = [bop EXCEPT ![o] = r]
      BY <3>1 DEF BrowserTypes
    <3>6. d \in Drafts /\ d.mac = n /\ d.host = e.host
      BY <2>1, <3>4 DEF Drafts
    <3> HIDE DEF d
    <3>7. r \in BopStates /\ r.pc = "register" /\ r.host = bop[o].host /\ r.entry = d
      BY <3>6, BopIs DEF BopStates, BopPCs
    <3> HIDE DEF r
    <3>8. bop'[o] = r
      BY <3>5 DEF BrowserTypes
    <3>9. OpInv(o)'
      BY <2>1, <3>1, <3>4, <3>6, <3>7, <3>8 DEF OpInv
    <3> QED
      BY <2>1, <3>1, <3>5, <3>7, <3>9, NoNewKill, RequestGoes DEF BrowserTypes
  <2> QED
    BY <2>2, <2>3
<1>5. CASE RegisterBridge(o)
  <2> DEFINE d == bop[o].entry
             e == [d EXCEPT !.gen = bCount.gen + 1]
  <2>1. /\ bop[o].pc = "register" /\ d \in Drafts /\ d.host = bop[o].host /\ d.mac \in MacPorts
        /\ bop[o].host \in BHosts /\ lifeLease[bop[o].host] = o
        /\ OpEnds(o) /\ UNCHANGED <<hostDest, chrome, bEffect>>
        /\ reg' = reg \/ reg' = [reg EXCEPT ![e.slug] = e]
        /\ bCount' = [bCount EXCEPT !.gen = @ + 1]
    BY <1>5 DEF RegisterBridge, OpAt, BrowserInv, OpInv
  <2>2. bCount.gen \in Nat
    BY DEF BrowserTypes
  <2>3. /\ e \in Drafts /\ e.gen = bCount.gen + 1 /\ e.mac = d.mac
        /\ e.host = bop[o].host /\ e.slug = d.slug /\ e.slug \in Slugs
    BY <2>1, <2>2 DEF Drafts
  <2> HIDE DEF e
  <2>4. e \in Bridges
    BY <2>1, <2>2, <2>3 DEF Bridges
  <2>5. bCount' \in [gen: Nat, life: Int, drops: Int]
    BY <2>1 DEF BrowserTypes
  <2>6. reg' \in [Slugs -> Bridges \cup {NoEntry}]
    BY <2>1, <2>4 DEF BrowserTypes
  <2>7. \A s \in Slugs: reg'[s] = reg[s] \/ (reg'[s].slug = s /\ lifeLease[reg'[s].host] = o)
    BY <2>1, <2>3 DEF BrowserTypes
  <2> QED
    BY <2>1, <2>5, <2>6, <2>7, NoNewKill, RequestEnds DEF BrowserTypes
<1> QED
  BY <1>1, <1>2, <1>3, <1>4, <1>5 DEF StartSteps

\* The steps of status, stop, navigate and screencast.
LEMMA EntryMoves ==
  ASSUME BrowserTypes, BrowserInv, NEW o \in BOps, EntrySteps(o)
  PROVE  BrowserTypes' /\ BrowserInv'
<1>1. ASSUME NEW kind \in {"status", "stop", "connect"}, NEW s \in Slugs, LookUp(o, kind, s)
      PROVE  BrowserTypes' /\ BrowserInv'
  <2> DEFINE r == [NoBrowserOp EXCEPT !.pc = "resolve", !.kind = kind,
                                      !.slug = s, !.entry = reg[s]]
  <2>1. bop' = [bop EXCEPT ![o] = r]
    BY <1>1 DEF LookUp
  <2>2. reg[s] \in Bridges
    BY <1>1 DEF LookUp, BrowserTypes
  <2>3. reg[s] \in Drafts
    BY <2>2, NoEntryIs
  <2>4. /\ r \in BopStates /\ r.pc = "resolve" /\ r.kind = kind /\ r.entry = reg[s]
    BY <2>3 DEF NoBrowserOp, BopStates, BopPCs, BopKinds
  <2> HIDE DEF r
  <2>5. bop'[o] = r
    BY <2>1 DEF BrowserTypes
  <2>6. OpInv(o)'
    BY <2>2, <2>4, <2>5 DEF OpInv
  <2>7. UNCHANGED <<hostDest, chrome, reg, lifeLease, bCount, bEffect>>
    BY <1>1 DEF LookUp
  <2> QED
    BY <2>1, <2>4, <2>6, <2>7, NoNewKill, RequestGoes DEF BrowserTypes
<1>2. CASE ResolveBridge(o)
  <2> DEFINE e == bop[o].entry
  <2>1. /\ bop[o].pc = "resolve" /\ lifeLease[e.host] = "free" /\ e \in Bridges
        /\ bop[o].kind \in {"status", "stop", "connect"}
        /\ UNCHANGED <<hostDest, chrome, bCount, bEffect>>
    BY <1>2 DEF ResolveBridge, OpAt, BrowserInv, OpInv
  <2>2. e.host \in BHosts /\ e.slug \in Slugs
    BY <2>1 DEF Bridges, Drafts
  <2>3. CASE OpEnds(o) /\ (reg' = reg \/ reg' = Forget(e))
    BY <2>1, <2>3, NoNewKill, RequestEnds, ForgetIs DEF BrowserTypes
  <2>4. CASE /\ SameEntry(e) /\ bop[o].kind # "status"
             /\ lifeLease' = [lifeLease EXCEPT ![e.host] = o]
             /\ OpGoes(o, bop[o].kind)
             /\ reg' = IF bop[o].kind = "stop" THEN Forget(e) ELSE reg
    <3>1. PICK r \in BopStates:
            /\ bop' = [bop EXCEPT ![o] = r] /\ bop'[o] = r
            /\ r.pc = bop[o].kind /\ r.entry = e
      BY <2>1, <2>4, GoesIs DEF BopPCs
    <3>2. lifeLease' \in [BHosts -> BOps \cup {"free"}] /\ lifeLease'[e.host] = o
      BY <2>1, <2>2, <2>4 DEF BrowserTypes
    <3>3. \A g \in BHosts: lifeLease[g] \notin {o, "free"} => lifeLease'[g] = lifeLease[g]
      BY <2>1, <2>4 DEF BrowserTypes
    <3>4. /\ reg' \in [Slugs -> Bridges \cup {NoEntry}]
          /\ \A s \in Slugs: reg'[s] = reg[s] \/ reg'[s] = NoEntry
      BY <2>1, <2>4, ForgetIs DEF BrowserTypes
    <3>5. bop[o].kind = "stop" => reg'[e.slug] = NoEntry
      BY <2>1, <2>4, ForgetIs
    <3>6. r.pc \in {"stop", "connect"}
      BY <2>1, <2>4, <3>1
    <3>7. OpInv(o)'
      BY <2>1, <3>1, <3>2, <3>5, <3>6 DEF OpInv
    <3> HIDE DEF e
    <3> QED
      BY <2>1, <3>1, <3>2, <3>3, <3>4, <3>7, NoNewKill, RequestGoes DEF BrowserTypes
  <2> QED
    BY <1>2, <2>3, <2>4 DEF ResolveBridge
<1>3. CASE StopKills(o)
  <2> DEFINE e == bop[o].entry
  <2>1. /\ bop[o].pc = "stop" /\ e \in Bridges /\ OpEnds(o)
        /\ UNCHANGED <<hostDest, reg, bCount>>
        /\ reg[e.slug] = NoEntry \/ reg[e.slug].host # e.host
    BY <1>3 DEF StopKills, OpAt, BrowserInv, OpInv
  <2>2. ASSUME NEW s \in Slugs, reg[s] # NoEntry, Place(reg[s]) = Place(e)
        PROVE  FALSE
    <3>1. reg[s].slug = s /\ reg[s].host = e.host /\ reg[s].slug = e.slug
      BY <2>2 DEF Place, BrowserInv
    <3> QED
      BY <2>1, <2>2, <3>1
  <2>3. chrome' \in [Places -> ChromeStates]
    BY <1>3 DEF StopKills, Stopped, BrowserTypes, ChromeStates
  <2>4. KillSparesReplacement'
    <3>1. CASE bEffect' = KillFor(e)
      <4>1. ~KillFor(e).newer
        BY <2>2 DEF KillFor
      <4> QED
        BY <3>1, <4>1 DEF KillSparesReplacement
    <3>2. CASE UNCHANGED bEffect
      BY <3>2, NoNewKill
    <3> QED
      BY <1>3, <3>1, <3>2 DEF StopKills
  <2> QED
    BY <2>1, <2>3, <2>4, RequestEnds DEF BrowserTypes
<1>4. CASE ConnectPageCdp(o)
  <2>1. OpEnds(o) /\ UNCHANGED <<hostDest, chrome, reg, bCount>>
    BY <1>4 DEF ConnectPageCdp
  <2>2. bEffect' = bEffect \/ bEffect'.kind = "connect"
    BY <1>4 DEF ConnectPageCdp
  <2>3. KillSparesReplacement'
    BY <2>2, NoNewKill DEF KillSparesReplacement
  <2> QED
    BY <2>1, <2>3, RequestEnds DEF BrowserTypes
<1> QED
  BY <1>1, <1>2, <1>3, <1>4 DEF EntrySteps

\* The steps of a host's edit or deletion.
LEMMA EditMoves ==
  ASSUME BrowserTypes, BrowserInv, NEW o \in BOps, EditSteps(o)
  PROVE  BrowserTypes' /\ BrowserInv'
<1>1. ASSUME NEW h \in BHosts, HostEditBegins(o, h)
      PROVE  BrowserTypes' /\ BrowserInv'
  <2> DEFINE r == [NoBrowserOp EXCEPT !.pc = "retire", !.host = h]
  <2>1. /\ bop' = [bop EXCEPT ![o] = r] /\ lifeLease[h] = "free"
        /\ lifeLease' = [lifeLease EXCEPT ![h] = o]
        /\ UNCHANGED <<hostDest, chrome, reg, bCount, bEffect>>
    BY <1>1 DEF HostEditBegins
  <2>2. r \in BopStates /\ r.pc = "retire" /\ r.host = h
    BY DEF NoBrowserOp, BopStates, BopPCs, BopKinds
  <2> HIDE DEF r
  <2>3. /\ lifeLease' \in [BHosts -> BOps \cup {"free"}] /\ lifeLease'[h] = o
        /\ \A g \in BHosts: lifeLease[g] \notin {o, "free"} => lifeLease'[g] = lifeLease[g]
    BY <2>1 DEF BrowserTypes
  <2>4. bop'[o] = r
    BY <2>1 DEF BrowserTypes
  <2>5. OpInv(o)'
    BY <2>2, <2>3, <2>4 DEF OpInv
  <2> QED
    BY <2>1, <2>2, <2>3, <2>5, NoNewKill, RequestGoes DEF BrowserTypes
<1>2. CASE RetireHostBridges(o)
  <2> DEFINE h == bop[o].host
  <2>1. /\ bop[o].pc = "retire" /\ h \in BHosts /\ lifeLease[h] = o
        /\ UNCHANGED <<hostDest, reg, bCount>>
    BY <1>2 DEF RetireHostBridges, OpAt, BrowserInv, OpInv
  <2>2. PICK s \in Slugs:
          /\ reg[s] # NoEntry /\ reg[s].host = h
          /\ \/ /\ IF reg[s].dest = hostDest[h]
                   THEN chrome' = Stopped(Place(reg[s])) /\ bEffect' = KillFor(reg[s])
                   ELSE UNCHANGED <<chrome, bEffect>>
                /\ bop' = [bop EXCEPT ![o].pc = "forget", ![o].entry = reg[s]]
                /\ UNCHANGED lifeLease
             \/ OpEnds(o) /\ UNCHANGED <<chrome, bEffect>>
    BY <1>2 DEF RetireHostBridges
  <2>3. CASE OpEnds(o) /\ UNCHANGED <<chrome, bEffect>>
    BY <2>1, <2>3, NoNewKill, RequestEnds DEF BrowserTypes
  <2>4. CASE /\ IF reg[s].dest = hostDest[h]
                THEN chrome' = Stopped(Place(reg[s])) /\ bEffect' = KillFor(reg[s])
                ELSE UNCHANGED <<chrome, bEffect>>
             /\ bop' = [bop EXCEPT ![o].pc = "forget", ![o].entry = reg[s]]
             /\ UNCHANGED lifeLease
    <3> DEFINE e == reg[s]
               r == [bop[o] EXCEPT !.pc = "forget", !.entry = e]
    <3>1. bop' = [bop EXCEPT ![o] = r]
      BY <2>4 DEF BrowserTypes
    <3>2. e \in Bridges /\ e.slug = s
      BY <2>2 DEF BrowserTypes, BrowserInv
    <3>3. e \in Drafts
      BY <3>2, NoEntryIs
    <3>4. ~KillFor(e).newer
      <4> SUFFICES ASSUME NEW t \in Slugs, reg[t] # NoEntry, reg[t].gen # e.gen,
                          Place(reg[t]) = Place(e)
                   PROVE  FALSE
        BY DEF KillFor
      <4>1. reg[t].slug = t /\ reg[t].slug = e.slug
        BY DEF Place, BrowserInv
      <4> QED
        BY <3>2, <4>1
    <3>5. chrome' \in [Places -> ChromeStates]
      BY <2>4 DEF Stopped, BrowserTypes, ChromeStates
    <3>6. KillSparesReplacement'
      <4>1. bEffect' = bEffect \/ bEffect' = KillFor(e)
        BY <2>4
      <4> QED
        BY <3>4, <4>1, NoNewKill DEF KillSparesReplacement
    <3> HIDE DEF e
    <3>7. r \in BopStates /\ r.pc = "forget" /\ r.host = h /\ r.entry = e
      BY <3>3, BopIs DEF BopStates, BopPCs
    <3> HIDE DEF r
    <3>8. bop'[o] = r
      BY <3>1 DEF BrowserTypes
    <3>9. OpInv(o)'
      BY <2>1, <2>4, <3>2, <3>7, <3>8 DEF OpInv
    <3> HIDE DEF h
    <3> QED
      BY <2>1, <2>4, <3>1, <3>5, <3>6, <3>7, <3>9, RequestGoes DEF BrowserTypes
  <2> QED
    BY <2>2, <2>3, <2>4
<1>3. CASE RetireForgets(o)
  <2>1. /\ bop[o].pc = "forget" /\ bop[o].host \in BHosts /\ lifeLease[bop[o].host] = o
        /\ bop[o].entry \in Bridges /\ reg' = Forget(bop[o].entry)
        /\ UNCHANGED <<hostDest, chrome, lifeLease, bCount, bEffect>>
    BY <1>3 DEF RetireForgets, OpAt, BrowserInv, OpInv
  <2>2. PICK r \in BopStates:
          /\ bop' = [bop EXCEPT ![o] = r] /\ bop'[o] = r
          /\ r.pc = "retire" /\ r.host = bop[o].host
    BY <1>3, GoesIs DEF RetireForgets, BopPCs
  <2>3. /\ reg' \in [Slugs -> Bridges \cup {NoEntry}]
        /\ \A s \in Slugs: reg'[s] = reg[s] \/ reg'[s] = NoEntry
    BY <2>1, ForgetIs
  <2>4. OpInv(o)'
    BY <2>1, <2>2 DEF OpInv
  <2> QED
    BY <2>1, <2>2, <2>3, <2>4, NoNewKill, RequestGoes DEF BrowserTypes
<1>4. CASE HostEditCommits(o)
  <2> DEFINE h == bop[o].host
  <2>1. /\ bop[o].pc = "retire" /\ h \in BHosts /\ lifeLease[h] = o
        /\ OpEnds(o) /\ UNCHANGED <<chrome, reg, bCount, bEffect>>
    BY <1>4 DEF HostEditCommits, OpAt, BrowserInv, OpInv
  <2>2. PICK d \in {0, hostDest[h], hostDest[h] + 1}:
          d <= MaxDest /\ hostDest' = [hostDest EXCEPT ![h] = d]
    BY <1>4 DEF HostEditCommits
  <2>3. d \in 0..MaxDest
    BY <2>1, <2>2, BrowserAssumption DEF BrowserTypes
  <2>4. /\ hostDest' \in [BHosts -> 0..MaxDest]
        /\ \A g \in BHosts: hostDest'[g] = hostDest[g] \/ lifeLease[g] = o
    BY <2>1, <2>2, <2>3 DEF BrowserTypes
  <2> QED
    BY <2>1, <2>4, NoNewKill, RequestEnds DEF BrowserTypes
<1> QED
  BY <1>1, <1>2, <1>3, <1>4 DEF EditSteps

\* What the hosts and the ssh masters do by themselves.
LEMMA MachineMoves ==
  ASSUME BrowserTypes, BrowserInv,
         \/ \E p \in Places: PaneClears(p) \/ ChromeServes(p) \/ ChromeDies(p)
         \/ \E h \in BHosts: MasterDrops(h)
  PROVE  BrowserTypes' /\ BrowserInv'
<1>1. UNCHANGED <<hostDest, reg, lifeLease, bop, bEffect>>
  BY DEF PaneClears, ChromeServes, ChromeDies, MasterDrops
<1>2. chrome' \in [Places -> ChromeStates] /\ bCount' \in [gen: Nat, life: Int, drops: Int]
  <2>1. ASSUME NEW p \in Places, PaneClears(p) \/ ChromeDies(p)
        PROVE  chrome' \in [Places -> ChromeStates] /\ UNCHANGED bCount
    BY <2>1 DEF PaneClears, ChromeDies, Stopped, BrowserTypes, ChromeStates
  <2>2. ASSUME NEW p \in Places, ChromeServes(p)
        PROVE  /\ chrome' \in [Places -> ChromeStates]
               /\ bCount' \in [gen: Nat, life: Int, drops: Int]
    <3>1. bCount.life \in Int
      BY DEF BrowserTypes
    <3>2. [boot |-> "up", life |-> bCount.life + 1, file |-> bCount.life + 1] \in ChromeStates
      BY <3>1 DEF ChromeStates
    <3> QED
      BY <2>2, <3>2 DEF ChromeServes, BrowserTypes
  <2>3. ASSUME NEW h \in BHosts, MasterDrops(h)
        PROVE  UNCHANGED chrome /\ bCount' \in [gen: Nat, life: Int, drops: Int]
    BY <2>3 DEF MasterDrops, BrowserTypes
  <2> QED
    BY <2>1, <2>2, <2>3 DEF BrowserTypes
<1>3. BrowserTypes'
  BY <1>1, <1>2 DEF BrowserTypes
<1>4. \A o \in BOps: OpInv(o)'
  BY <1>1 DEF BrowserInv, OpInv
<1> QED
  BY <1>1, <1>3, <1>4, NoNewKill DEF BrowserInv

\* The invariant of the host browsers is inductive.
LEMMA BrowserSteps ==
  ASSUME BrowserTypes, BrowserInv, BrowserNext \/ UNCHANGED browserVars
  PROVE  BrowserTypes' /\ BrowserInv'
<1>1. CASE UNCHANGED browserVars
  <2>1. BrowserTypes'
    BY <1>1 DEF BrowserTypes, browserVars
  <2>2. \A o \in BOps: OpInv(o)'
    BY <1>1 DEF BrowserInv, OpInv, browserVars
  <2> QED
    BY <1>1, <2>1, <2>2, NoNewKill DEF BrowserInv, browserVars
<1> QED
  BY <1>1, StartMoves, EntryMoves, EditMoves, MachineMoves DEF BrowserNext

\* It holds at the start.
LEMMA BrowserStarts ==
  ASSUME BrowserInit
  PROVE  BrowserTypes /\ BrowserInv
<1> USE DEF BrowserInit
<1>1. NoBrowserOp \in BopStates
  BY DEF NoBrowserOp, BopStates, BopPCs, BopKinds
<1>2. Off \in ChromeStates
  BY DEF Off, ChromeStates
<1>3. hostDest \in [BHosts -> 0..MaxDest]
  BY BrowserAssumption
<1>4. BrowserTypes
  BY <1>1, <1>2, <1>3 DEF BrowserTypes
<1>5. \A o \in BOps: OpInv(o)
  BY DEF OpInv, NoBrowserOp
<1> QED
  BY <1>4, <1>5 DEF BrowserInv, KillSparesReplacement, NoEffect

\* It gives the properties the hosts run checks.
LEMMA BrowserMeans ==
  ASSUME BrowserTypes, BrowserInv
  PROVE  BrowserTypeOK /\ KillSparesReplacement
<1>1. \A s \in Slugs: reg[s] # NoEntry => reg[s].mac \in MacPorts
  BY DEF BrowserTypes, Bridges
<1>2. \A p \in Places: chrome[p].boot \in {"off", "shell", "exec", "up"}
  BY DEF BrowserTypes, ChromeStates
<1> QED
  BY <1>1, <1>2 DEF BrowserTypes, BrowserTypeOK, BrowserInv

-------------------------------------------------------------------------------
\* The components together

\* A step of the composition is a step of one component, the others rest.
LEMMA EachSteps ==
  ASSUME [MCNext]_MCVars
  PROVE  /\ LeaseNext \/ UNCHANGED leaseVars
         /\ SignNext \/ UNCHANGED signVars
         /\ BrowserNext \/ UNCHANGED browserVars
         /\ LocalNext \/ UNCHANGED localVars
         /\ ConfigNext \/ UNCHANGED cfgVars
         /\ LaunchNext \/ UNCHANGED launchVars
         /\ AskNext \/ UNCHANGED askVars
         /\ FilesNext \/ UNCHANGED fileVars
  BY DEF MCNext, MCVars, Only

StartersInv ==
  /\ LeaseTypes /\ CleanInv
  /\ LocalTypes /\ LocalInv
  /\ FilesTypes /\ SharedInv
  /\ BrowserTypes /\ BrowserInv

\* The starters' invariant is inductive.
LEMMA StartersStep ==
  ASSUME StartersInv, [MCNext]_MCVars
  PROVE  StartersInv'
<1>1. LeaseTypes' /\ CleanInv'
  <2>1. CASE UNCHANGED leaseVars
    BY <2>1 DEF leaseVars, StartersInv, LeaseTypes, CleanInv
  <2> QED
    BY <2>1, EachSteps, LeaseSteps DEF StartersInv
<1>2. LocalTypes' /\ LocalInv'
  <2>1. CASE UNCHANGED localVars
    BY <2>1 DEF localVars, StartersInv, LocalTypes, LocalInv
  <2> QED
    BY <2>1, EachSteps, LocalSteps DEF StartersInv
<1>3. FilesTypes' /\ SharedInv'
  <2>1. CASE UNCHANGED fileVars
    BY <2>1 DEF fileVars, StartersInv, FilesTypes, SharedInv, Path, Ours
  <2> QED
    BY <2>1, EachSteps, FilesSteps DEF StartersInv
<1>4. BrowserTypes' /\ BrowserInv'
  BY EachSteps, BrowserSteps DEF StartersInv
<1> QED
  BY <1>1, <1>2, <1>3, <1>4 DEF StartersInv

\* It holds at the start.
LEMMA StartersStart == MCInit => StartersInv
  BY LeaseStarts, LocalStarts, FilesStart, BrowserStarts DEF MCInit, StartersInv

\* Of several starters nobody is harmed (lib.rs acquire_runtime_lease, store
\* lib.rs open, cdp_browser.rs, playwright_mcp.rs, host_browser.rs): without
\* kills and stalls one daemon holds the lease, daemons that find nobody else
\* at the database all come up on one file, launches of the local browser
\* never overlap, and a late stop spares the browser that replaced its own.
THEOREM StartersDoNotCollide == MCSpec => []StartsDoNotCollide
<1>1. MCInit => StartersInv
  BY StartersStart
<1>2. StartersInv /\ [MCNext]_MCVars => StartersInv'
  BY StartersStep
<1>3. StartersInv => StartsDoNotCollide
  BY LeaseMeans, LocalMeans, FilesMean, BrowserMeans DEF StartersInv, StartsDoNotCollide
<1> QED
  BY <1>1, <1>2, <1>3, PTL DEF MCSpec

\* Whatever visitors, sweeps and crashes do (auth.rs, ratelimit.rs, tls.rs): a
\* token that was dropped or has expired stays dead, the limiter lets no more
\* attempts of a peer through than its window allows, and no pinned
\* certificate is replaced.
THEOREM SignInIsSafe == MCSpec => []SignInHolds
<1>1. MCInit => SignInv
  BY SignStarts DEF MCInit
<1>2. SignInv /\ [MCNext]_MCVars => SignInv'
  BY EachSteps, SignSteps
<1>3. SignInv => SignInHolds
  BY SignMeans DEF SignInHolds
<1> QED
  BY <1>1, <1>2, <1>3, PTL DEF MCSpec

------------------------------------------------------------------------------
\* The configuration of a launch (mcp_provision.rs, routes/sessions.rs)

\* Of one session: no pane until its launch spawned one, none while it is
\* being stopped; a pane whose agent found the private file still has it; and
\* a row says Running only over a pane whose launch is through.
SessionInv(s) ==
  /\ pc[s] \in {"private", "read", "write", "verify", "spawn"} =>
       agentPane[s] = "none" /\ got[s] = Unowned
  /\ pc[s] = "stop" => agentPane[s] = "none"
  /\ pc[s] = "persist" => agentPane[s] # "none" /\ s \notin running
  /\ s \in running => agentPane[s] # "none"
  /\ agentPane[s] # "none" /\ got[s] = s /\ tool[s] = "claude" => s \in private

ConfigInv == \A s \in CfgSessions: SessionInv(s)

\* A failing step stays within the bound.
LEMMA FaultCounts ==
  ASSUME ConfigTypeOK, LaunchFault
  PROVE  launchFaults' \in 0..MaxLaunchFaults
  BY ConfigBounds DEF ConfigTypeOK, LaunchFault

\* A call of one session: the others keep their calls, panes and files.
LEMMA OneSession ==
  ASSUME ConfigTypeOK, ConfigInv, NEW s \in CfgSessions, UNCHANGED tool,
         \A t \in CfgSessions \ {s}:
           /\ pc'[t] = pc[t] /\ agentPane'[t] = agentPane[t] /\ got'[t] = got[t]
           /\ t \in private => t \in private'
           /\ t \in running' => t \in running,
         SessionInv(s)'
  PROVE  ConfigInv'
<1>1. ASSUME NEW t \in CfgSessions \ {s}
      PROVE  SessionInv(t)'
  BY DEF ConfigInv, SessionInv
<1> QED
  BY <1>1 DEF ConfigInv

\* A call that goes on moves one session.
LEMMA GoOnIs ==
  ASSUME ConfigTypeOK, NEW s \in CfgSessions, NEW p \in LaunchPhases, GoOn(s, p)
  PROVE  /\ pc' \in [CfgSessions -> LaunchPhases] /\ pc'[s] = p /\ lease' \in Entries
         /\ \A t \in CfgSessions \ {s}: pc'[t] = pc[t]
  BY DEF ConfigTypeOK, GoOn

\* A call that ends frees the host's lease.
LEMMA GiveUpIs ==
  ASSUME ConfigTypeOK, NEW s \in CfgSessions, GiveUp(s)
  PROVE  /\ pc' \in [CfgSessions -> LaunchPhases] /\ pc'[s] = "idle" /\ lease' \in Entries
         /\ \A t \in CfgSessions \ {s}: pc'[t] = pc[t]
  BY DEF ConfigTypeOK, GiveUp, LaunchPhases, Entries

\* Dropping a private file touches no other session's.
LEMMA DropIs ==
  ASSUME ConfigTypeOK, NEW s \in CfgSessions, DropPrivate(s)
  PROVE  /\ private' \subseteq CfgSessions /\ launchFaults' \in 0..MaxLaunchFaults
         /\ \A t \in CfgSessions \ {s}: t \in private => t \in private'
  BY FaultCounts DEF ConfigTypeOK, DropPrivate

\* start_session: reattach, refuse, or begin a launch.
LEMMA StartConfig ==
  ASSUME ConfigTypeOK, ConfigInv, NEW s \in CfgSessions, Start(s)
  PROVE  ConfigTypeOK' /\ ConfigInv'
<1>1. /\ pc[s] = "idle" /\ UNCHANGED <<place, tool, mcpFile, seen, edits>>
      /\ launches' \in 0..MaxLaunches /\ SessionInv(s)
  BY ConfigBounds DEF Start, ConfigTypeOK, ConfigInv
<1>2. CASE Reattach(s)
  <2>1. /\ agentPane[s] # "none" /\ running' = running \cup {s}
        /\ UNCHANGED <<private, lease, pc, agentPane, marked, env, got, launchFaults>>
    BY <1>2 DEF Reattach
  <2>2. ConfigTypeOK'
    BY <1>1, <2>1 DEF ConfigTypeOK
  <2>3. SessionInv(s)'
    BY <1>1, <2>1 DEF SessionInv
  <2> QED
    BY <1>1, <2>1, <2>2, <2>3, OneSession
<1>3. CASE Refuse(s)
  <2>1. UNCHANGED <<private, lease, pc, agentPane, marked, running, env, got, launchFaults>>
    BY <1>3 DEF Refuse
  <2>2. ConfigTypeOK'
    BY <1>1, <2>1 DEF ConfigTypeOK
  <2>3. SessionInv(s)'
    BY <1>1, <2>1 DEF SessionInv
  <2> QED
    BY <1>1, <2>1, <2>2, <2>3, OneSession
<1>4. CASE BeginLaunch(s)
  <2>1. /\ agentPane' = [agentPane EXCEPT ![s] = "none"] /\ running' = running \ {s}
        /\ marked' = marked \ {s} /\ env' = env \ {s} /\ got' = [got EXCEPT ![s] = Unowned]
        /\ DropPrivate(s)
    BY <1>4 DEF BeginLaunch
  <2>2. /\ pc' \in [CfgSessions -> LaunchPhases] /\ lease' \in Entries
        /\ pc'[s] \in {"idle", "private", "read"}
        /\ \A t \in CfgSessions \ {s}: pc'[t] = pc[t]
    <3>1. CASE UNCHANGED <<pc, lease>>
      BY <1>1, <3>1 DEF ConfigTypeOK
    <3>2. CASE /\ pc' = [pc EXCEPT ![s] = IF tool[s] = "claude" THEN "private" ELSE "read"]
               /\ lease' = s
      BY <3>2 DEF ConfigTypeOK, LaunchPhases, Entries
    <3> QED
      BY <1>4, <3>1, <3>2 DEF BeginLaunch
  <2>3. ConfigTypeOK'
    BY <1>1, <2>1, <2>2, DropIs DEF ConfigTypeOK, Entries
  <2>4. /\ agentPane'[s] = "none" /\ got'[s] = Unowned /\ s \notin running'
        /\ \A t \in CfgSessions \ {s}: agentPane'[t] = agentPane[t] /\ got'[t] = got[t]
    BY <2>1 DEF ConfigTypeOK
  <2>5. SessionInv(s)'
    BY <2>2, <2>4 DEF SessionInv
  <2> QED
    BY <1>1, <2>1, <2>2, <2>3, <2>4, <2>5, DropIs, OneSession
<1> QED
  BY <1>2, <1>3, <1>4 DEF Start

\* The steps that write the configuration.
LEMMA ProvisionConfig ==
  ASSUME ConfigTypeOK, ConfigInv, NEW s \in CfgSessions,
         WritePrivate(s) \/ ReadProject(s) \/ WriteProject(s) \/ VerifyProject(s)
  PROVE  ConfigTypeOK' /\ ConfigInv'
<1>1. /\ pc[s] \in {"private", "read", "write", "verify"} /\ SessionInv(s)
      /\ UNCHANGED <<place, tool, agentPane, marked, running, got, edits, launches>>
  BY DEF WritePrivate, ReadProject, WriteProject, VerifyProject, ConfigInv
<1>2. /\ launchFaults' \in 0..MaxLaunchFaults
      /\ private' \in {private, private \cup {s}}
      /\ env' \in {env, env \cup {s}}
  BY FaultCounts DEF WritePrivate, ReadProject, WriteProject, VerifyProject, PrivateWrite,
     ConfigTypeOK
<1>3. mcpFile \in ProjectFiles /\ seen \in [CfgSessions -> ProjectFiles]
  BY DEF ConfigTypeOK
<1>4. MergeAgentConfig(seen[s], s) \in ProjectFiles
  <2>1. seen[s] \in ProjectFiles
    BY <1>3
  <2> QED
    BY <2>1 DEF ProjectFiles, MergeAgentConfig, Entries, FileKinds
<1>5. mcpFile' \in ProjectFiles /\ seen' \in [CfgSessions -> ProjectFiles]
  BY <1>3, <1>4 DEF WritePrivate, ReadProject, WriteProject, VerifyProject
<1>6. GiveUp(s) \/ \E p \in {"spawn", "write", "verify"}: GoOn(s, p)
  BY DEF WritePrivate, ReadProject, WriteProject, VerifyProject, Unprovisioned
<1>7. /\ pc' \in [CfgSessions -> LaunchPhases] /\ lease' \in Entries
      /\ pc'[s] \in {"idle", "spawn", "write", "verify"}
      /\ \A t \in CfgSessions \ {s}: pc'[t] = pc[t]
  <2>1. CASE GiveUp(s)
    BY <2>1, GiveUpIs
  <2>2. ASSUME NEW p \in {"spawn", "write", "verify"}, GoOn(s, p)
        PROVE  /\ pc' \in [CfgSessions -> LaunchPhases] /\ lease' \in Entries
               /\ pc'[s] \in {"idle", "spawn", "write", "verify"}
               /\ \A t \in CfgSessions \ {s}: pc'[t] = pc[t]
    <3>1. p \in LaunchPhases
      BY DEF LaunchPhases
    <3> QED
      BY <2>2, <3>1, GoOnIs
  <2> QED
    BY <1>6, <2>1, <2>2
<1>8. ConfigTypeOK'
  BY <1>1, <1>2, <1>5, <1>7 DEF ConfigTypeOK
<1>9. SessionInv(s)'
  BY <1>1, <1>2, <1>7, UnownedAssumption DEF SessionInv
<1> QED
  BY <1>1, <1>2, <1>7, <1>8, <1>9, OneSession

\* The pane is spawned and persisted, or the launch rolls it back.
LEMMA SpawnConfig ==
  ASSUME ConfigTypeOK, ConfigInv, NEW s \in CfgSessions, Spawn(s) \/ Persist(s)
  PROVE  ConfigTypeOK' /\ ConfigInv'
<1>1. /\ SessionInv(s) /\ s # Unowned
      /\ UNCHANGED <<place, tool, mcpFile, seen, env, got, edits, launches>>
  BY UnownedAssumption DEF Spawn, Persist, ConfigInv
<1>2. /\ launchFaults' \in 0..MaxLaunchFaults
      /\ private' \in {private, private \ {s}}
      /\ marked' \in {marked, marked \cup {s}, marked \ {s}}
      /\ running' \in {running, running \cup {s}}
      /\ \E st \in {"none", "starting"}: agentPane' \in {agentPane, [agentPane EXCEPT ![s] = st]}
  BY FaultCounts DEF Spawn, Persist, ConfigTypeOK
<1>3. /\ agentPane' \in [CfgSessions -> {"none", "starting", "up"}]
      /\ \A t \in CfgSessions \ {s}: agentPane'[t] = agentPane[t]
  BY <1>2 DEF ConfigTypeOK
<1>4. CASE GoOn(s, "persist") /\ agentPane' = [agentPane EXCEPT ![s] = "starting"]
           /\ pc[s] = "spawn" /\ UNCHANGED <<private, running>>
  <2>1. /\ pc' \in [CfgSessions -> LaunchPhases] /\ lease' \in Entries /\ pc'[s] = "persist"
        /\ \A t \in CfgSessions \ {s}: pc'[t] = pc[t]
    BY <1>4, GoOnIs DEF LaunchPhases
  <2>2. ConfigTypeOK'
    BY <1>1, <1>2, <1>3, <2>1 DEF ConfigTypeOK
  <2>3. SessionInv(s)'
    <3>1. agentPane'[s] = "starting" /\ got'[s] = Unowned /\ s \notin running'
      BY <1>1, <1>4 DEF ConfigTypeOK, SessionInv
    <3> QED
      BY <1>1, <2>1, <3>1 DEF SessionInv
  <2> QED
    BY <1>1, <1>3, <1>4, <2>1, <2>2, <2>3, OneSession
<1>5. CASE GiveUp(s)
  <2>1. /\ pc' \in [CfgSessions -> LaunchPhases] /\ lease' \in Entries /\ pc'[s] = "idle"
        /\ \A t \in CfgSessions \ {s}: pc'[t] = pc[t]
    BY <1>5, GiveUpIs
  <2>2. ConfigTypeOK'
    BY <1>1, <1>2, <1>3, <2>1 DEF ConfigTypeOK
  <2>3. SessionInv(s)'
    <3>1. CASE Spawn(s)
      <4>1. pc[s] = "spawn" /\ got'[s] = Unowned /\ s \notin running'
        BY <1>1, <3>1 DEF Spawn, SessionInv
      <4> QED
        BY <1>1, <2>1, <4>1 DEF SessionInv
    <3>2. CASE Persist(s)
      <4>1. CASE UNCHANGED <<private, agentPane>>
        BY <1>1, <1>2, <2>1, <3>2, <4>1 DEF SessionInv, Persist
      <4>2. CASE agentPane' = [agentPane EXCEPT ![s] = "none"] /\ UNCHANGED running
        <5>1. agentPane'[s] = "none" /\ s \notin running'
          BY <1>1, <3>2, <4>2 DEF ConfigTypeOK, SessionInv, Persist
        <5> QED
          BY <2>1, <5>1 DEF SessionInv
      <4> QED
        BY <3>2, <4>1, <4>2 DEF Persist
    <3> QED
      BY <3>1, <3>2
  <2>4. \A t \in CfgSessions \ {s}: /\ t \in private => t \in private'
                                    /\ t \in running' => t \in running
    BY <1>2
  <2> QED
    BY <1>1, <1>3, <2>1, <2>2, <2>3, <2>4, OneSession
<1> QED
  BY <1>4, <1>5 DEF Spawn, Persist

\* The agent reads its configuration.
LEMMA AgentConfig ==
  ASSUME ConfigTypeOK, ConfigInv, NEW s \in CfgSessions, AgentReads(s)
  PROVE  ConfigTypeOK' /\ ConfigInv'
<1> DEFINE found == IF AgentMcpFile(tool[s])
                    THEN IF mcpFile.kind = "object" THEN mcpFile.entry ELSE Unowned
                    ELSE IF s \in private THEN s ELSE Unowned
<1>1. /\ agentPane[s] = "starting" /\ agentPane' = [agentPane EXCEPT ![s] = "up"]
      /\ got' = [got EXCEPT ![s] = found] /\ SessionInv(s)
      /\ UNCHANGED <<place, tool, mcpFile, private, lease, pc, seen, env, marked, running,
                     edits, launchFaults, launches>>
  BY DEF AgentReads, ConfigInv
<1>2. found \in Entries
  BY DEF ConfigTypeOK, ProjectFiles, Entries
<1>3. tool[s] = "claude" /\ found = s => s \in private
  BY UnownedAssumption DEF AgentMcpFile
<1> HIDE DEF found
<1>4. ConfigTypeOK'
  BY <1>1, <1>2 DEF ConfigTypeOK
<1>5. /\ agentPane'[s] = "up" /\ got'[s] = found
      /\ \A t \in CfgSessions \ {s}: agentPane'[t] = agentPane[t] /\ got'[t] = got[t]
  BY <1>1 DEF ConfigTypeOK
<1>6. SessionInv(s)'
  BY <1>1, <1>3, <1>5 DEF SessionInv
<1> QED
  BY <1>1, <1>4, <1>5, <1>6, OneSession

\* A stop kills the pane first and drops the file after it.
LEMMA StopConfig ==
  ASSUME ConfigTypeOK, ConfigInv, NEW s \in CfgSessions, StopPane(s) \/ StopDropsPrivate(s)
  PROVE  ConfigTypeOK' /\ ConfigInv'
<1>1. CASE StopPane(s)
  <2>1. /\ pc[s] = "idle" /\ SessionInv(s) /\ launches' \in 0..MaxLaunches
        /\ UNCHANGED <<place, tool, mcpFile, private, seen, env, got, edits>>
    BY <1>1, ConfigBounds DEF StopPane, ConfigTypeOK, ConfigInv
  <2>2. CASE /\ agentPane' = [agentPane EXCEPT ![s] = "none"]
             /\ marked' = marked \ {s} /\ running' = running \ {s}
             /\ pc' = [pc EXCEPT ![s] = "stop"] /\ lease' = s /\ UNCHANGED launchFaults
    <3>1. ConfigTypeOK'
      BY <2>1, <2>2 DEF ConfigTypeOK, LaunchPhases, Entries
    <3>2. /\ agentPane'[s] = "none" /\ pc'[s] = "stop" /\ s \notin running'
          /\ \A t \in CfgSessions \ {s}: agentPane'[t] = agentPane[t] /\ pc'[t] = pc[t]
      BY <2>2 DEF ConfigTypeOK
    <3>3. SessionInv(s)'
      BY <3>2 DEF SessionInv
    <3> QED
      BY <2>1, <2>2, <3>1, <3>2, <3>3, OneSession
  <2>3. CASE LaunchFault /\ UNCHANGED <<agentPane, marked, running, pc, lease>>
    <3>1. ConfigTypeOK'
      BY <2>1, <2>3, FaultCounts DEF ConfigTypeOK
    <3>2. SessionInv(s)'
      BY <2>1, <2>3 DEF SessionInv
    <3> QED
      BY <2>1, <2>3, <3>1, <3>2, OneSession
  <2> QED
    BY <1>1, <2>2, <2>3 DEF StopPane
<1>2. CASE StopDropsPrivate(s)
  <2>1. /\ pc[s] = "stop" /\ SessionInv(s) /\ DropPrivate(s) /\ GiveUp(s)
        /\ UNCHANGED <<place, tool, mcpFile, seen, env, agentPane, marked, running, got,
                       edits, launches>>
    BY <1>2 DEF StopDropsPrivate, ConfigInv
  <2>2. /\ pc' \in [CfgSessions -> LaunchPhases] /\ lease' \in Entries /\ pc'[s] = "idle"
        /\ \A t \in CfgSessions \ {s}: pc'[t] = pc[t]
    BY <2>1, GiveUpIs
  <2>3. ConfigTypeOK'
    BY <2>1, <2>2, DropIs DEF ConfigTypeOK
  <2>4. SessionInv(s)'
    BY <2>1, <2>2 DEF SessionInv
  <2> QED
    BY <2>1, <2>2, <2>3, <2>4, DropIs, OneSession
<1> QED
  BY <1>1, <1>2

\* The invariant of the launch configuration is inductive.
LEMMA ConfigSteps ==
  ASSUME ConfigTypeOK, ConfigInv, ConfigNext \/ UNCHANGED cfgVars
  PROVE  ConfigTypeOK' /\ ConfigInv'
<1>1. CASE UNCHANGED cfgVars
  BY <1>1 DEF cfgVars, ConfigTypeOK, ConfigInv, SessionInv
<1>2. CASE ServerRestarts
  <2>1. /\ lease \in CfgSessions /\ GiveUp(lease)
        /\ launchFaults' \in 0..MaxLaunchFaults
        /\ UNCHANGED <<place, tool, mcpFile, private, seen, env, agentPane, marked, running,
                       got, edits, launches>>
    BY <1>2, FaultCounts DEF ServerRestarts, ConfigTypeOK, Entries
  <2>2. /\ pc' \in [CfgSessions -> LaunchPhases] /\ lease' \in Entries /\ pc'[lease] = "idle"
        /\ \A t \in CfgSessions \ {lease}: pc'[t] = pc[t]
    BY <2>1, GiveUpIs
  <2>3. ConfigTypeOK'
    BY <2>1, <2>2 DEF ConfigTypeOK
  <2>4. \A s \in CfgSessions: SessionInv(s)'
    BY <2>1, <2>2 DEF ConfigInv, SessionInv
  <2> QED
    BY <2>3, <2>4 DEF ConfigInv
<1>3. CASE UserEdits
  <2>1. /\ UNCHANGED <<place, tool, private, lease, pc, seen, env, agentPane, marked, running,
                       got, launchFaults, launches>>
        /\ edits' \in 0..MaxUserEdits
    BY <1>3, ConfigBounds DEF UserEdits, ConfigTypeOK
  <2>2. mcpFile' \in ProjectFiles
    BY <1>3 DEF UserEdits, ConfigTypeOK, ProjectFiles, FileKinds
  <2>3. ConfigTypeOK'
    BY <2>1, <2>2 DEF ConfigTypeOK
  <2>4. ConfigInv'
    BY <2>1 DEF ConfigInv, SessionInv
  <2> QED
    BY <2>3, <2>4
<1> QED
  BY <1>1, <1>2, <1>3, StartConfig, ProvisionConfig, SpawnConfig, AgentConfig, StopConfig
  DEF ConfigNext

\* It holds at the start.
LEMMA ConfigStarts ==
  ASSUME ConfigInit
  PROVE  ConfigTypeOK /\ ConfigInv
<1>1. NoConfig \in ProjectFiles
      /\ [NoConfig EXCEPT !.kind = "object", !.theirs = UserServers] \in ProjectFiles
  BY DEF NoConfig, ProjectFiles, FileKinds, Entries
<1>2. ConfigTypeOK
  BY <1>1, ConfigBounds DEF ConfigInit, ConfigTypeOK, LaunchPhases, Entries
<1>3. ConfigInv
  BY DEF ConfigInit, ConfigInv, SessionInv
<1> QED
  BY <1>2, <1>3

\* It gives the property the hosts run checks.
LEMMA ConfigMeans ==
  ASSUME ConfigTypeOK, ConfigInv
  PROVE  RunningKeepsCredential
  BY DEF ConfigTypeOK, ConfigInv, SessionInv, RunningKeepsCredential

------------------------------------------------------------------------------
\* The launch transaction (host_runtime.rs)

\* What is known of a script: nothing of one that was not started yet; an
\* environment file and a pane of its own only until it ended, unless nobody
\* waited for the answer.
ScriptInv(n) ==
  /\ n > nth => /\ script[n] = "none" /\ outcome[n] = "none"
                /\ n \notin envFile /\ tmuxSess.by # n
  /\ script[n] = "failed" /\ outcome[n] # "unknown" => n \notin envFile /\ tmuxSess.by # n
  /\ script[n] = "answer" => n \notin envFile
  /\ outcome[n] \in {"ok", "error"} => script[n] = "over" /\ n \notin envFile
  /\ outcome[n] = "error" => tmuxSess.by # n
  /\ script[n] = "over" => outcome[n] \in {"ok", "error"}

LaunchInv ==
  /\ hostCall = "preflight" => nth < MaxScripts
  /\ hostCall = "wait" => nth \in Scripts /\ outcome[nth] = "none"
  /\ \A n \in Scripts: ScriptInv(n)

PaneRecords ==
  [by : 0..MaxScripts, pane : Panes, owner : BOOLEAN, gen : BOOLEAN]

\* The absent pane belongs to no script.
LEMMA NoPaneIs == NoPane \in PaneRecords /\ NoPane.by = 0
  BY LaunchBounds DEF NoPane, PaneRecords, Panes

\* A failing step stays within the bound.
LEMMA FailureCounts ==
  ASSUME LaunchTypeOK, Failure
  PROVE  failures' \in 0..MaxSteps
  BY LaunchBounds DEF LaunchTypeOK, Failure

\* A report is typed.
LEMMA ReportIs ==
  ASSUME LaunchTypeOK, NEW b, NEW k, Report(b, k)
  PROVE  report' \in [ready : BOOLEAN, skill : BOOLEAN] /\ hostSeen' \in BOOLEAN
  BY Zenon DEF LaunchTypeOK, Report, Ready

\* A step that touches no script: panes only vanish or change their marks.
LEMMA NoScriptMoves ==
  ASSUME LaunchTypeOK, LaunchInv, UNCHANGED <<nth, script, outcome>>,
         envFile' \subseteq envFile, tmuxSess'.by \in {tmuxSess.by, 0},
         hostCall' = "preflight" => nth < MaxScripts,
         hostCall' # "wait" \/ hostCall = "wait"
  PROVE  LaunchInv'
<1>1. \A n \in Scripts: tmuxSess.by # n => tmuxSess'.by # n
  BY LaunchBounds DEF Scripts
<1>2. \A n \in Scripts: ScriptInv(n)'
  BY <1>1 DEF LaunchInv, ScriptInv
<1> QED
  BY <1>2 DEF LaunchInv

\* A step of one script: the others keep what is known of them.
LEMMA OneScript ==
  ASSUME LaunchTypeOK, LaunchInv, NEW n \in Scripts, UNCHANGED <<nth, outcome>>,
         script' = [script EXCEPT ![n] = script'[n]],
         envFile' \subseteq envFile \cup {n}, tmuxSess'.by \in {tmuxSess.by, 0, n},
         UNCHANGED hostCall, ScriptInv(n)'
  PROVE  LaunchInv'
<1>1. ASSUME NEW m \in Scripts \ {n}
      PROVE  ScriptInv(m)'
  <2>1. script'[m] = script[m]
    BY DEF LaunchTypeOK
  <2>2. tmuxSess.by # m => tmuxSess'.by # m
    BY LaunchBounds DEF Scripts
  <2> QED
    BY <2>1, <2>2 DEF LaunchInv, ScriptInv
<1> QED
  BY <1>1 DEF LaunchInv

\* The steps of a script.
LEMMA ScriptMoves ==
  ASSUME LaunchTypeOK, LaunchInv, NEW n \in Scripts, ScriptStep(n)
  PROVE  LaunchTypeOK' /\ LaunchInv'
<1> USE LaunchBounds
<1>1. /\ UNCHANGED <<bins, hostCall, skill, report, hostSeen, nth, outcome, bound, gone, changes>>
      /\ tmuxSess \in PaneRecords /\ ScriptInv(n) /\ script[n] \in Steps
  BY DEF ScriptStep, LaunchTypeOK, LaunchInv, PaneRecords
<1>2. ASSUME NEW step \in Steps, script' = [script EXCEPT ![n] = step],
             envFile' \subseteq envFile \cup {n}, tmuxSess' \in PaneRecords,
             failures' \in 0..MaxSteps, tmuxSess'.by \in {tmuxSess.by, 0, n},
             step \notin {"over", "none"},
             step = "failed" /\ outcome[n] # "unknown" => n \notin envFile' /\ tmuxSess'.by # n,
             step = "answer" => n \notin envFile',
             script[n] \in {"stage", "new", "configure", "respawn", "inspect", "commit"}
      PROVE  LaunchTypeOK' /\ LaunchInv'
  <2>1. script'[n] = step
    BY <1>2 DEF LaunchTypeOK
  <2>2. LaunchTypeOK'
    BY <1>1, <1>2 DEF LaunchTypeOK, PaneRecords
  <2>3. ~(n > nth) /\ outcome[n] \notin {"ok", "error"}
    BY <1>1, <1>2 DEF ScriptInv
  <2>4. ScriptInv(n)'
    BY <1>1, <1>2, <2>1, <2>3 DEF ScriptInv
  <2> QED
    BY <1>1, <1>2, <2>1, <2>2, <2>4, OneScript
<1>3. /\ failures' \in 0..MaxSteps
      /\ script[n] \in {"stage", "new", "configure", "respawn", "inspect", "commit"}
      /\ tmuxSess' = tmuxSess => tmuxSess' \in PaneRecords
  BY <1>1, FailureCounts DEF ScriptStep, ScriptStages, ScriptCreates, ScriptConfigures,
     ScriptRespawns, ScriptInspects, ScriptCommits, LaunchTypeOK
<1>4. CASE AbortLaunch(n)
  <2>1. Cleanup(n) => /\ n \notin envFile' /\ tmuxSess'.by # n
                      /\ tmuxSess' \in {tmuxSess, NoPane} /\ envFile' \subseteq envFile
    BY NoPaneIs DEF Cleanup, Scripts
  <2>2. script' = [script EXCEPT ![n] = "failed"]
    BY <1>4 DEF AbortLaunch
  <2>3. CASE Cleanup(n)
    BY <1>1, <1>2, <1>3, <2>1, <2>2, <2>3, NoPaneIs DEF Steps
  <2>4. CASE outcome[n] = "unknown" /\ UNCHANGED <<envFile, tmuxSess>>
    BY <1>1, <1>2, <1>3, <2>2, <2>4 DEF Steps
  <2> QED
    BY <1>4, <2>3, <2>4 DEF AbortLaunch
<1>5. CASE envFile' = envFile \cup {n} /\ Advance(n, "new") /\ UNCHANGED tmuxSess
  BY <1>1, <1>2, <1>3, <1>5 DEF Advance, Steps
<1>6. CASE /\ Advance(n, "configure") /\ UNCHANGED envFile
           /\ tmuxSess' = [NoPane EXCEPT !.by = n, !.pane = "dormant"]
  <2> DEFINE r == [by |-> n, pane |-> "dormant", owner |-> FALSE, gen |-> FALSE]
  <2>1. tmuxSess' = r
    BY <1>6 DEF NoPane
  <2>2. n \in 0..MaxScripts
    BY DEF Scripts
  <2>3. r \in PaneRecords /\ r.by = n
    BY <2>2 DEF PaneRecords, Panes
  <2> HIDE DEF r
  <2> QED
    BY <1>1, <1>2, <1>3, <1>6, <2>1, <2>3 DEF Advance, Steps
<1>7. CASE Advance(n, "respawn") /\ UNCHANGED <<envFile, tmuxSess>>
  BY <1>1, <1>2, <1>3, <1>7 DEF Advance, Steps
<1>8. CASE Advance(n, "inspect") /\ UNCHANGED envFile
           /\ tmuxSess' = [tmuxSess EXCEPT !.pane = "wrapper"]
  <2>1. tmuxSess' \in PaneRecords /\ tmuxSess'.by = tmuxSess.by
    BY <1>1, <1>8 DEF PaneRecords, Panes
  <2> QED
    BY <1>1, <1>2, <1>3, <1>8, <2>1 DEF Advance, Steps
<1>9. CASE Advance(n, "commit") /\ UNCHANGED <<envFile, tmuxSess>>
  BY <1>1, <1>2, <1>3, <1>9 DEF Advance, Steps
<1>10. CASE Advance(n, "answer") /\ envFile' = envFile \ {n} /\ UNCHANGED tmuxSess
  BY <1>1, <1>2, <1>3, <1>10 DEF Advance, Steps
<1> QED
  BY <1>4, <1>5, <1>6, <1>7, <1>8, <1>9, <1>10 DEF ScriptStep, ScriptStages, ScriptCreates,
     ScriptConfigures, ScriptRespawns, ScriptInspects, ScriptCommits

\* Setups, reports, programs that change, and the pane's own steps.
LEMMA HostMoves ==
  ASSUME LaunchTypeOK, LaunchInv,
         \/ Readiness \/ BinsChange
         \/ \E kind \in {"bootstrap", "install", "skills"} : BeginSetup(kind)
         \/ Setup("bootstrap") \/ Setup("install") \/ ProvisionSkills
         \/ WrapperRuns \/ PaneEnds
  PROVE  LaunchTypeOK' /\ LaunchInv'
<1> USE LaunchBounds
<1>1. CASE Readiness
  <2>1. /\ UNCHANGED <<bins, hostCall, skill, nth, script, outcome, envFile, tmuxSess, bound,
                       gone, changes>>
        /\ report' \in [ready : BOOLEAN, skill : BOOLEAN] /\ hostSeen' \in BOOLEAN
        /\ failures' \in 0..MaxSteps
    BY <1>1, ReportIs, FailureCounts DEF Readiness, LaunchTypeOK
  <2> QED
    BY <2>1, NoScriptMoves DEF LaunchTypeOK, LaunchInv
<1>2. CASE BinsChange
  <2>1. /\ UNCHANGED <<hostCall, skill, report, hostSeen, nth, script, outcome, envFile,
                       tmuxSess, bound, gone, failures>>
        /\ changes' \in 0..MaxBinChanges /\ bins' \subseteq Bins
    BY <1>2 DEF BinsChange, LaunchTypeOK, Bins
  <2> QED
    BY <2>1, NoScriptMoves DEF LaunchTypeOK, LaunchInv
<1>3. ASSUME NEW kind \in {"bootstrap", "install", "skills"}, BeginSetup(kind)
      PROVE  LaunchTypeOK' /\ LaunchInv'
  <2>1. /\ UNCHANGED <<bins, skill, report, hostSeen, nth, script, outcome, envFile,
                       tmuxSess, bound, gone, failures, changes>>
        /\ hostCall' = kind
    BY <1>3 DEF BeginSetup
  <2> QED
    BY <2>1, NoScriptMoves DEF LaunchTypeOK, Ops
<1>4. ASSUME NEW kind \in {"bootstrap", "install"}, Setup(kind)
      PROVE  LaunchTypeOK' /\ LaunchInv'
  <2>1. /\ UNCHANGED <<skill, nth, script, outcome, envFile, tmuxSess, bound, gone, changes>>
        /\ hostCall' = "none"
    BY <1>4 DEF Setup
  <2>2. bins' \subseteq Bins
    BY <1>4 DEF Setup, Installs, Bins, LaunchTypeOK
  <2>3. /\ report' \in [ready : BOOLEAN, skill : BOOLEAN] /\ hostSeen' \in BOOLEAN
        /\ failures' \in 0..MaxSteps
    BY <1>4, ReportIs, FailureCounts DEF Setup, LaunchTypeOK
  <2> QED
    BY <2>1, <2>2, <2>3, NoScriptMoves DEF LaunchTypeOK, Ops
<1>5. CASE ProvisionSkills
  <2>1. /\ UNCHANGED <<bins, nth, script, outcome, envFile, tmuxSess, bound, gone, changes>>
        /\ hostCall' = "none" /\ skill' \in {"none", "part", "all"}
    BY <1>5 DEF ProvisionSkills, LaunchTypeOK
  <2>2. /\ report' \in [ready : BOOLEAN, skill : BOOLEAN] /\ hostSeen' \in BOOLEAN
        /\ failures' \in 0..MaxSteps
    BY <1>5, ReportIs, FailureCounts DEF ProvisionSkills, LaunchTypeOK
  <2> QED
    BY <2>1, <2>2, NoScriptMoves DEF LaunchTypeOK, Ops
<1>6. CASE WrapperRuns
  <2>1. /\ UNCHANGED <<bins, hostCall, skill, report, hostSeen, nth, script, outcome, bound,
                       gone, failures, changes>>
        /\ envFile' \subseteq envFile
    BY <1>6 DEF WrapperRuns
  <2>2. tmuxSess' \in PaneRecords /\ tmuxSess'.by = tmuxSess.by
    BY <1>6 DEF WrapperRuns, LaunchTypeOK, PaneRecords, Panes
  <2> QED
    BY <2>1, <2>2, NoScriptMoves DEF LaunchTypeOK, LaunchInv, PaneRecords
<1>7. CASE PaneEnds
  <2>1. UNCHANGED <<bins, hostCall, skill, report, hostSeen, nth, script, outcome, envFile,
                    bound, gone, failures, changes>>
    BY <1>7 DEF PaneEnds
  <2>2. tmuxSess' \in PaneRecords /\ tmuxSess'.by \in {tmuxSess.by, 0}
    BY <1>7, NoPaneIs DEF PaneEnds, LaunchTypeOK, PaneRecords, Panes
  <2> QED
    BY <2>1, <2>2, NoScriptMoves DEF LaunchTypeOK, LaunchInv, PaneRecords
<1> QED
  BY <1>1, <1>2, <1>3, <1>4, <1>5, <1>6, <1>7

\* The daemon's side of a launch.
LEMMA DaemonMoves ==
  ASSUME LaunchTypeOK, LaunchInv,
         \/ StartSession \/ Preflight \/ GiveUpWaiting \/ ReadAnswer
         \/ MarkOwner \/ MarkGeneration \/ PersistLaunch
  PROVE  LaunchTypeOK' /\ LaunchInv'
<1> USE LaunchBounds
<1>0. tmuxSess \in PaneRecords
  BY DEF LaunchTypeOK, PaneRecords
<1>1. CASE StartSession
  <2>1. /\ UNCHANGED <<bins, skill, report, hostSeen, nth, script, outcome, envFile, gone,
                       failures, changes>>
        /\ hostCall' \in {"preflight", "none"} /\ nth < MaxScripts
        /\ tmuxSess' \in {tmuxSess, NoPane} /\ bound' \in BOOLEAN
    BY <1>1 DEF StartSession, LaunchTypeOK
  <2>2. tmuxSess' \in PaneRecords /\ tmuxSess'.by \in {tmuxSess.by, 0}
    BY <1>0, <2>1, NoPaneIs
  <2> QED
    BY <2>1, <2>2, NoScriptMoves DEF LaunchTypeOK, PaneRecords, Ops
<1>2. CASE Preflight
  <2>1. UNCHANGED <<bins, skill, report, hostSeen, outcome, envFile, tmuxSess, bound,
                     gone, changes>>
    BY <1>2 DEF Preflight
  <2>2. CASE /\ hostCall = "preflight" /\ hostCall' = "wait" /\ nth' = nth + 1
             /\ script' = [script EXCEPT ![nth + 1] = "stage"] /\ UNCHANGED failures
    <3>1. nth < MaxScripts /\ nth \in 0..MaxScripts
      BY <2>2 DEF LaunchInv, LaunchTypeOK
    <3>2. nth' \in Scripts /\ nth' \in 0..MaxScripts /\ nth' > nth
      BY <2>2, <3>1 DEF Scripts
    <3>3. script' \in [Scripts -> Steps]
      BY <2>2 DEF LaunchTypeOK, Steps
    <3>4. LaunchTypeOK'
      BY <2>1, <2>2, <3>2, <3>3 DEF LaunchTypeOK, Ops
    <3>5. ASSUME NEW m \in Scripts
          PROVE  ScriptInv(m)'
      <4>1. CASE m = nth'
        <5>1. /\ outcome[m] = "none" /\ m \notin envFile
          BY <3>2, <4>1 DEF LaunchInv, ScriptInv
        <5>2. script'[m] = "stage"
          BY <2>2, <3>2, <4>1 DEF LaunchTypeOK
        <5> QED
          BY <2>1, <3>2, <4>1, <5>1, <5>2 DEF ScriptInv
      <4>2. CASE m # nth'
        <5>1. script'[m] = script[m] /\ (m > nth' => m > nth)
          BY <2>2, <3>1, <4>2 DEF LaunchTypeOK, Scripts
        <5> QED
          BY <2>1, <5>1 DEF ScriptInv, LaunchInv
      <4> QED
        BY <4>1, <4>2
    <3>6. outcome'[nth'] = "none"
      BY <2>1, <3>2 DEF LaunchInv, ScriptInv
    <3> QED
      BY <2>2, <3>2, <3>4, <3>5, <3>6 DEF LaunchInv
  <2>3. CASE hostCall' = "none" /\ UNCHANGED <<nth, script>> /\ failures' \in 0..MaxSteps
    BY <2>1, <2>3, NoScriptMoves DEF LaunchTypeOK, Ops
  <2> QED
    BY <1>2, <2>2, <2>3, FailureCounts DEF Preflight, LaunchTypeOK
<1>3. CASE GiveUpWaiting
  <2>1. /\ hostCall = "wait" /\ hostCall' = "none"
        /\ outcome' = [outcome EXCEPT ![nth] = "unknown"] /\ gone' \in 0..MaxGone
        /\ UNCHANGED <<bins, skill, report, hostSeen, nth, script, envFile, tmuxSess, bound,
                       failures, changes>>
    BY <1>3 DEF GiveUpWaiting, LaunchTypeOK
  <2>2. nth \in Scripts /\ outcome[nth] = "none"
    BY <2>1 DEF LaunchInv
  <2>3. LaunchTypeOK'
    BY <2>1 DEF LaunchTypeOK, Ops
  <2>4. ASSUME NEW m \in Scripts
        PROVE  ScriptInv(m)'
    <3>1. CASE m = nth
      <4>1. outcome'[m] = "unknown" /\ ~(m > nth) /\ script[m] # "over" /\ ScriptInv(m)
        BY <2>1, <2>2, <3>1 DEF LaunchTypeOK, LaunchInv, ScriptInv, Scripts
      <4> QED
        BY <2>1, <4>1 DEF ScriptInv
    <3>2. CASE m # nth
      <4>1. outcome'[m] = outcome[m] /\ ScriptInv(m)
        BY <2>1, <3>2 DEF LaunchTypeOK, LaunchInv
      <4> QED
        BY <2>1, <4>1 DEF ScriptInv
    <3> QED
      BY <3>1, <3>2
  <2> QED
    BY <2>1, <2>3, <2>4 DEF LaunchInv
<1>4. CASE ReadAnswer
  <2> DEFINE made == IF script[nth] = "answer" THEN "ok" ELSE "error"
  <2>1. /\ hostCall = "wait" /\ hostCall' \in {"mark", "none"}
        /\ script[nth] \in {"answer", "failed"}
        /\ script' = [script EXCEPT ![nth] = "over"]
        /\ outcome' = [outcome EXCEPT ![nth] = made]
        /\ UNCHANGED <<bins, skill, report, hostSeen, nth, envFile, tmuxSess, bound, gone,
                       failures, changes>>
    BY <1>4 DEF ReadAnswer
  <2>2. nth \in Scripts /\ outcome[nth] = "none" /\ ScriptInv(nth)
    BY <2>1 DEF LaunchInv
  <2>3. LaunchTypeOK'
    BY <2>1 DEF LaunchTypeOK, Ops, Steps
  <2>4. ASSUME NEW m \in Scripts
        PROVE  ScriptInv(m)'
    <3>1. CASE m = nth
      <4>1. outcome'[m] = made /\ script'[m] = "over" /\ ~(m > nth)
        BY <2>1, <2>2, <3>1 DEF LaunchTypeOK, Scripts
      <4>2. m \notin envFile /\ (script[nth] = "failed" => tmuxSess.by # m)
        BY <2>1, <2>2, <3>1 DEF ScriptInv
      <4>3. made \in {"ok", "error"} /\ (made = "error" => tmuxSess.by # m)
        BY <2>1, <4>2
      <4> HIDE DEF made
      <4> QED
        BY <2>1, <4>1, <4>2, <4>3 DEF ScriptInv
    <3>2. CASE m # nth
      <4>1. outcome'[m] = outcome[m] /\ script'[m] = script[m] /\ ScriptInv(m)
        BY <2>1, <3>2 DEF LaunchTypeOK, LaunchInv
      <4> QED
        BY <2>1, <4>1 DEF ScriptInv
    <3> QED
      BY <3>1, <3>2
  <2> QED
    BY <2>1, <2>3, <2>4 DEF LaunchInv
<1>5. CASE MarkOwner \/ MarkGeneration \/ PersistLaunch
  <2>1. /\ UNCHANGED <<bins, skill, report, hostSeen, nth, script, outcome, envFile, gone, changes>>
        /\ hostCall' \in {"generation", "persist", "none"}
        /\ bound' \in BOOLEAN /\ failures' \in 0..MaxSteps
    BY <1>5, FailureCounts DEF MarkOwner, MarkGeneration, PersistLaunch, LaunchTypeOK
  <2>2. \/ tmuxSess' \in {tmuxSess, NoPane}
        \/ tmuxSess' = [tmuxSess EXCEPT !.owner = TRUE]
        \/ tmuxSess' = [tmuxSess EXCEPT !.gen = TRUE]
    BY <1>5 DEF MarkOwner, MarkGeneration, PersistLaunch
  <2>3. tmuxSess' \in PaneRecords /\ tmuxSess'.by \in {tmuxSess.by, 0}
    BY <1>0, <2>2, NoPaneIs DEF PaneRecords
  <2> QED
    BY <2>1, <2>3, NoScriptMoves DEF LaunchTypeOK, PaneRecords, Ops
<1> QED
  BY <1>1, <1>2, <1>3, <1>4, <1>5

\* The invariant of the launch scripts is inductive.
LEMMA LaunchSteps ==
  ASSUME LaunchTypeOK, LaunchInv, LaunchNext \/ UNCHANGED launchVars
  PROVE  LaunchTypeOK' /\ LaunchInv'
<1>1. CASE UNCHANGED launchVars
  BY <1>1 DEF launchVars, LaunchTypeOK, LaunchInv, ScriptInv
<1> QED
  BY <1>1, HostMoves, DaemonMoves, ScriptMoves DEF LaunchNext

\* It holds at the start.
LEMMA LaunchStarts ==
  ASSUME LaunchInit
  PROVE  LaunchTypeOK /\ LaunchInv
<1> USE LaunchBounds
<1>1. LaunchTypeOK
  <2>1. tmuxSess \in PaneRecords
    BY NoPaneIs DEF LaunchInit
  <2> QED
    <3>1. bins \subseteq Bins /\ hostCall \in Ops /\ report \in [ready : BOOLEAN, skill : BOOLEAN]
      BY DEF LaunchInit, Ops, Bins
    <3>2. /\ script \in [Scripts -> Steps]
          /\ outcome \in [Scripts -> {"none", "ok", "error", "unknown"}]
      BY DEF LaunchInit, Steps
    <3>3. /\ nth \in 0..MaxScripts /\ gone \in 0..MaxGone
          /\ failures \in 0..MaxSteps /\ changes \in 0..MaxBinChanges
      BY DEF LaunchInit
    <3>4. /\ skill \in {"none", "part", "all"} /\ hostSeen \in BOOLEAN /\ bound \in BOOLEAN
          /\ envFile \subseteq Scripts
      BY DEF LaunchInit
    <3> QED
      BY <2>1, <3>1, <3>2, <3>3, <3>4 DEF LaunchTypeOK, PaneRecords
<1>2. \A n \in Scripts: tmuxSess.by # n
  BY NoPaneIs DEF LaunchInit, Scripts
<1>3. LaunchInv
  BY <1>2 DEF LaunchInit, LaunchInv, ScriptInv
<1> QED
  BY <1>1, <1>3

\* It gives the property the hosts run checks.
LEMMA LaunchMeans ==
  ASSUME LaunchTypeOK, LaunchInv
  PROVE  AnsweredIsSettled
  BY DEF LaunchInv, ScriptInv, AnsweredIsSettled

\* Only a script's own rollback makes it fail, and it kills only its own pane.
LEMMA RollbackSpares ==
  ASSUME LaunchTypeOK, LaunchNext \/ UNCHANGED launchVars, NEW n \in Scripts,
         script'[n] = "failed", script[n] # "failed", tmuxSess.by # n
  PROVE  tmuxSess' = tmuxSess
<1>1. \E m \in Scripts : ScriptStep(m)
  <2>1. CASE Preflight
    BY <2>1 DEF Preflight, LaunchTypeOK
  <2>2. CASE ReadAnswer
    BY <2>2 DEF ReadAnswer, LaunchTypeOK
  <2> QED
    BY <2>1, <2>2 DEF LaunchNext, launchVars, Readiness, BinsChange, BeginSetup, Setup,
       ProvisionSkills, StartSession, GiveUpWaiting, MarkOwner, MarkGeneration, PersistLaunch,
       WrapperRuns, PaneEnds
<1>2. PICK m \in Scripts : ScriptStep(m)
  BY <1>1
<1>3. ASSUME NEW step, step # "failed", Advance(m, step)
      PROVE  FALSE
  BY <1>3 DEF Advance, LaunchTypeOK
<1>4. AbortLaunch(m)
  BY <1>2, <1>3 DEF ScriptStep, ScriptStages, ScriptCreates, ScriptConfigures,
     ScriptRespawns, ScriptInspects, ScriptCommits
<1>5. m = n
  BY <1>4 DEF AbortLaunch, LaunchTypeOK
<1> QED
  BY <1>4, <1>5 DEF AbortLaunch, Cleanup

------------------------------------------------------------------------------
\* Passwords of ssh commands (tmux ssh.rs)

CmdStates == [way: {"captured", "public"}, pc: CmdSteps]

\* A command past the helper's check has a whole helper to run with, and its
\* password file is guarded from staging until somebody else answers for it.
CmdInv(c) ==
  /\ cmd[c].pc = "repair" => helper \in {"loose", "good"}
  /\ cmd[c].pc \in {"stage", "build", "running"} => helper = "good"
  /\ cmd[c].pc \in {"new", "dir", "repair", "replace", "stage", "refused"} =>
       secret[c] = "none"
  /\ cmd[c].pc = "build" => secret[c] = "guarded"
  /\ cmd[c].pc = "running" /\ cmd[c].way = "captured" => secret[c] = "guarded"
  /\ cmd[c].pc = "running" /\ cmd[c].way = "public" => secret[c] # "guarded"
  /\ cmd[c].pc = "ended" => secret[c] # "guarded"

AskInv == \A c \in SshCmds: CmdInv(c)

\* A step of one command: the others only see the helper, which gets no worse.
LEMMA OneCommand ==
  ASSUME AskTypeOK, AskInv, NEW c \in SshCmds, NEW r \in CmdStates,
         cmd' = [cmd EXCEPT ![c] = r],
         NEW w \in {"none", "guarded", "timed", "orphan"},
         secret' = [secret EXCEPT ![c] = w],
         helper' \in Helpers, stageFails' \in 0..MaxStageFails,
         helper = "good" => helper' = "good",
         helper = "loose" => helper' \in {"loose", "good"},
         CmdInv(c)'
  PROVE  AskTypeOK' /\ AskInv'
<1>1. AskTypeOK'
  BY DEF AskTypeOK, CmdStates
<1>2. ASSUME NEW d \in SshCmds \ {c}
      PROVE  CmdInv(d)'
  <2>1. cmd'[d] = cmd[d] /\ secret'[d] = secret[d] /\ CmdInv(d)
    BY DEF AskTypeOK, AskInv
  <2> QED
    BY <2>1 DEF CmdInv
<1> QED
  BY <1>1, <1>2 DEF AskInv

\* What one step to at leaves of the command's record.
LEMMA StepIs ==
  ASSUME AskTypeOK, NEW c \in SshCmds, NEW at \in CmdSteps, ToStep(c, at)
  PROVE  \E r \in CmdStates:
           /\ cmd' = [cmd EXCEPT ![c] = r] /\ cmd'[c] = r
           /\ r.pc = at /\ r.way = cmd[c].way
<1> DEFINE r == [cmd[c] EXCEPT !.pc = at]
<1>1. cmd' = [cmd EXCEPT ![c] = r] /\ cmd'[c] = r
  BY DEF ToStep, AskTypeOK
<1>2. cmd[c] \in CmdStates
  BY DEF AskTypeOK, CmdStates
<1>3. r \in CmdStates /\ r.pc = at /\ r.way = cmd[c].way
  BY <1>2 DEF CmdStates
<1> QED
  BY <1>1, <1>3

\* A failing step stays within the bound.
LEMMA StageFailCounts ==
  ASSUME AskTypeOK, stageFails < MaxStageFails, stageFails' = stageFails + 1
  PROVE  stageFails' \in 0..MaxStageFails
  BY AskAssumption DEF AskTypeOK

\* The invariant of the password files is inductive.
LEMMA AskSteps ==
  ASSUME AskTypeOK, AskInv, AskNext \/ UNCHANGED askVars
  PROVE  AskTypeOK' /\ AskInv'
<1>1. CASE UNCHANGED askVars
  BY <1>1 DEF askVars, AskTypeOK, AskInv, CmdInv
<1> SUFFICES ASSUME NEW c \in SshCmds,
                    \/ BuildCommand(c) \/ CheckHelper(c) \/ RepairHelper(c)
                    \/ ReplaceHelper(c) \/ StageSecret(c) \/ PreparationFails(c)
                    \/ HandOut(c) \/ RunCaptured(c) \/ CapturedEnds(c) \/ StreamingEnds(c)
                    \/ CleanupThread(c) \/ RemovalFails(c)
             PROVE  AskTypeOK' /\ AskInv'
  BY <1>1 DEF AskNext
<1>2. /\ cmd[c] \in CmdStates /\ secret[c] \in {"none", "guarded", "timed", "orphan"}
      /\ helper \in Helpers /\ stageFails \in 0..MaxStageFails /\ CmdInv(c)
      /\ cmd = [cmd EXCEPT ![c] = cmd[c]] /\ secret = [secret EXCEPT ![c] = secret[c]]
  BY DEF AskTypeOK, AskInv, CmdStates
<1>3. ASSUME NEW w \in {"none", "guarded", "timed", "orphan"}, Secret(c, w)
      PROVE  secret' = [secret EXCEPT ![c] = w] /\ secret'[c] = w
  BY <1>3 DEF Secret, AskTypeOK
<1>4. ASSUME NEW at \in CmdSteps, ToStep(c, at), UNCHANGED secret,
             helper' \in Helpers, stageFails' \in 0..MaxStageFails,
             helper = "good" => helper' = "good",
             helper = "loose" => helper' \in {"loose", "good"},
             \A r \in CmdStates:
               cmd'[c] = r /\ r.pc = at /\ r.way = cmd[c].way => CmdInv(c)'
      PROVE  AskTypeOK' /\ AskInv'
  <2>1. PICK r \in CmdStates: cmd' = [cmd EXCEPT ![c] = r] /\ cmd'[c] = r
                              /\ r.pc = at /\ r.way = cmd[c].way
    BY <1>4, StepIs
  <2> QED
    BY <1>2, <1>4, <2>1, OneCommand
<1>5. ASSUME NEW at \in CmdSteps, ToStep(c, at),
             NEW w \in {"none", "guarded", "timed", "orphan"}, Secret(c, w),
             UNCHANGED helper, stageFails' \in 0..MaxStageFails,
             \A r \in CmdStates:
               cmd'[c] = r /\ secret'[c] = w /\ r.pc = at /\ r.way = cmd[c].way => CmdInv(c)'
      PROVE  AskTypeOK' /\ AskInv'
  <2>1. PICK r \in CmdStates: cmd' = [cmd EXCEPT ![c] = r] /\ cmd'[c] = r
                              /\ r.pc = at /\ r.way = cmd[c].way
    BY <1>5, StepIs
  <2>2. secret' = [secret EXCEPT ![c] = w] /\ secret'[c] = w
    BY <1>5, <1>3
  <2> QED
    BY <1>2, <1>5, <2>1, <2>2, OneCommand
<1> USE DEF CmdAt
<1>6. CASE BuildCommand(c)
  <2>1. ToStep(c, "dir") /\ UNCHANGED <<helper, secret, stageFails>> /\ cmd[c].pc = "new"
    BY <1>6 DEF BuildCommand
  <2>2. ASSUME NEW r \in CmdStates, cmd'[c] = r, r.pc = "dir"
        PROVE  CmdInv(c)'
    BY <1>2, <2>1, <2>2 DEF CmdInv
  <2> QED
    BY <1>2, <1>4, <2>1, <2>2 DEF CmdSteps
<1>7. CASE CheckHelper(c)
  <2>1. /\ UNCHANGED <<helper, secret, stageFails>> /\ cmd[c].pc = "dir"
        /\ \/ ToStep(c, "repair") /\ helper \in {"loose", "good"}
           \/ ToStep(c, "replace")
    BY <1>7 DEF CheckHelper
  <2>2. ASSUME NEW r \in CmdStates, cmd'[c] = r,
               r.pc = "replace" \/ (r.pc = "repair" /\ helper \in {"loose", "good"})
        PROVE  CmdInv(c)'
    BY <1>2, <2>1, <2>2 DEF CmdInv
  <2> QED
    BY <1>2, <1>4, <2>1, <2>2 DEF CmdSteps
<1>8. CASE RepairHelper(c)
  <2>1. /\ cmd[c].pc = "repair" /\ helper' = "good" /\ ToStep(c, "stage")
        /\ UNCHANGED <<secret, stageFails>>
    BY <1>2, <1>8 DEF RepairHelper, CmdInv
  <2>2. ASSUME NEW r \in CmdStates, cmd'[c] = r, r.pc = "stage"
        PROVE  CmdInv(c)'
    BY <1>2, <2>1, <2>2 DEF CmdInv
  <2> QED
    BY <1>2, <1>4, <2>1, <2>2 DEF CmdSteps, Helpers
<1>9. CASE ReplaceHelper(c)
  <2>1. /\ cmd[c].pc = "replace" /\ helper' = "good" /\ ToStep(c, "stage")
        /\ UNCHANGED <<secret, stageFails>>
    BY <1>9 DEF ReplaceHelper
  <2>2. ASSUME NEW r \in CmdStates, cmd'[c] = r, r.pc = "stage"
        PROVE  CmdInv(c)'
    BY <1>2, <2>1, <2>2 DEF CmdInv
  <2> QED
    BY <1>2, <1>4, <2>1, <2>2 DEF CmdSteps, Helpers
<1>10. CASE StageSecret(c)
  <2>1. /\ cmd[c].pc = "stage" /\ Secret(c, "guarded") /\ ToStep(c, "build")
        /\ UNCHANGED <<helper, stageFails>>
    BY <1>10 DEF StageSecret
  <2>2. ASSUME NEW r \in CmdStates, cmd'[c] = r, r.pc = "build", secret'[c] = "guarded"
        PROVE  CmdInv(c)'
    BY <1>2, <2>1, <2>2 DEF CmdInv
  <2> QED
    BY <1>2, <1>5, <2>1, <2>2 DEF CmdSteps
<1>11. CASE PreparationFails(c)
  <2>1. /\ cmd[c].pc \in {"dir", "repair", "replace", "stage"} /\ ToStep(c, "refused")
        /\ UNCHANGED <<helper, secret>> /\ stageFails' \in 0..MaxStageFails
    BY <1>11, StageFailCounts DEF PreparationFails
  <2>2. ASSUME NEW r \in CmdStates, cmd'[c] = r, r.pc = "refused"
        PROVE  CmdInv(c)'
    BY <1>2, <2>1, <2>2 DEF CmdInv
  <2> QED
    BY <1>2, <1>4, <2>1, <2>2 DEF CmdSteps
<1>12. CASE HandOut(c)
  <2>1. /\ cmd[c].pc = "build" /\ cmd[c].way = "public" /\ UNCHANGED helper
        /\ stageFails' \in 0..MaxStageFails
        /\ \/ Secret(c, "timed") /\ ToStep(c, "running")
           \/ Secret(c, "none") /\ ToStep(c, "refused")
    BY <1>2, <1>12, StageFailCounts DEF HandOut
  <2>2. ASSUME NEW r \in CmdStates, cmd'[c] = r, r.way = cmd[c].way,
               \/ r.pc = "running" /\ secret'[c] = "timed"
               \/ r.pc = "refused" /\ secret'[c] = "none"
        PROVE  CmdInv(c)'
    BY <1>2, <2>1, <2>2 DEF CmdInv
  <2> QED
    BY <1>2, <1>5, <2>1, <2>2 DEF CmdSteps
<1>13. CASE RunCaptured(c)
  <2>1. /\ cmd[c].pc = "build" /\ cmd[c].way = "captured" /\ ToStep(c, "running")
        /\ UNCHANGED <<helper, secret, stageFails>>
    BY <1>13 DEF RunCaptured
  <2>2. ASSUME NEW r \in CmdStates, cmd'[c] = r, r.pc = "running", r.way = cmd[c].way
        PROVE  CmdInv(c)'
    BY <1>2, <2>1, <2>2 DEF CmdInv
  <2> QED
    BY <1>2, <1>4, <2>1, <2>2 DEF CmdSteps
<1>14. CASE CapturedEnds(c)
  <2>1. /\ Secret(c, "none") /\ ToStep(c, "ended") /\ UNCHANGED <<helper, stageFails>>
    BY <1>14 DEF CapturedEnds, RemoveSecret
  <2>2. ASSUME NEW r \in CmdStates, cmd'[c] = r, r.pc = "ended", secret'[c] = "none"
        PROVE  CmdInv(c)'
    BY <1>2, <2>1, <2>2 DEF CmdInv
  <2> QED
    BY <1>2, <1>5, <2>1, <2>2 DEF CmdSteps
<1>15. CASE StreamingEnds(c)
  <2>1. /\ cmd[c].pc = "running" /\ cmd[c].way = "public" /\ ToStep(c, "ended")
        /\ UNCHANGED <<helper, secret, stageFails>>
    BY <1>15 DEF StreamingEnds
  <2>2. ASSUME NEW r \in CmdStates, cmd'[c] = r, r.pc = "ended"
        PROVE  CmdInv(c)'
    BY <1>2, <2>1, <2>2 DEF CmdInv
  <2> QED
    BY <1>2, <1>4, <2>1, <2>2 DEF CmdSteps
<1>16. CASE CleanupThread(c)
  <2>1. secret[c] = "timed" /\ UNCHANGED <<helper, cmd, stageFails>>
        /\ secret' = [secret EXCEPT ![c] = "none"] /\ secret'[c] = "none"
    BY <1>3, <1>16 DEF CleanupThread, RemoveSecret
  <2>2. CmdInv(c)'
    BY <1>2, <2>1 DEF CmdInv
  <2> QED
    BY <1>2, <2>1, <2>2, OneCommand
<1>17. CASE RemovalFails(c)
  <2>1. /\ secret[c] # "none" /\ UNCHANGED helper /\ stageFails' \in 0..MaxStageFails
        /\ \/ secret[c] = "timed" /\ UNCHANGED cmd
           \/ cmd[c].pc = "running" /\ ToStep(c, "ended")
        /\ Secret(c, "orphan")
    BY <1>17, StageFailCounts DEF RemovalFails
  <2>2. secret' = [secret EXCEPT ![c] = "orphan"] /\ secret'[c] = "orphan"
    BY <1>3, <2>1
  <2>3. CASE secret[c] = "timed" /\ UNCHANGED cmd
    <3>1. CmdInv(c)'
      BY <1>2, <2>1, <2>2, <2>3 DEF CmdInv
    <3> QED
      BY <1>2, <2>1, <2>2, <2>3, <3>1, OneCommand
  <2>4. CASE cmd[c].pc = "running" /\ ToStep(c, "ended")
    <3>1. ASSUME NEW r \in CmdStates, cmd'[c] = r, r.pc = "ended", secret'[c] = "orphan"
          PROVE  CmdInv(c)'
      BY <1>2, <2>1, <2>4, <3>1 DEF CmdInv
    <3> QED
      BY <1>5, <2>1, <2>4, <3>1 DEF CmdSteps
  <2> QED
    BY <2>1, <2>3, <2>4
<1> QED
  BY <1>6, <1>7, <1>8, <1>9, <1>10, <1>11, <1>12, <1>13, <1>14, <1>15, <1>16, <1>17

\* It holds at the start.
LEMMA AskStarts ==
  ASSUME AskInit
  PROVE  AskTypeOK /\ AskInv
<1>1. \A c \in SshCmds: cmd[c].pc = "new" /\ secret[c] = "none"
  BY DEF AskInit
<1>2. AskInv
  BY <1>1 DEF AskInv, CmdInv
<1>3. AskTypeOK
  BY AskAssumption DEF AskInit, AskTypeOK, CmdSteps
<1> QED
  BY <1>2, <1>3

\* It gives the property the hosts run checks.
LEMMA AskMeans ==
  ASSUME AskTypeOK, AskInv
  PROVE  PasswordIsThere
  BY DEF AskInv, CmdInv, PasswordIsThere, CmdAt

-------------------------------------------------------------------------------
\* The components together

LaunchesInv ==
  /\ ConfigTypeOK /\ ConfigInv
  /\ LaunchTypeOK /\ LaunchInv
  /\ AskTypeOK /\ AskInv

\* The launches' invariant is inductive, from the start.
LEMMA LaunchesStep ==
  /\ MCInit => LaunchesInv
  /\ LaunchesInv /\ [MCNext]_MCVars => LaunchesInv'
<1>1. MCInit => LaunchesInv
  BY ConfigStarts, LaunchStarts, AskStarts DEF MCInit, LaunchesInv
<1>2. ASSUME LaunchesInv, [MCNext]_MCVars
      PROVE  LaunchesInv'
  BY <1>2, EachSteps, ConfigSteps, LaunchSteps, AskSteps DEF LaunchesInv
<1> QED
  BY <1>1, <1>2

\* What a launch put down is there while it is needed and gone when it is not
\* (mcp_provision.rs, host_runtime.rs, ssh.rs), whatever fails, restarts or is
\* given up: a running Claude session keeps its private file, an answered
\* script has left no environment file and a failed one no pane, and a
\* captured ssh finds its password and the whole helper.
THEOREM LaunchesSettle == MCSpec => []LaunchIsSettled
<1>1. LaunchesInv => LaunchIsSettled
  BY ConfigMeans, LaunchMeans, AskMeans DEF LaunchesInv, LaunchIsSettled
<1> QED
  BY <1>1, LaunchesStep, PTL DEF MCSpec

\* The trap of a launch script kills only the session this script created
\* (host_runtime.rs remote_launch_script): a pane of another attempt stays.
THEOREM RollbackIsOwn == MCSpec => RollbackSparesOthers
<1> DEFINE Spares == \A n \in Scripts :
                       script'[n] = "failed" /\ script[n] # "failed" /\ tmuxSess.by # n
                       => tmuxSess' = tmuxSess
<1>1. LaunchesInv /\ [MCNext]_MCVars => [Spares]_launchVars
  <2> SUFFICES ASSUME LaunchesInv, [MCNext]_MCVars
               PROVE  Spares
    OBVIOUS
  <2> QED
    BY EachSteps, RollbackSpares DEF LaunchesInv
<1> QED
  BY <1>1, LaunchesStep, PTL DEF MCSpec, RollbackSparesOthers

\* Every variable of every component keeps its type.
THEOREM HostTypes == MCSpec => []HostTypeOK
<1>1. MCInit => StartersInv /\ SignInv /\ LaunchesInv
  BY StartersStart, SignStarts, LaunchesStep DEF MCInit
<1>2. StartersInv /\ SignInv /\ LaunchesInv /\ [MCNext]_MCVars
        => StartersInv' /\ SignInv' /\ LaunchesInv'
  BY StartersStep, EachSteps, SignSteps, LaunchesStep
<1>3. StartersInv /\ SignInv /\ LaunchesInv => HostTypeOK
  BY LeaseMeans, LocalMeans, FilesMean, BrowserMeans, SignMeans
  DEF StartersInv, LaunchesInv, HostTypeOK
<1> QED
  BY <1>1, <1>2, <1>3, PTL DEF MCSpec
=============================================================================
