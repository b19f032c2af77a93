------------------------- MODULE VpnSessionsProofs -------------------------
(***************************************************************************)
(* Theorems about what stands behind the VPN and DNS services, for any     *)
(* number of accounts, runs, users, workers, requests, profiles and        *)
(* records: the sessions that overlapping sync runs open (VpnSessions),    *)
(* what operations tell of config.json (XrayConfig), and which DNS records *)
(* count as synced (SmartDns).                                             *)
(***************************************************************************)
EXTENDS MCVpnSessions, FiniteSetTheorems, TLAPS

LEMMA InitInv == ASSUME SessionsAssumption PROVE Init => IInv
<1> SUFFICES ASSUME Init PROVE IInv
  OBVIOUS
<1>1. TypeOK
  BY DEF Init, TypeOK, Run, Idle
<1>2. ASSUME NEW a \in Accounts
      PROVE  Cardinality(open[a]) + Cardinality(Opening(a)) <= Cardinality(Runs)
  <2>1. open[a] = {} /\ Opening(a) = {}
    BY DEF Init, Idle, Opening
  <2>2. Cardinality({}) = 0 /\ Cardinality(Runs) \in Nat
    BY FS_EmptySet, FS_CardinalityType DEF SessionsAssumption
  <2> QED
    BY <2>1, <2>2
<1> QED
  BY <1>1, <1>2 DEF IInv, OpenOrOpening

\* Every step keeps the types.
LEMMA StepType == TypeOK /\ [Next]_vars => TypeOK'
<1> SUFFICES ASSUME TypeOK, [Next]_vars PROVE TypeOK'
  OBVIOUS
<1> USE DEF TypeOK, world, health
<1>a. Idle \in Run
  BY DEF Idle, Run
<1>1. CASE UNCHANGED vars
  BY <1>1 DEF vars
<1>2. ASSUME NEW a \in Accounts, PeerConnects(a) PROVE TypeOK'
  BY <1>2 DEF PeerConnects
<1>3. ASSUME NEW a \in Accounts, UpdateVpnAccount(a) PROVE TypeOK'
  BY <1>3 DEF UpdateVpnAccount
<1>4. ASSUME NEW a \in Accounts, Age(a) PROVE TypeOK'
  BY <1>4 DEF Age
<1>5. ASSUME NEW r \in Runs, Poll(r) PROVE TypeOK'
  <2>1. PICK peers \in SUBSET Accounts :
          run' = [run EXCEPT ![r] = [Idle EXCEPT !.at = "polled", !.peers = peers,
                                                 !.up = peers \intersect alive]]
    BY <1>5 DEF Poll
  <2>2. [Idle EXCEPT !.at = "polled", !.peers = peers, !.up = peers \intersect alive] \in Run
    BY DEF Idle, Run
  <2>3. run' \in [Runs -> Run]
    BY <2>1, <2>2
  <2> QED
    BY <1>5, <2>3 DEF Poll
<1>6. ASSUME NEW r \in Runs, Load(r) PROVE TypeOK'
  <2> DEFINE gone == {a \in (run[r].peers \ run[r].up) \intersect Active : open[a] # {}}
             opens == {a \in run[r].up \intersect Active : open[a] = {}}
  <2>1. PICK first \in [gone -> Ids] :
          run' = [run EXCEPT ![r] = [Idle EXCEPT !.at = "loaded", !.opens = opens,
                                                 !.ends = {first[a] : a \in gone}]]
    BY <1>6 DEF Load
  <2>2. opens \subseteq Accounts /\ {first[a] : a \in gone} \subseteq Ids
    BY DEF Active
  <2> HIDE DEF gone, opens
  <2>3. [Idle EXCEPT !.at = "loaded", !.opens = opens,
                     !.ends = {first[a] : a \in gone}] \in Run
    BY <2>2 DEF Idle, Run
  <2>4. run' \in [Runs -> Run]
    BY <2>1, <2>3
  <2> QED
    BY <1>6, <2>4 DEF Load
<1>7. ASSUME NEW r \in Runs, Commit(r) PROVE TypeOK'
  <2>1. open' \in [Accounts -> SUBSET Ids]
    BY <1>7 DEF Commit, Fresh
  <2> QED
    BY <1>7, <1>a, <2>1 DEF Commit
<1>8. ASSUME NEW r \in Runs, Die(r) PROVE TypeOK'
  BY <1>8, <1>a DEF Die
<1>9. CASE CleanupStaleSessions
  BY <1>9 DEF CleanupStaleSessions
<1>10. CASE ServerFails \/ LoadServers \/ CheckServerHealth
  BY <1>10 DEF ServerFails, LoadServers, CheckServerHealth
<1> QED
  BY <1>1, <1>2, <1>3, <1>4, <1>5, <1>6, <1>7, <1>8, <1>9, <1>10 DEF Next

\* The sessions and the runs counted are finitely many.
LEMMA Counted ==
  ASSUME SessionsAssumption, TypeOK, NEW a \in Accounts
  PROVE  /\ IsFiniteSet(open[a]) /\ Cardinality(open[a]) \in Nat
         /\ IsFiniteSet(Opening(a)) /\ Cardinality(Opening(a)) \in Nat
         /\ Cardinality(Opening(a)) <= Cardinality(Runs)
         /\ Cardinality(Runs) \in Nat
<1>1. open[a] \subseteq Ids /\ Opening(a) \subseteq Runs
  BY DEF TypeOK, Opening
<1> QED
  BY <1>1, FS_Subset, FS_CardinalityType DEF SessionsAssumption

\* An account that loses sessions, or runs about to open one, keeps the bound.
LEMMA Fewer ==
  ASSUME SessionsAssumption, TypeOK, OpenOrOpening, NEW a \in Accounts,
         open'[a] \subseteq open[a], Opening(a)' \subseteq Opening(a)
  PROVE  Cardinality(open'[a]) + Cardinality(Opening(a)') <= Cardinality(Runs)
<1>1. /\ Cardinality(open'[a]) <= Cardinality(open[a])
      /\ Cardinality(Opening(a)') <= Cardinality(Opening(a))
      /\ IsFiniteSet(open'[a]) /\ IsFiniteSet(Opening(a)')
  BY Counted, FS_Subset
<1>2. Cardinality(open'[a]) \in Nat /\ Cardinality(Opening(a)') \in Nat
  BY <1>1, FS_CardinalityType
<1>3. Cardinality(open[a]) + Cardinality(Opening(a)) <= Cardinality(Runs)
  BY DEF OpenOrOpening
<1> QED
  BY <1>1, <1>2, <1>3, Counted

\* A commit turns a run that opens a session into a session.
LEMMA Committed ==
  ASSUME SessionsAssumption, TypeOK, OpenOrOpening, NEW r \in Runs, Commit(r), NEW a \in Accounts
  PROVE  Cardinality(open'[a]) + Cardinality(Opening(a)') <= Cardinality(Runs)
<1>1. run'[r].opens = {} /\ \A q \in Runs \ {r} : run'[q] = run[q]
  BY DEF Commit, Idle, TypeOK
<1>2. CASE a \notin run[r].opens
  <2>1. open'[a] \subseteq open[a]
    BY <1>2 DEF Commit
  <2>2. Opening(a)' \subseteq Opening(a)
    BY <1>1 DEF Opening
  <2> QED
    BY <2>1, <2>2, Fewer
<1>3. CASE a \in run[r].opens
  <2>1. PICK i : open'[a] = (open[a] \ run[r].ends) \union {i}
    BY <1>3 DEF Commit
  <2>2. Opening(a)' = Opening(a) \ {r} /\ r \in Opening(a)
    BY <1>1, <1>3 DEF Opening
  <2>3. Cardinality(Opening(a)') = Cardinality(Opening(a)) - 1
    BY <2>2, Counted, FS_RemoveElement
  <2>4. IsFiniteSet(open[a] \union {i})
        /\ Cardinality(open[a] \union {i}) <= Cardinality(open[a]) + 1
    <3>1. IsFiniteSet(open[a]) /\ Cardinality(open[a]) \in Nat
      BY Counted
    <3>2. /\ IsFiniteSet(open[a] \union {i})
          /\ \/ Cardinality(open[a] \union {i}) = Cardinality(open[a])
             \/ Cardinality(open[a] \union {i}) = Cardinality(open[a]) + 1
      BY <3>1, FS_AddElement
    <3> QED
      BY <3>1, <3>2
  <2>5. open'[a] \subseteq open[a] \union {i}
    BY <2>1
  <2>6. /\ Cardinality(open'[a]) <= Cardinality(open[a] \union {i})
        /\ IsFiniteSet(open'[a])
    BY <2>4, <2>5, FS_Subset
  <2>7. Cardinality(open'[a]) \in Nat /\ Cardinality(open[a] \union {i}) \in Nat
    BY <2>4, <2>6, FS_CardinalityType
  <2>8. Cardinality(open[a]) + Cardinality(Opening(a)) <= Cardinality(Runs)
    BY DEF OpenOrOpening
  <2> QED
    BY <2>3, <2>4, <2>6, <2>7, <2>8, Counted
<1> QED
  BY <1>2, <1>3

\* A load opens a session only where there is none.
LEMMA Loaded ==
  ASSUME SessionsAssumption, TypeOK, OpenOrOpening, NEW r \in Runs, Load(r), NEW a \in Accounts, TypeOK'
  PROVE  Cardinality(open'[a]) + Cardinality(Opening(a)') <= Cardinality(Runs)
<1>1. open' = open /\ \A q \in Runs \ {r} : run'[q] = run[q]
  BY DEF Load, TypeOK
<1>2. CASE a \in run'[r].opens
  <2>1. open[a] = {}
    BY <1>2 DEF Load, TypeOK, Idle
  <2>2. Cardinality(Opening(a)') <= Cardinality(Runs)
        /\ Cardinality(Opening(a)') \in Nat /\ Cardinality(Runs) \in Nat
    <3>1. Opening(a)' \subseteq Runs
      BY DEF Opening
    <3> QED
      BY <3>1, FS_Subset, FS_CardinalityType DEF SessionsAssumption
  <2> QED
    BY <1>1, <2>1, <2>2, FS_EmptySet
<1>3. CASE a \notin run'[r].opens
  <2>1. Opening(a)' \subseteq Opening(a)
    BY <1>1, <1>3 DEF Opening
  <2> QED
    BY <1>1, <2>1, Fewer
<1> QED
  BY <1>2, <1>3

\* Every step keeps the bound.
LEMMA StepBound ==
  ASSUME SessionsAssumption PROVE TypeOK /\ OpenOrOpening /\ [Next]_vars => OpenOrOpening'
<1> SUFFICES ASSUME TypeOK, OpenOrOpening, [Next]_vars, TypeOK', NEW a \in Accounts
             PROVE  Cardinality(open'[a]) + Cardinality(Opening(a)') <= Cardinality(Runs)
  BY StepType DEF OpenOrOpening
<1>1. CASE open' = open /\ run' = run
  BY <1>1, Fewer DEF Opening
<1>2. ASSUME NEW r \in Runs, Poll(r) \/ Die(r)
      PROVE  Cardinality(open'[a]) + Cardinality(Opening(a)') <= Cardinality(Runs)
  <2>1. open' = open /\ run'[r].opens = {} /\ \A q \in Runs \ {r} : run'[q] = run[q]
    <3>1. CASE Poll(r)
      BY <3>1 DEF Poll, Idle, TypeOK
    <3>2. CASE Die(r)
      BY <3>2 DEF Die, Idle, TypeOK
    <3> QED
      BY <1>2, <3>1, <3>2
  <2>2. Opening(a)' \subseteq Opening(a)
    BY <2>1 DEF Opening
  <2> QED
    BY <2>1, <2>2, Fewer
<1>3. ASSUME NEW r \in Runs, Load(r)
      PROVE  Cardinality(open'[a]) + Cardinality(Opening(a)') <= Cardinality(Runs)
  BY <1>3, Loaded
<1>4. ASSUME NEW r \in Runs, Commit(r)
      PROVE  Cardinality(open'[a]) + Cardinality(Opening(a)') <= Cardinality(Runs)
  BY <1>4, Committed
<1>5. CASE CleanupStaleSessions
  <2>1. open'[a] \subseteq open[a] /\ run' = run
    BY <1>5 DEF CleanupStaleSessions
  <2> QED
    BY <2>1, Fewer DEF Opening
<1>6. CASE UNCHANGED vars
  BY <1>6, <1>1 DEF vars
<1>7. CASE \E b \in Accounts : PeerConnects(b) \/ UpdateVpnAccount(b) \/ Age(b)
  BY <1>7, <1>1 DEF PeerConnects, UpdateVpnAccount, Age
<1>8. CASE ServerFails \/ LoadServers \/ CheckServerHealth
  BY <1>8, <1>1 DEF ServerFails, LoadServers, CheckServerHealth
<1> QED
  BY <1>2, <1>3, <1>4, <1>5, <1>6, <1>7, <1>8 DEF Next

\* However sync runs overlap, die and are retried, an account has no more
\* CONNECTED sessions than there can be runs at once.
THEOREM OneSessionPerRunHolds ==
  ASSUME SessionsAssumption PROVE Spec => []OneSessionPerRun
<1>0. Init => IInv
  BY InitInv
<1>1. IInv /\ [Next]_vars => IInv'
  BY StepType, StepBound DEF IInv
<1>2. IInv => OneSessionPerRun
  <2> SUFFICES ASSUME IInv, NEW a \in Accounts
               PROVE  Cardinality(open[a]) <= Cardinality(Runs)
    BY DEF OneSessionPerRun
  <2> QED
    BY Counted DEF IInv, OpenOrOpening
<1> QED
  BY <1>0, <1>1, <1>2, PTL DEF Spec

-----------------------------------------------------------------------------
(* config.json *)

LEMMA XrayConstants ==
    /\ Main # Extra /\ Main \in Xray!Tags /\ Main \in Xray!Vless
    /\ \A users \in SUBSET Users : NoList # users
    /\ Missing \notin Xray!Config /\ Torn \notin Xray!Config /\ Missing # Torn
    /\ Lists \subseteq SUBSET Users
  BY VpnAssumption DEF Xray!XrayAssumption, Xray!Tags, Xray!Vless

\* The users in an inbound.
LEMMA XrayClients ==
    ASSUME NEW c \in Xray!Config, NEW t \in Xray!Tags
    PROVE  /\ Xray!Clients(c, t) \subseteq Users
           /\ c[t] # NoList => Xray!Clients(c, t) = c[t]
           /\ c[t] = NoList => Xray!Clients(c, t) = {}
  BY DEF Xray!Clients, Xray!Config

LEMMA XrayListed ==
    ASSUME NEW c, NEW t, c[t] \in SUBSET Users
    PROVE  c[t] # NoList /\ Xray!Clients(c, t) = c[t]
  BY XrayConstants DEF Xray!Clients

\* What each operation makes of a config, and what it tells.
LEMMA XrayEdits ==
    ASSUME NEW j
    PROVE  /\ j.op = "suspend" => Xray!Edited(j) = Xray!SuspendIn(j.conf, j.users)
           /\ j.op = "restore" => Xray!Edited(j) = Xray!RestoreIn(j.conf, j.users)
           /\ j.op = "add" => Xray!Edited(j) = Xray!AddTo(j.conf, j.users)
           /\ j.op = "remove" => Xray!Edited(j) = Xray!RemoveFrom(j.conf, j.users)
           /\ j.op = "sync" => Xray!Edited(j) = Xray!SyncTo(j.conf, j.users)
           /\ j.op \in {"write", "create"} => Xray!Edited(j) = Xray!FullServerConfig(j.users)
  BY DEF Xray!Edited

\* Whom an operation is about, and what it tells.
LEMMA XrayWords ==
    /\ Xray!Word("suspend") = "suspended"
    /\ Xray!Word("restore") = "restored" /\ Xray!Word("create") = "restored"
    /\ Xray!Word("add") = "nothing" /\ Xray!Word("remove") = "nothing"
    /\ Xray!Word("sync") = "nothing" /\ Xray!Word("write") = "nothing"
    /\ \A op \in Xray!Ops : Xray!Word(op) \in {"nothing", "suspended", "restored"}
    /\ \A users : /\ Xray!Concerned("suspend", users) = users
                  /\ Xray!Concerned("restore", users) = users
                  /\ Xray!Concerned("create", users) = users
                  /\ Xray!Concerned("add", users) = users
                  /\ Xray!Concerned("remove", users) = users
                  /\ Xray!Concerned("sync", users) = Users
                  /\ Xray!Concerned("write", users) = Users
  BY DEF Xray!Word, Xray!Concerned, Xray!Ops

\* What is told by an operation that overlapped another one only takes words back.
LEMMA XrayTells ==
    ASSUME Xray!TypeOK, NEW op \in Xray!Ops, NEW users, NEW overlapped \in BOOLEAN,
           Xray!Tell(op, users, overlapped)
    PROVE  /\ told' \in [Users -> {"nothing", "suspended", "restored"}]
           /\ \A u \in Users \ Xray!Concerned(op, users) : told'[u] = told[u]
           /\ \A u \in Users : u \in Xray!Concerned(op, users) =>
                told'[u] = IF overlapped THEN "nothing" ELSE Xray!Word(op)
           /\ overlapped => \A u \in Users : told'[u] \in {told[u], "nothing"}
  BY XrayWords DEF Xray!Tell, Xray!TypeOK

LEMMA XrayTrue ==
    ASSUME NEW c, NEW u
    PROVE  /\ Xray!True(c, "nothing", u)
           /\ Xray!True(c, "suspended", u) <=> \A t \in Xray!Tags : u \notin Xray!Clients(c, t)
           /\ Xray!True(c, "restored", u) <=> u \in Xray!Clients(c, Main)
  BY DEF Xray!True

LEMMA XraySofter ==
    ASSUME NEW c, NEW u, Xray!True(c, told[u], u), told'[u] \in {told[u], "nothing"}
    PROVE  Xray!True(c, told'[u], u)
  BY XrayTrue

LEMMA XrayEditedConfig ==
    ASSUME NEW j \in Xray!Job
    PROVE  Xray!Edited(j) \in Xray!Config
<1>1. j.conf \in Xray!Config /\ j.users \subseteq Users /\ j.op \in Xray!Ops
  BY DEF Xray!Job
<1>2. Main \in Xray!Tags
  BY XrayConstants
<1>3. CASE j.op = "suspend"
  <2>1. \A t \in Xray!Tags : Xray!Clients(j.conf, t) \ j.users \in SUBSET Users
    BY <1>1, XrayClients
  <2> QED
    BY <1>3, <2>1, XrayEdits DEF Xray!SuspendIn, Xray!Config
<1>4. CASE j.op = "restore"
  <2>1. \A t \in Xray!Tags : j.conf[t] # NoList => j.conf[t] \union j.users \in SUBSET Users
    BY <1>1 DEF Xray!Config
  <2> QED
    BY <1>1, <1>4, <2>1, XrayEdits DEF Xray!RestoreIn, Xray!Config
<1>5. CASE j.op = "add"
  <2>1. Xray!Clients(j.conf, Main) \union j.users \in SUBSET Users
    BY <1>1, <1>2, XrayClients
  <2> QED
    BY <1>1, <1>5, <2>1, XrayEdits DEF Xray!AddTo, Xray!Config
<1>6. CASE j.op = "remove"
  <2>1. Xray!Clients(j.conf, Main) \ j.users \in SUBSET Users
    BY <1>1, <1>2, XrayClients
  <2> QED
    BY <1>1, <1>6, <2>1, XrayEdits DEF Xray!RemoveFrom, Xray!Config
<1>7. CASE j.op = "sync"
  BY <1>1, <1>7, XrayEdits DEF Xray!SyncTo, Xray!Config
<1>8. CASE j.op \in {"write", "create"}
  BY <1>1, <1>8, XrayEdits DEF Xray!FullServerConfig, Xray!Config
<1> QED
  BY <1>1, <1>3, <1>4, <1>5, <1>6, <1>7, <1>8 DEF Xray!Ops

LEMMA XrayIdle ==
    /\ Xray!Idle \in Xray!Job /\ Xray!Idle.at = "idle" /\ Xray!Idle.op = "write"
    /\ Xray!Idle.users = {} /\ Xray!NoConfig \in Xray!Config
  BY DEF Xray!Idle, Xray!Job, Xray!NoConfig, Xray!Config, Xray!Ops

\* The operations that begin, and those that open the file, as the worker's next job.
LEMMA XrayBegins ==
    ASSUME Xray!TypeOK, NEW w \in Workers
    PROVE  /\ \A u \in Users : Xray!RestoreWithoutFile(w, u) =>
                \E j \in Xray!Job : /\ file = Missing /\ Xray!Begins(w, j)
                                    /\ j.op = "create" /\ j.at = "read"
           /\ \A op \in Xray!Ops, users \in SUBSET Users : Xray!Begin(w, op, users) =>
                \E j \in Xray!Job : /\ file \in Xray!Config /\ Xray!Begins(w, j)
                                    /\ j.op = op /\ j.at = "read" /\ j.conf = file
           /\ \A users \in SUBSET Users : Xray!BeginWrite(w, users) =>
                \E j \in Xray!Job : Xray!Begins(w, j) /\ j.op = "write" /\ j.at = "read"
<1>1. ASSUME NEW u \in Users, Xray!RestoreWithoutFile(w, u)
      PROVE  \E j \in Xray!Job : /\ file = Missing /\ Xray!Begins(w, j)
                                 /\ j.op = "create" /\ j.at = "read"
  <2>1. PICK j : j = [Xray!Idle EXCEPT !.op = "create", !.users = {u}, !.at = "read"]
    OBVIOUS
  <2>2. j \in Xray!Job /\ j.op = "create" /\ j.at = "read"
    BY <2>1, XrayIdle DEF Xray!Job, Xray!Ops
  <2> QED
    BY <1>1, <2>1, <2>2 DEF Xray!RestoreWithoutFile
<1>2. ASSUME NEW op \in Xray!Ops, NEW users \in SUBSET Users, Xray!Begin(w, op, users)
      PROVE  \E j \in Xray!Job : /\ file \in Xray!Config /\ Xray!Begins(w, j)
                                 /\ j.op = op /\ j.at = "read" /\ j.conf = file
  <2>1. PICK j : j = [op |-> op, users |-> users, at |-> "read", conf |-> file]
    OBVIOUS
  <2>2. j \in Xray!Job /\ j.op = op /\ j.at = "read" /\ j.conf = file
    BY <1>2, <2>1 DEF Xray!Begin, Xray!Job
  <2> QED
    BY <1>2, <2>1, <2>2 DEF Xray!Begin
<1>3. ASSUME NEW users \in SUBSET Users, Xray!BeginWrite(w, users)
      PROVE  \E j \in Xray!Job : Xray!Begins(w, j) /\ j.op = "write" /\ j.at = "read"
  <2>1. PICK j : j = [Xray!Idle EXCEPT !.op = "write", !.users = users, !.at = "read"]
    OBVIOUS
  <2>2. j \in Xray!Job /\ j.op = "write" /\ j.at = "read"
    BY <2>1, XrayIdle DEF Xray!Job, Xray!Ops
  <2> QED
    BY <1>3, <2>1, <2>2 DEF Xray!BeginWrite
<1> QED
  BY <1>1, <1>2, <1>3

LEMMA XrayOpens ==
    ASSUME Xray!TypeOK, NEW w \in Workers, Xray!Truncate(w)
    PROVE  \E j \in Xray!Job : /\ work' = [work EXCEPT ![w] = j]
                               /\ j.op = work[w].op /\ j.users = work[w].users
                               /\ j.at = "truncated" /\ j.conf = Xray!Edited(work[w])
<1>1. PICK c : c = Xray!Edited(work[w])
  OBVIOUS
<1>2. work[w] \in Xray!Job /\ c \in Xray!Config
  BY <1>1, XrayEditedConfig DEF Xray!TypeOK
<1>3. PICK j : j = [work[w] EXCEPT !.at = "truncated", !.conf = c]
  OBVIOUS
<1>4. /\ j \in Xray!Job /\ j.op = work[w].op /\ j.users = work[w].users
      /\ j.at = "truncated" /\ j.conf = c
  BY <1>2, <1>3 DEF Xray!Job
<1>5. work' = [work EXCEPT ![w].at = "truncated", ![w].conf = c]
  BY <1>1 DEF Xray!Truncate
<1>6. work' = [work EXCEPT ![w] = j]
  BY <1>2, <1>3, <1>5 DEF Xray!TypeOK, Xray!Job
<1> QED
  BY <1>1, <1>4, <1>6

\* The alternatives of a step.
LEMMA XrayCases ==
    Xray!Next =>
      \/ \E u \in Users : Xray!SuspendWithoutFile(u)
      \/ \E w \in Workers :
           \/ \E j \in Xray!Job : /\ Xray!Begins(w, j) /\ j.at = "read"
                                  /\ \/ j.op = "create" /\ file = Missing
                                     \/ j.op = "write"
                                     \/ /\ file \in Xray!Config /\ j.conf = file
                                        /\ j.op \notin {"write", "create"}
           \/ Xray!NothingToDo(w) \/ Xray!Truncate(w) \/ Xray!Dump(w) \/ Xray!Crash(w)
      \/ ~Xray!TypeOK
<1> SUFFICES ASSUME Xray!Next, Xray!TypeOK, ~\E u \in Users : Xray!SuspendWithoutFile(u)
             PROVE  \E w \in Workers :
               \/ \E j \in Xray!Job : /\ Xray!Begins(w, j) /\ j.at = "read"
                                      /\ \/ j.op = "create" /\ file = Missing
                                         \/ j.op = "write"
                                         \/ /\ file \in Xray!Config /\ j.conf = file
                                            /\ j.op \notin {"write", "create"}
               \/ Xray!NothingToDo(w) \/ Xray!Truncate(w) \/ Xray!Dump(w) \/ Xray!Crash(w)
  OBVIOUS
<1>1. PICK w \in Workers :
        \/ \E u \in Users : Xray!RestoreWithoutFile(w, u)
        \/ \E u \in Users : \E op \in {"suspend", "restore", "add", "remove"} :
              Xray!Begin(w, op, {u})
        \/ \E users \in Lists : Xray!Begin(w, "sync", users) \/ Xray!BeginWrite(w, users)
        \/ Xray!NothingToDo(w) \/ Xray!Truncate(w) \/ Xray!Dump(w) \/ Xray!Crash(w)
  BY DEF Xray!Next
<1>2. CASE \E u \in Users : Xray!RestoreWithoutFile(w, u)
  BY <1>2, XrayBegins
<1>3. CASE \E u \in Users : \E op \in {"suspend", "restore", "add", "remove"} :
             Xray!Begin(w, op, {u})
  <2>1. PICK u \in Users, op \in {"suspend", "restore", "add", "remove"} : Xray!Begin(w, op, {u})
    BY <1>3
  <2>2. op \in Xray!Ops /\ {u} \in SUBSET Users
    BY DEF Xray!Ops
  <2> QED
    BY <2>1, <2>2, XrayBegins
<1>4. CASE \E users \in Lists : Xray!Begin(w, "sync", users) \/ Xray!BeginWrite(w, users)
  <2>1. PICK users \in Lists : Xray!Begin(w, "sync", users) \/ Xray!BeginWrite(w, users)
    BY <1>4
  <2>2. "sync" \in Xray!Ops /\ users \in SUBSET Users
    BY XrayConstants DEF Xray!Ops
  <2> QED
    BY <2>1, <2>2, XrayBegins
<1> QED
  BY <1>1, <1>2, <1>3, <1>4

LEMMA XrayInit == Xray!Init => Xray!IInv
<1> SUFFICES ASSUME Xray!Init PROVE Xray!IInv
  OBVIOUS
<1>1. \/ file = Missing
      \/ file \in Xray!Config /\ file[Main] = {}
  <2>1. SUFFICES ASSUME file # Missing PROVE file \in Xray!Config /\ file[Main] = {}
    OBVIOUS
  <2>2. PICK l \in {NoList, {}} :
          file = [t \in Xray!Tags |-> IF t = Main THEN {} ELSE IF t = Extra THEN l ELSE NoList]
    BY <2>1 DEF Xray!Init
  <2> QED
    BY <2>2, XrayConstants DEF Xray!Config
<1>2. Xray!TypeOK
  BY <1>1, XrayIdle DEF Xray!Init, Xray!TypeOK
<1>3. Xray!ToldHolds
  BY <1>1, XrayConstants, XrayTrue DEF Xray!Init, Xray!ToldHolds
<1>4. \A w \in Workers : work[w].at = "idle"
  BY XrayIdle DEF Xray!Init
<1>5. Xray!Overlaps /\ \A w \in Workers : Xray!Knows(w)
  BY <1>4 DEF Xray!Init, Xray!Overlaps, Xray!Busy, Xray!Writers, Xray!Knows
<1>6. Xray!HasMain /\ Xray!NothingRestored
  BY <1>1, XrayConstants DEF Xray!Init, Xray!HasMain, Xray!NothingRestored
<1> QED
  BY <1>2, <1>3, <1>5, <1>6 DEF Xray!IInv

\* What an operation will write says what it will tell, and of others what they were
\* told.
LEMMA XrayEditsTrue ==
    ASSUME Xray!IInv, NEW w \in Workers, work[w].at = "read"
    PROVE  /\ Xray!Edited(work[w])[Main] # NoList
           /\ \A u \in Xray!Concerned(work[w].op, work[w].users) :
                Xray!True(Xray!Edited(work[w]), Xray!Word(work[w].op), u)
           /\ \A u \in Users \ Xray!Concerned(work[w].op, work[w].users) :
                Xray!True(Xray!Edited(work[w]), told[u], u)
<1>1. PICK j : j = work[w]
  OBVIOUS
<1>2. /\ j \in Xray!Job /\ j.conf \in Xray!Config /\ j.users \subseteq Users
      /\ j.op \in Xray!Ops
  BY <1>1 DEF Xray!IInv, Xray!TypeOK, Xray!Job
<1>3. /\ j.op = "create" => \A u \in Users : told[u] # "restored"
      /\ j.op \notin {"write", "create"} =>
           j.conf[Main] # NoList /\ \A u \in Users : Xray!True(j.conf, told[u], u)
  BY <1>1 DEF Xray!IInv, Xray!Knows
<1>4. PICK c : c = Xray!Edited(j)
  OBVIOUS
<1>5. Main \in Xray!Tags /\ told \in [Users -> {"nothing", "suspended", "restored"}]
  BY XrayConstants DEF Xray!IInv, Xray!TypeOK
<1>6. SUFFICES /\ c[Main] # NoList
               /\ \A u \in Xray!Concerned(j.op, j.users) : Xray!True(c, Xray!Word(j.op), u)
               /\ \A u \in Users \ Xray!Concerned(j.op, j.users) : Xray!True(c, told[u], u)
  BY <1>1, <1>4
<1>7. ASSUME j.op \notin {"write", "create"}
      PROVE  /\ \A u \in Users :
                  /\ told[u] = "suspended" => \A t \in Xray!Tags : u \notin Xray!Clients(j.conf, t)
                  /\ told[u] = "restored" => u \in Xray!Clients(j.conf, Main)
             /\ j.conf[Main] # NoList /\ Xray!Clients(j.conf, Main) = j.conf[Main]
             /\ \A t \in Xray!Tags : Xray!Clients(j.conf, t) \subseteq Users
  BY <1>2, <1>3, <1>5, <1>7, XrayClients DEF Xray!True
<1>8. ASSUME NEW u \in Users,
             \A t \in Xray!Tags : u \in Xray!Clients(c, t) => u \in Xray!Clients(j.conf, t),
             u \in Xray!Clients(j.conf, Main) => u \in Xray!Clients(c, Main),
             j.op \notin {"write", "create"}
      PROVE  Xray!True(c, told[u], u)
  BY <1>7, <1>8 DEF Xray!True
<1>10. CASE j.op = "write"
  <2>1. c[Main] = j.users
    BY <1>4, <1>5, <1>10, XrayEdits DEF Xray!FullServerConfig
  <2> QED
    BY <1>2, <1>10, <2>1, XrayConstants, XrayWords, XrayTrue
<1>11. CASE j.op = "create"
  <2>1. \A t \in Xray!Tags : c[t] = IF t = Main THEN j.users ELSE NoList
    BY <1>4, <1>11, XrayEdits DEF Xray!FullServerConfig
  <2>2. c[Main] # NoList /\ Xray!Clients(c, Main) = j.users
    BY <1>2, <1>5, <2>1, XrayConstants DEF Xray!Clients
  <2>3. \A t \in Xray!Tags : Xray!Clients(c, t) \subseteq j.users
    BY <2>1, <2>2 DEF Xray!Clients
  <2>4. Xray!Concerned(j.op, j.users) = j.users /\ Xray!Word(j.op) = "restored"
    BY <1>11, XrayWords
  <2>5. \A u \in Users \ j.users : Xray!True(c, told[u], u)
    BY <1>3, <1>11, <2>3 DEF Xray!True
  <2> QED
    BY <2>2, <2>4, <2>5, XrayTrue
<1>12. CASE j.op = "suspend"
  <2>1. \A t \in Xray!Tags : c[t] = Xray!Clients(j.conf, t) \ j.users
    BY <1>4, <1>12, XrayEdits DEF Xray!SuspendIn
  <2>2. \A t \in Xray!Tags : Xray!Clients(c, t) = Xray!Clients(j.conf, t) \ j.users
                             /\ c[t] # NoList
    BY <1>7, <1>12, <2>1, XrayListed
  <2>3. Xray!Concerned(j.op, j.users) = j.users /\ Xray!Word(j.op) = "suspended"
    BY <1>12, XrayWords
  <2>4. \A u \in Users \ j.users : Xray!True(c, told[u], u)
    BY <1>5, <1>8, <1>12, <2>2
  <2> QED
    BY <1>5, <2>2, <2>3, <2>4, XrayTrue
<1>13. CASE j.op = "restore"
  <2>1. \A t \in Xray!Tags : c[t] = IF t \in Xray!Vless /\ j.conf[t] # NoList
                                      THEN j.conf[t] \union j.users ELSE j.conf[t]
    BY <1>4, <1>13, XrayEdits DEF Xray!RestoreIn
  <2>2. \A t \in Xray!Tags :
          Xray!Clients(c, t) \subseteq Xray!Clients(j.conf, t) \union j.users
    BY <1>2, <2>1, XrayConstants DEF Xray!Clients, Xray!Config
  <2>3. c[Main] = j.conf[Main] \union j.users
    BY <1>7, <1>13, <2>1, XrayConstants
  <2>4. /\ c[Main] # NoList
        /\ Xray!Clients(c, Main) = Xray!Clients(j.conf, Main) \union j.users
    <3>1. Xray!Clients(j.conf, Main) = j.conf[Main] /\ j.conf[Main] \in SUBSET Users
      BY <1>5, <1>7, <1>13
    <3>2. c[Main] \in SUBSET Users
      BY <1>2, <2>3, <3>1
    <3> QED
      BY <2>3, <3>1, <3>2, XrayListed
  <2>5. Xray!Concerned(j.op, j.users) = j.users /\ Xray!Word(j.op) = "restored"
    BY <1>13, XrayWords
  <2>6. \A u \in Users \ j.users : Xray!True(c, told[u], u)
    BY <1>8, <1>13, <2>2, <2>4
  <2> QED
    BY <2>4, <2>5, <2>6, XrayTrue
<1>14. CASE j.op \in {"add", "remove"}
  <2>1. \/ j.op = "add" /\ c = [j.conf EXCEPT ![Main] = Xray!Clients(j.conf, Main) \union j.users]
        \/ j.op = "remove" /\ c = [j.conf EXCEPT ![Main] = Xray!Clients(j.conf, Main) \ j.users]
    BY <1>4, <1>14, XrayEdits DEF Xray!AddTo, Xray!RemoveFrom
  <2>2. /\ c[Main] \in {Xray!Clients(j.conf, Main) \union j.users,
                          Xray!Clients(j.conf, Main) \ j.users}
        /\ \A t \in Xray!Tags \ {Main} : c[t] = j.conf[t]
    BY <1>2, <1>5, <2>1 DEF Xray!Config
  <2>3. c[Main] # NoList /\ Xray!Clients(c, Main) = c[Main]
    BY <1>2, <1>5, <1>7, <1>14, <2>2, XrayListed
  <2>4. \A t \in Xray!Tags \ {Main} : Xray!Clients(c, t) = Xray!Clients(j.conf, t)
    BY <2>2 DEF Xray!Clients
  <2>5. \A u \in Users \ j.users, t \in Xray!Tags :
          u \in Xray!Clients(c, t) <=> u \in Xray!Clients(j.conf, t)
    BY <1>5, <2>2, <2>3, <2>4
  <2>6. Xray!Concerned(j.op, j.users) = j.users /\ Xray!Word(j.op) = "nothing"
    BY <1>14, XrayWords
  <2>7. \A u \in Users \ j.users : Xray!True(c, told[u], u)
    BY <1>5, <1>8, <1>14, <2>5
  <2> QED
    BY <2>3, <2>6, <2>7, XrayTrue
<1>15. CASE j.op = "sync"
  <2>1. c[Main] = j.users
    BY <1>2, <1>4, <1>5, <1>15, XrayEdits DEF Xray!SyncTo, Xray!Config
  <2> QED
    BY <1>2, <1>15, <2>1, XrayConstants, XrayWords, XrayTrue
<1> QED
  BY <1>2, <1>10, <1>11, <1>12, <1>13, <1>14, <1>15 DEF Xray!Ops

\* A step of one worker, which only takes words back while others are busy, and
\* changes the file only while the others know that they overlap it.
LEMMA XrayOne ==
    ASSUME Xray!IInv, Xray!TypeOK', NEW w \in Workers, NEW j \in Xray!Job,
           work' = [work EXCEPT ![w] = j],
           \A v \in Workers \ {w} : work[v].at # "idle" =>
             \A u \in Users : told'[u] \in {told[u], "nothing"},
           \A v \in Workers \ {w} : /\ v \in mixed => v \in mixed'
                                    /\ work[v].at # "idle" => file' = file \/ v \in mixed',
           Xray!Knows(w)', Xray!Overlaps', Xray!ToldHolds', Xray!HasMain', Xray!NothingRestored'
    PROVE  Xray!IInv'
<1>1. ASSUME NEW v \in Workers, v # w PROVE Xray!Knows(v)'
  <2>1. work'[v] = work[v] /\ Xray!Knows(v)
    BY <1>1 DEF Xray!IInv, Xray!TypeOK
  <2>2. CASE work[v].at = "idle"
    BY <2>1, <2>2 DEF Xray!Knows
  <2>3. CASE work[v].at # "idle"
    <3>1. \A u \in Users : told'[u] \in {told[u], "nothing"}
      BY <1>1, <2>3
    <3>2. \A u \in Users : \A c : Xray!True(c, told[u], u) => Xray!True(c, told'[u], u)
      BY <3>1, XraySofter
    <3>3. v \notin mixed' => v \notin mixed /\ file' = file
      BY <1>1, <2>3
    <3>4. CASE work[v].at = "read"
      BY <2>1, <3>1, <3>2, <3>3, <3>4 DEF Xray!Knows
    <3>5. CASE work[v].at = "truncated"
      BY <2>1, <3>2, <3>5 DEF Xray!Knows
    <3>6. work[v].at \in {"idle", "read", "truncated"}
      BY DEF Xray!IInv, Xray!TypeOK, Xray!Job
    <3> QED
      BY <2>3, <3>4, <3>5, <3>6
  <2> QED
    BY <2>2, <2>3
<1>2. \A v \in Workers : Xray!Knows(v)'
  BY <1>1
<1> QED
  BY <1>2 DEF Xray!IInv

\* Who is busy after a step of one worker.
LEMMA XrayBusy ==
    ASSUME Xray!TypeOK, NEW w \in Workers, NEW j, work' = [work EXCEPT ![w] = j]
    PROVE  /\ Xray!Busy' = IF j.at = "idle" THEN Xray!Busy \ {w} ELSE Xray!Busy \union {w}
           /\ Xray!Writers' = IF j.at = "truncated" THEN Xray!Writers \union {w}
                              ELSE Xray!Writers \ {w}
  BY DEF Xray!TypeOK, Xray!Busy, Xray!Writers

LEMMA XrayBegun ==
    ASSUME Xray!IInv, NEW w \in Workers, NEW j \in Xray!Job, Xray!Begins(w, j), j.at = "read",
           \/ j.op = "create" /\ file = Missing
           \/ j.op = "write"
           \/ file \in Xray!Config /\ j.conf = file /\ j.op \notin {"write", "create"}
    PROVE  Xray!IInv'
<1>1. /\ work[w].at = "idle" /\ work' = [work EXCEPT ![w] = j]
      /\ mixed' = IF Xray!Busy = {} THEN mixed ELSE mixed \union Xray!Busy \union {w}
      /\ UNCHANGED <<file, told, clashed>>
  BY DEF Xray!Begins
<1>2. Xray!TypeOK'
  BY <1>1 DEF Xray!IInv, Xray!TypeOK, Xray!Busy
<1>3. Xray!Busy' = Xray!Busy \union {w} /\ Xray!Writers' = Xray!Writers
  BY <1>1, XrayBusy DEF Xray!IInv, Xray!Writers
<1>4. Xray!Overlaps'
  BY <1>1, <1>3 DEF Xray!IInv, Xray!Overlaps
<1>5. work'[w] = j
  BY <1>1 DEF Xray!IInv, Xray!TypeOK
<1>6. Xray!Knows(w)'
  <2>1. j.op = "create" => \A u \in Users : told[u] # "restored"
    BY XrayConstants DEF Xray!IInv, Xray!NothingRestored
  <2>2. file \in Xray!Config => file[Main] # NoList /\ \A u \in Users : Xray!True(file, told[u], u)
    BY DEF Xray!IInv, Xray!HasMain, Xray!ToldHolds
  <2> QED
    BY <1>1, <1>5, <2>1, <2>2 DEF Xray!Knows
<1>7. Xray!ToldHolds' /\ Xray!HasMain' /\ Xray!NothingRestored'
  BY <1>1 DEF Xray!IInv, Xray!ToldHolds, Xray!HasMain, Xray!NothingRestored
<1> QED
  BY <1>1, <1>2, <1>4, <1>6, <1>7, XrayOne

\* An operation that overlapped no other one is the only one.
LEMMA XrayOthers ==
    ASSUME Xray!IInv, NEW w \in Workers, work[w].at # "idle", NEW v \in Workers, v # w,
           work[v].at # "idle"
    PROVE  w \in mixed /\ v \in mixed
  BY DEF Xray!IInv, Xray!Overlaps, Xray!Busy

\* The end of an operation, whatever it has told of whom.
LEMMA XrayEnded ==
    ASSUME Xray!IInv, NEW w \in Workers, work[w].at # "idle", Xray!Ends(w),
           file' \in Xray!Config \union {Missing, Torn},
           told' \in [Users -> {"nothing", "suspended", "restored"}],
           w \in mixed => \A u \in Users : told'[u] \in {told[u], "nothing"},
           Xray!ToldHolds', Xray!HasMain', Xray!NothingRestored'
    PROVE  Xray!IInv'
<1>1. /\ work' = [work EXCEPT ![w] = Xray!Idle]
      /\ mixed' = mixed \ {w} /\ clashed' = clashed \ {w}
  BY DEF Xray!Ends
<1>2. Xray!TypeOK'
  BY <1>1, XrayIdle DEF Xray!IInv, Xray!TypeOK
<1>3. Xray!Busy' = Xray!Busy \ {w} /\ Xray!Writers' = Xray!Writers \ {w}
  BY <1>1, XrayBusy, XrayIdle DEF Xray!IInv
<1>4. /\ clashed \subseteq mixed /\ mixed \subseteq Xray!Busy /\ w \in Xray!Busy
      /\ \A v, x \in Xray!Busy : v # x => v \in mixed
      /\ \A v, x \in Xray!Writers : v # x => v \in clashed
      /\ clashed # {} => \A u \in Users : told[u] = "nothing"
  BY DEF Xray!IInv, Xray!Overlaps, Xray!Busy
<1>5. clashed # {} => \A u \in Users : told'[u] = "nothing"
  <2>1. SUFFICES ASSUME clashed # {} PROVE w \in mixed
    BY <1>4
  <2> QED
    BY <1>4, <2>1
<1>6. Xray!Overlaps'
  BY <1>1, <1>3, <1>4, <1>5 DEF Xray!Overlaps
<1>7. Xray!Knows(w)'
  BY <1>1, XrayIdle DEF Xray!IInv, Xray!TypeOK, Xray!Knows
<1>8. \A v \in Workers \ {w} : work[v].at # "idle" => w \in mixed /\ v \in mixed
  BY XrayOthers
<1> QED
  BY <1>1, <1>2, <1>6, <1>7, <1>8, XrayIdle, XrayOne

LEMMA XrayStep == Xray!IInv /\ [Xray!Next]_xrayVars => Xray!IInv'
<1> SUFFICES ASSUME Xray!IInv, [Xray!Next]_xrayVars PROVE Xray!IInv'
  OBVIOUS
<1>1. CASE UNCHANGED xrayVars
  BY <1>1 DEF xrayVars, Xray!IInv, Xray!TypeOK, Xray!ToldHolds, Xray!Overlaps, Xray!Busy,
              Xray!Writers, Xray!HasMain, Xray!NothingRestored, Xray!Knows
<1>2. Xray!TypeOK
  BY DEF Xray!IInv
<1>3. ASSUME NEW w \in Workers
      PROVE  /\ work[w] \in Xray!Job /\ work[w].op \in Xray!Ops
             /\ work[w].conf \in Xray!Config /\ work[w].users \subseteq Users
             /\ (w \in mixed) \in BOOLEAN
  BY <1>2 DEF Xray!TypeOK, Xray!Job
<1>4. ASSUME NEW u \in Users, Xray!SuspendWithoutFile(u) PROVE Xray!IInv'
  <2>1. /\ file = Missing /\ Xray!Tell("suspend", {u}, Xray!Busy # {})
        /\ mixed' = mixed \union Xray!Busy /\ UNCHANGED <<file, work, clashed>>
    BY <1>4 DEF Xray!SuspendWithoutFile
  <2>2. "suspend" \in Xray!Ops /\ (Xray!Busy # {}) \in BOOLEAN
    BY DEF Xray!Ops
  <2>3. /\ told' \in [Users -> {"nothing", "suspended", "restored"}]
        /\ \A x \in Users \ Xray!Concerned("suspend", {u}) : told'[x] = told[x]
        /\ \A x \in Users : x \in Xray!Concerned("suspend", {u}) =>
             told'[x] = IF Xray!Busy # {} THEN "nothing" ELSE Xray!Word("suspend")
        /\ Xray!Busy # {} => \A x \in Users : told'[x] \in {told[x], "nothing"}
    <3>1. PICK overlapped \in BOOLEAN : overlapped = (Xray!Busy # {})
      BY <2>2
    <3>2. Xray!Tell("suspend", {u}, overlapped)
      BY <2>1, <3>1
    <3> QED
      BY <1>2, <2>2, <3>1, <3>2, XrayTells
  <2>4. \A x \in Users : told'[x] # "restored"
    BY <2>1, <2>3, XrayWords DEF Xray!IInv, Xray!NothingRestored
  <2>5. Xray!TypeOK'
    BY <2>1, <2>3 DEF Xray!IInv, Xray!TypeOK, Xray!Busy
  <2>6. Xray!ToldHolds' /\ Xray!HasMain' /\ Xray!NothingRestored'
    BY <2>1, <2>4, XrayConstants DEF Xray!ToldHolds, Xray!HasMain, Xray!NothingRestored
  <2>7. Xray!Busy' = Xray!Busy /\ Xray!Writers' = Xray!Writers
    BY <2>1 DEF Xray!Busy, Xray!Writers
  <2>8. Xray!Overlaps'
    BY <2>1, <2>3, <2>7 DEF Xray!IInv, Xray!Overlaps
  <2>9. ASSUME NEW w \in Workers PROVE Xray!Knows(w)'
    <3>1. Xray!Knows(w) /\ work'[w] = work[w]
      BY <2>1 DEF Xray!IInv
    <3>2. CASE work[w].at = "idle"
      BY <3>1, <3>2 DEF Xray!Knows
    <3>3. CASE work[w].at # "idle"
      <4>1. w \in Xray!Busy
        BY <3>3 DEF Xray!Busy
      <4>2. \A x \in Users : \A c : Xray!True(c, told[x], x) => Xray!True(c, told'[x], x)
        BY <2>3, <4>1, XraySofter
      <4> QED
        BY <2>1, <2>4, <3>1, <4>1, <4>2 DEF Xray!Knows
    <3> QED
      BY <3>2, <3>3
  <2> QED
    BY <2>5, <2>6, <2>8, <2>9 DEF Xray!IInv
<1>5. ASSUME NEW w \in Workers, Xray!NothingToDo(w) PROVE Xray!IInv'
  <2>1. /\ work[w].at = "read" /\ Xray!NoChange(work[w])
        /\ Xray!Tell(work[w].op, work[w].users, w \in mixed)
        /\ Xray!Ends(w) /\ file' = file
    BY <1>5 DEF Xray!NothingToDo
  <2>2. /\ told' \in [Users -> {"nothing", "suspended", "restored"}]
        /\ \A u \in Users \ Xray!Concerned(work[w].op, work[w].users) : told'[u] = told[u]
        /\ \A u \in Users : u \in Xray!Concerned(work[w].op, work[w].users) =>
             told'[u] = IF w \in mixed THEN "nothing" ELSE Xray!Word(work[w].op)
        /\ w \in mixed => \A u \in Users : told'[u] \in {told[u], "nothing"}
    BY <1>2, <1>3, <2>1, XrayTells
  <2>3. /\ work[w].op \in {"suspend", "restore"}
        /\ Xray!Concerned(work[w].op, work[w].users) = work[w].users
    BY <2>1, XrayWords DEF Xray!NoChange
  <2>4. CASE w \in mixed
    <3>1. Xray!ToldHolds'
      BY <2>1, <2>2, <2>4, XraySofter DEF Xray!IInv, Xray!ToldHolds
    <3>2. Xray!HasMain' /\ Xray!NothingRestored'
      BY <2>1, <2>2, <2>4 DEF Xray!IInv, Xray!HasMain, Xray!NothingRestored
    <3> QED
      BY <1>2, <2>1, <2>2, <3>1, <3>2, XrayEnded DEF Xray!TypeOK
  <2>5. CASE w \notin mixed
    <3>1. file = work[w].conf
      BY <2>1, <2>3, <2>5 DEF Xray!IInv, Xray!Knows
    <3>2. file \in Xray!Config /\ file # Missing
      BY <1>3, <3>1, XrayConstants
    <3>3. ASSUME NEW u \in Users PROVE Xray!True(file, told'[u], u)
      <4>1. CASE u \notin work[w].users
        BY <2>2, <2>3, <3>2, <4>1 DEF Xray!IInv, Xray!ToldHolds
      <4>2. CASE u \in work[w].users /\ work[w].op = "suspend"
        <5>1. \A t \in Xray!Tags : u \notin Xray!Clients(file, t)
          BY <2>1, <3>1, <4>2 DEF Xray!NoChange
        <5>2. told'[u] = "suspended"
          BY <2>2, <2>3, <2>5, <4>2, XrayWords
        <5> QED
          BY <5>1, <5>2, XrayTrue
      <4>3. CASE u \in work[w].users /\ work[w].op = "restore"
        <5>1. u \in Xray!Clients(file, Main)
          BY <2>1, <3>1, <4>3, XrayConstants DEF Xray!NoChange
        <5>2. told'[u] = "restored"
          BY <2>2, <2>3, <2>5, <4>3, XrayWords
        <5> QED
          BY <5>1, <5>2, XrayTrue
      <4> QED
        BY <2>3, <4>1, <4>2, <4>3
    <3>4. Xray!ToldHolds' /\ Xray!HasMain' /\ Xray!NothingRestored'
      BY <2>1, <3>2, <3>3 DEF Xray!IInv, Xray!ToldHolds, Xray!HasMain, Xray!NothingRestored
    <3> QED
      BY <2>1, <2>2, <2>5, <3>2, <3>4, XrayEnded
  <2> QED
    BY <2>4, <2>5
<1>6. ASSUME NEW w \in Workers, Xray!Truncate(w) PROVE Xray!IInv'
  <2>1. /\ work[w].at = "read" /\ file' = Torn
        /\ clashed' = IF Xray!Writers = {} THEN clashed ELSE clashed \union Xray!Writers \union {w}
        /\ told' = IF Xray!Writers = {} THEN told ELSE [u \in Users |-> "nothing"]
        /\ mixed' = mixed
    BY <1>6 DEF Xray!Truncate
  <2>2. PICK j \in Xray!Job : /\ work' = [work EXCEPT ![w] = j]
                              /\ j.op = work[w].op /\ j.users = work[w].users
                              /\ j.at = "truncated" /\ j.conf = Xray!Edited(work[w])
    BY <1>2, <1>6, XrayOpens
  <2>3. \A u \in Users : told'[u] \in {told[u], "nothing"}
    BY <2>1
  <2>4. /\ w \in Xray!Busy /\ Xray!Writers \subseteq Xray!Busy /\ w \notin Xray!Writers
        /\ Xray!Busy' = Xray!Busy /\ Xray!Writers' = Xray!Writers \union {w}
    BY <1>2, <2>1, <2>2, XrayBusy DEF Xray!Busy, Xray!Writers
  <2>5. Xray!TypeOK'
    BY <1>2, <2>1, <2>2 DEF Xray!TypeOK, Xray!Writers
  <2>6. Xray!Overlaps'
    BY <2>1, <2>4 DEF Xray!IInv, Xray!Overlaps
  <2>7. Xray!ToldHolds' /\ Xray!HasMain' /\ Xray!NothingRestored'
    BY <2>1, XrayConstants DEF Xray!ToldHolds, Xray!HasMain, Xray!NothingRestored
  <2>8. /\ j.conf[Main] # NoList
        /\ \A u \in Xray!Concerned(j.op, j.users) : Xray!True(j.conf, Xray!Word(j.op), u)
        /\ \A u \in Users \ Xray!Concerned(j.op, j.users) : Xray!True(j.conf, told'[u], u)
    BY <2>1, <2>2, <2>3, XrayEditsTrue, XraySofter
  <2>9. Xray!Knows(w)'
    <3>1. work'[w] = j
      BY <1>2, <2>2 DEF Xray!TypeOK
    <3> QED
      BY <2>2, <2>8, <3>1 DEF Xray!Knows
  <2>10. \A v \in Workers \ {w} : work[v].at # "idle" => v \in mixed'
    BY <2>1, XrayOthers
  <2> QED
    BY <2>1, <2>2, <2>3, <2>5, <2>6, <2>7, <2>9, <2>10, XrayOne
<1>7. ASSUME NEW w \in Workers, Xray!Dump(w) PROVE Xray!IInv'
  <2>1. /\ work[w].at = "truncated"
        /\ file' = work[w].conf \/ file' = Torn
        /\ Xray!Tell(work[w].op, work[w].users, w \in mixed) /\ Xray!Ends(w)
    BY <1>7 DEF Xray!Dump
  <2>2. /\ told' \in [Users -> {"nothing", "suspended", "restored"}]
        /\ \A u \in Users \ Xray!Concerned(work[w].op, work[w].users) : told'[u] = told[u]
        /\ \A u \in Users : u \in Xray!Concerned(work[w].op, work[w].users) =>
             told'[u] = IF w \in mixed THEN "nothing" ELSE Xray!Word(work[w].op)
        /\ w \in mixed => \A u \in Users : told'[u] \in {told[u], "nothing"}
    BY <1>2, <1>3, <2>1, XrayTells
  <2>3. /\ work[w].conf[Main] # NoList
        /\ \A u \in Xray!Concerned(work[w].op, work[w].users) :
             Xray!True(work[w].conf, Xray!Word(work[w].op), u)
        /\ \A u \in Users \ Xray!Concerned(work[w].op, work[w].users) :
             Xray!True(work[w].conf, told[u], u)
    BY <2>1 DEF Xray!IInv, Xray!Knows
  <2>4. \A u \in Users : Xray!True(work[w].conf, told'[u], u)
    BY <2>2, <2>3, XrayTrue
  <2>5. /\ file' \in Xray!Config \union {Torn} /\ file' # Missing
        /\ file' \in Xray!Config => file' = work[w].conf
    BY <1>3, <2>1, XrayConstants
  <2>6. Xray!ToldHolds' /\ Xray!HasMain' /\ Xray!NothingRestored'
    BY <2>3, <2>4, <2>5 DEF Xray!ToldHolds, Xray!HasMain, Xray!NothingRestored
  <2> QED
    BY <2>1, <2>2, <2>5, <2>6, XrayEnded
<1>8. ASSUME NEW w \in Workers, Xray!Crash(w) PROVE Xray!IInv'
  <2>1. /\ work[w].at # "idle" /\ Xray!Ends(w) /\ told' = told
        /\ file' = file \/ file' = Torn
    BY <1>8 DEF Xray!Crash
  <2>2. Xray!ToldHolds' /\ Xray!HasMain' /\ Xray!NothingRestored'
    BY <2>1, XrayConstants DEF Xray!IInv, Xray!ToldHolds, Xray!HasMain, Xray!NothingRestored
  <2> QED
    BY <1>2, <2>1, <2>2, XrayEnded DEF Xray!TypeOK
<1>9. CASE Xray!Next
  <2>1. CASE \E u \in Users : Xray!SuspendWithoutFile(u)
    BY <1>4, <2>1
  <2>2. CASE ~\E u \in Users : Xray!SuspendWithoutFile(u)
    <3>1. PICK w \in Workers :
            \/ \E j \in Xray!Job : /\ Xray!Begins(w, j) /\ j.at = "read"
                                   /\ \/ j.op = "create" /\ file = Missing
                                      \/ j.op = "write"
                                      \/ /\ file \in Xray!Config /\ j.conf = file
                                         /\ j.op \notin {"write", "create"}
            \/ Xray!NothingToDo(w) \/ Xray!Truncate(w) \/ Xray!Dump(w) \/ Xray!Crash(w)
      BY <1>2, <1>9, <2>2, XrayCases
    <3>2. CASE \E j \in Xray!Job : /\ Xray!Begins(w, j) /\ j.at = "read"
                                   /\ \/ j.op = "create" /\ file = Missing
                                      \/ j.op = "write"
                                      \/ /\ file \in Xray!Config /\ j.conf = file
                                         /\ j.op \notin {"write", "create"}
      BY <3>2, XrayBegun
    <3> QED
      BY <1>5, <1>6, <1>7, <1>8, <3>1, <3>2
  <2> QED
    BY <2>1, <2>2
<1> QED
  BY <1>1, <1>9

\* A step of the whole is a step of the file's part or leaves the file alone.
LEMMA XraySteps == [MCNext]_<<part, vars, xrayVars, dnsVars>> => [Xray!Next]_xrayVars
  BY DEF MCInit, MCNext, vars, xrayVars, dnsVars

\* ToldHolds: what an operation on config.json that overlapped no other told of a user
\* holds of every file that can be read, however many others overlap, die or tear it.
THEOREM SuspensionsHold == MCSpec => []ToldHolds
<1>1. MCInit => Xray!IInv
  BY XrayInit DEF MCInit
<1>2. Xray!IInv /\ [MCNext]_<<part, vars, xrayVars, dnsVars>> => Xray!IInv'
  BY XraySteps, XrayStep
<1>3. Xray!IInv => ToldHolds
  BY DEF ToldHolds, Xray!IInv
<1> QED
  BY <1>1, <1>2, <1>3, PTL DEF MCSpec

-----------------------------------------------------------------------------
(* The DNS records of a profile *)

LEMMA DnsConstants ==
    /\ MaxProfiles \in Nat /\ MaxRecords \in Nat /\ Nil \notin Nat
    /\ Requests \intersect DnsTasks = {}
  BY VpnAssumption DEF Dns!DnsAssumption

LEMMA DnsNoRow == Nil \notin Dns!Row /\ Nil \notin 1..MaxProfiles
<1>1. Dns!Row \subseteq [profile: Nat, content: Contents, synced: BOOLEAN]
  BY DnsConstants DEF Dns!Row
<1> QED
  BY <1>1, DnsConstants, VpnAssumption DEF Dns!DnsAssumption

LEMMA DnsIdle ==
    /\ Dns!Idle \in Dns!Job /\ Dns!Idle.op = "none" /\ Dns!Idle.seen = Dns!NoRows
    /\ Dns!NoRows \in [Dns!RecordIds -> Dns!Row \union {Nil}]
    /\ \A i \in Dns!RecordIds : Dns!NoRows[i] = Nil
  BY DEF Dns!Idle, Dns!Job, Dns!NoRows

LEMMA DnsInit == Dns!Init => Dns!IInv
<1> SUFFICES ASSUME Dns!Init PROVE Dns!IInv
  OBVIOUS
<1>1. Dns!TypeOK
  BY DnsIdle, DnsConstants DEF Dns!Init, Dns!TypeOK
<1>2. Dns!Exist = {}
  BY DnsIdle DEF Dns!Init, Dns!Exist
<1>3. Dns!OnlyAdded
  BY DnsIdle DEF Dns!Init, Dns!OnlyAdded
<1> QED
  BY <1>1, <1>2, <1>3, DnsIdle
     DEF Dns!Init, Dns!IInv, Dns!HasContent, Dns!Does, Dns!SyncedIsCurrent, Dns!RecordsBelong,
         Dns!HeldIsCurrent

\* What a session loads: rows there are, and nothing else.
LEMMA DnsLoads ==
    ASSUME Dns!IInv, NEW w \in Dns!Sessions,
           \/ Dns!CreateProfile(w) \/ Dns!DeleteProfile(w) \/ Dns!AddRecord(w)
           \/ Dns!UpdateRecord(w) \/ Dns!DeleteRecord(w) \/ Dns!SyncRecords(w)
    PROVE  /\ UNCHANGED <<profile, made, records, added, sent, raced>>
           /\ \E j \in Dns!Job : /\ session' = [session EXCEPT ![w] = j]
                                 /\ j.op \in {"add", "update"} => j.content \in Contents
                                 /\ \A i \in Dns!RecordIds : j.seen[i] \in {Nil, records[i]}
<1>1. /\ profile \in 1..MaxProfiles \union {Nil}
      /\ records \in [Dns!RecordIds -> Dns!Row \union {Nil}]
      /\ \A i \in 1..MaxProfiles : i \in Nat
      /\ \A i \in Dns!RecordIds : i \in Nat
  BY DnsConstants DEF Dns!IInv, Dns!TypeOK, Dns!RecordIds
<1>2. UNCHANGED <<profile, made, records, added, sent, raced>>
  BY DEF Dns!CreateProfile, Dns!DeleteProfile, Dns!AddRecord, Dns!UpdateRecord,
         Dns!DeleteRecord, Dns!SyncRecords, Dns!Loads, Dns!store
<1>4. CASE Dns!CreateProfile(w)
  <2>1. PICK j : j = [Dns!Idle EXCEPT !.op = "create"]
    OBVIOUS
  <2>2. j \in Dns!Job /\ j.seen = Dns!NoRows /\ j.op = "create"
    BY <2>1, DnsIdle DEF Dns!Job
  <2> QED
    BY <1>4, <2>1, <2>2, DnsIdle, <1>2 DEF Dns!CreateProfile, Dns!Loads
<1>5. CASE Dns!DeleteProfile(w)
  <2>1. PICK j : j = [Dns!Idle EXCEPT !.op = "delete profile", !.id = profile]
    OBVIOUS
  <2>2. profile \in Nat
    BY <1>1, <1>5 DEF Dns!DeleteProfile
  <2>3. j \in Dns!Job /\ j.seen = Dns!NoRows /\ j.op = "delete profile"
    BY <2>1, <2>2, DnsIdle DEF Dns!Job
  <2> QED
    BY <1>5, <2>1, <2>3, DnsIdle, <1>2 DEF Dns!DeleteProfile, Dns!Loads
<1>6. CASE Dns!AddRecord(w)
  <2>1. PICK c \in Contents :
          Dns!Loads(w, [Dns!Idle EXCEPT !.op = "add", !.id = profile, !.content = c])
    BY <1>6 DEF Dns!AddRecord
  <2>2. PICK j : j = [Dns!Idle EXCEPT !.op = "add", !.id = profile, !.content = c]
    OBVIOUS
  <2>3. profile \in Nat
    BY <1>1, <1>6 DEF Dns!AddRecord
  <2>4. j \in Dns!Job /\ j.seen = Dns!NoRows /\ j.content \in Contents
    BY <2>2, <2>3, DnsIdle DEF Dns!Job
  <2> QED
    BY <2>1, <2>2, <2>4, DnsIdle, <1>2 DEF Dns!Loads
<1>7. ASSUME NEW i \in Dns!RecordIds
      PROVE  \E seen \in [Dns!RecordIds -> Dns!Row \union {Nil}] :
               /\ seen = [Dns!NoRows EXCEPT ![i] = records[i]]
               /\ \A k \in Dns!RecordIds : seen[k] \in {Nil, records[k]}
  <2>1. PICK seen : seen = [Dns!NoRows EXCEPT ![i] = records[i]]
    OBVIOUS
  <2>2. seen \in [Dns!RecordIds -> Dns!Row \union {Nil}]
    BY <1>1, <2>1, DnsIdle
  <2>3. \A k \in Dns!RecordIds : seen[k] \in {Nil, records[k]}
    BY <1>1, <2>1, DnsIdle
  <2> QED
    BY <2>1, <2>2, <2>3
<1>8. CASE Dns!UpdateRecord(w)
  <2>1. PICK i \in Dns!Exist, c \in Contents :
          Dns!Loads(w, [op |-> "update", id |-> i, content |-> c,
                        seen |-> [Dns!NoRows EXCEPT ![i] = records[i]]])
    BY <1>8 DEF Dns!UpdateRecord
  <2>2. i \in Dns!RecordIds /\ i \in Nat
    BY <1>1 DEF Dns!Exist
  <2>3. PICK seen \in [Dns!RecordIds -> Dns!Row \union {Nil}] :
          /\ seen = [Dns!NoRows EXCEPT ![i] = records[i]]
          /\ \A k \in Dns!RecordIds : seen[k] \in {Nil, records[k]}
    BY <1>7, <2>2
  <2>4. PICK j : j = [op |-> "update", id |-> i, content |-> c, seen |-> seen]
    OBVIOUS
  <2>5. j \in Dns!Job /\ j.seen = seen /\ j.content \in Contents
    BY <2>2, <2>4 DEF Dns!Job
  <2> QED
    BY <1>2, <2>1, <2>3, <2>4, <2>5 DEF Dns!Loads
<1>9. CASE Dns!DeleteRecord(w)
  <2>1. PICK i \in Dns!Exist :
          Dns!Loads(w, [Dns!Idle EXCEPT !.op = "delete", !.id = i,
                                        !.seen = [Dns!NoRows EXCEPT ![i] = records[i]]])
    BY <1>9 DEF Dns!DeleteRecord
  <2>2. i \in Dns!RecordIds /\ i \in Nat
    BY <1>1 DEF Dns!Exist
  <2>3. PICK seen \in [Dns!RecordIds -> Dns!Row \union {Nil}] :
          /\ seen = [Dns!NoRows EXCEPT ![i] = records[i]]
          /\ \A k \in Dns!RecordIds : seen[k] \in {Nil, records[k]}
    BY <1>7, <2>2
  <2>4. PICK j : j = [Dns!Idle EXCEPT !.op = "delete", !.id = i, !.seen = seen]
    OBVIOUS
  <2>5. j \in Dns!Job /\ j.seen = seen /\ j.op = "delete"
    BY <2>2, <2>4, DnsIdle DEF Dns!Job
  <2> QED
    BY <1>2, <2>1, <2>3, <2>4, <2>5 DEF Dns!Loads
<1>10. CASE Dns!SyncRecords(w)
  <2>1. PICK seen : seen = [i \in Dns!RecordIds |-> IF i \in Dns!Exist /\ ~records[i].synced
                                                    THEN records[i] ELSE Nil]
    OBVIOUS
  <2>2. /\ seen \in [Dns!RecordIds -> Dns!Row \union {Nil}]
        /\ \A k \in Dns!RecordIds : seen[k] \in {Nil, records[k]}
    BY <1>1, <2>1
  <2>3. PICK j : j = [Dns!Idle EXCEPT !.op = "sync", !.id = profile, !.seen = seen]
    OBVIOUS
  <2>4. profile \in Nat
    BY <1>1, <1>10 DEF Dns!SyncRecords
  <2>5. j \in Dns!Job /\ j.seen = seen /\ j.op = "sync"
    BY <2>2, <2>3, <2>4, DnsIdle DEF Dns!Job
  <2>6. Dns!Loads(w, j)
    BY <1>10, <2>1, <2>3 DEF Dns!SyncRecords
  <2> QED
    BY <1>2, <2>2, <2>5, <2>6 DEF Dns!Loads
<1> QED
  BY <1>2, <1>4, <1>5, <1>6, <1>8, <1>9, <1>10

\* Sessions that only load, or only end, leave the invariant alone.
LEMMA DnsSession ==
    ASSUME Dns!IInv, NEW w \in Dns!Sessions, NEW j \in Dns!Job,
           session' = [session EXCEPT ![w] = j],
           j.op \in {"add", "update"} => j.content \in Contents,
           \A i \in Dns!RecordIds : j.seen[i] \in {Nil, records[i], session[w].seen[i]},
           \/ \A i \in Dns!RecordIds : j.seen[i] \in {Nil, records[i]}
           \/ w \in DnsTasks,
           UNCHANGED <<profile, made, records, added, sent, raced>>
    PROVE  Dns!IInv'
<1>1. Dns!TypeOK'
  BY DEF Dns!IInv, Dns!TypeOK
<1>2. Dns!Exist' = Dns!Exist
  BY DEF Dns!Exist
<1>3. Dns!SyncedIsCurrent' /\ Dns!RecordsBelong'
  BY <1>2 DEF Dns!IInv, Dns!SyncedIsCurrent, Dns!RecordsBelong
<1>4. session'[w] = j /\ \A v \in Dns!Sessions \ {w} : session'[v] = session[v]
  BY DEF Dns!IInv, Dns!TypeOK
<1>5. Dns!OnlyAdded'
  BY <1>4 DEF Dns!IInv, Dns!OnlyAdded
<1>8. Dns!HasContent'
  BY <1>4 DEF Dns!IInv, Dns!HasContent, Dns!Does
<1>6. ASSUME NEW i \in Dns!Exist \ raced, NEW v \in Dns!Holds(i, "sync")'
      PROVE  records[i].content = session'[v].seen[i].content
  <2>1. v \in Requests /\ v \in Dns!Sessions /\ i \in Dns!RecordIds /\ session'[v].seen[i] # Nil
        /\ session'[v].op = "sync"
    BY <1>6 DEF Dns!Holds, Dns!Saw, Dns!Sessions, Dns!Does
  <2>2. CASE v = w
    BY <1>4, <2>1, <2>2, DnsConstants
  <2>3. CASE v # w
    BY <1>4, <2>1, <2>3 DEF Dns!IInv, Dns!HeldIsCurrent, Dns!Holds, Dns!Saw, Dns!Does
  <2> QED
    BY <2>2, <2>3
<1>7. Dns!HeldIsCurrent'
  BY <1>2, <1>6 DEF Dns!HeldIsCurrent
<1> QED
  BY <1>1, <1>3, <1>5, <1>7, <1>8 DEF Dns!IInv

\* A session that ends holds nothing any more; the others hold what they held.
LEMMA DnsEnds ==
    ASSUME Dns!IInv, NEW w \in Dns!Sessions, Dns!Ends(w)
    PROVE  /\ session' \in [Dns!Sessions -> Dns!Job]
           /\ Dns!HasContent'
           /\ \A v \in Dns!Sessions, i \in Dns!RecordIds :
                session'[v].seen[i] \in {Nil, session[v].seen[i]}
           /\ \A i \in Dns!RecordIds : \A v \in Dns!Holds(i, "sync")' :
                v \in Dns!Holds(i, "sync") /\ session'[v].seen[i] = session[v].seen[i]
<1>1. /\ session' \in [Dns!Sessions -> Dns!Job] /\ session'[w] = Dns!Idle
      /\ \A v \in Dns!Sessions \ {w} : session'[v] = session[v]
  BY DnsIdle DEF Dns!Ends, Dns!IInv, Dns!TypeOK
<1>2. Dns!HasContent'
  BY <1>1, DnsIdle DEF Dns!HasContent, Dns!IInv, Dns!Does
<1>3. \A v \in Dns!Sessions, i \in Dns!RecordIds :
        session'[v].seen[i] \in {Nil, session[v].seen[i]}
  BY <1>1, DnsIdle
<1>4. ASSUME NEW i \in Dns!RecordIds, NEW v \in Dns!Holds(i, "sync")'
      PROVE  v \in Dns!Holds(i, "sync") /\ session'[v].seen[i] = session[v].seen[i]
  <2>1. v \in Requests /\ v \in Dns!Sessions /\ session'[v].op = "sync" /\ session'[v].seen[i] # Nil
    BY <1>4 DEF Dns!Holds, Dns!Saw, Dns!Sessions, Dns!Does
  <2>2. v # w
    BY <1>1, <2>1, DnsIdle
  <2> QED
    BY <1>1, <2>1, <2>2 DEF Dns!Holds, Dns!Saw, Dns!Does
<1> QED
  BY <1>1, <1>2, <1>3, <1>4

\* The rows that commits leave are rows, and belong to the profile.
LEMMA DnsRows ==
    ASSUME Dns!IInv, NEW i \in Dns!Exist
    PROVE  /\ i \in Dns!RecordIds /\ records[i] \in Dns!Row /\ records[i].profile = profile
           /\ profile \in 1..MaxProfiles /\ profile # Nil /\ i \in Nat /\ i <= added
<1>1. i \in Dns!RecordIds /\ records[i] # Nil /\ records[i] \in Dns!Row
  BY DEF Dns!Exist, Dns!IInv, Dns!TypeOK
<1>2. records[i].profile = profile
  BY DEF Dns!IInv, Dns!RecordsBelong
<1>3. profile \in 1..MaxProfiles
  BY <1>1, <1>2 DEF Dns!Row
<1>4. i \in Nat /\ added \in Nat /\ (i > added => records[i] = Nil)
  BY <1>1, DnsConstants DEF Dns!IInv, Dns!OnlyAdded, Dns!TypeOK, Dns!RecordIds
<1> QED
  BY <1>1, <1>2, <1>3, <1>4, DnsNoRow

LEMMA DnsCreate ==
    ASSUME Dns!IInv, NEW w \in Dns!Sessions, Dns!CommitCreate(w)
    PROVE  Dns!IInv'
<1>1. /\ profile = Nil /\ made < MaxProfiles /\ made' = made + 1 /\ profile' = made + 1
      /\ Dns!Ends(w) /\ UNCHANGED <<records, added, sent, raced>>
  BY DEF Dns!CommitCreate
<1>2. made \in Nat /\ made + 1 \in 1..MaxProfiles /\ made + 1 \in 0..MaxProfiles
  BY <1>1, DnsConstants DEF Dns!IInv, Dns!TypeOK
<1>3. Dns!TypeOK'
  BY <1>1, <1>2, DnsEnds DEF Dns!IInv, Dns!TypeOK
<1>4. Dns!Exist = {} /\ Dns!Exist' = {}
  BY <1>1, DnsRows DEF Dns!Exist
<1>5. Dns!OnlyAdded'
  BY <1>1, DnsEnds DEF Dns!IInv, Dns!OnlyAdded
<1> QED
  BY <1>1, <1>3, <1>4, <1>5, DnsEnds
     DEF Dns!IInv, Dns!SyncedIsCurrent, Dns!RecordsBelong, Dns!HeldIsCurrent

\* Rows that go take nothing else with them.
LEMMA DnsDelete ==
    ASSUME Dns!IInv, NEW w \in Dns!Sessions, Dns!CommitDeleteProfile(w) \/ Dns!CommitDelete(w)
    PROVE  Dns!IInv'
<1>1. /\ Dns!Ends(w) /\ UNCHANGED <<made, added, sent, raced>>
      /\ \/ profile' = Nil /\ records' = Dns!NoRows
         \/ profile' = profile /\ records' = [records EXCEPT ![session[w].id] = Nil]
  BY DEF Dns!CommitDeleteProfile, Dns!CommitDelete
<1>2. /\ records' \in [Dns!RecordIds -> Dns!Row \union {Nil}]
      /\ \A i \in Dns!RecordIds : records'[i] \in {Nil, records[i]}
  BY <1>1, DnsIdle DEF Dns!IInv, Dns!TypeOK
<1>3. Dns!TypeOK'
  BY <1>1, <1>2, DnsEnds DEF Dns!IInv, Dns!TypeOK
<1>4. ASSUME NEW i \in Dns!Exist'
      PROVE  i \in Dns!Exist /\ records'[i] = records[i] /\ profile' = profile
  BY <1>1, <1>2, <1>4, DnsIdle DEF Dns!Exist
<1>5. Dns!SyncedIsCurrent' /\ Dns!RecordsBelong'
  BY <1>1, <1>4 DEF Dns!IInv, Dns!SyncedIsCurrent, Dns!RecordsBelong
<1>6. Dns!OnlyAdded'
  BY <1>1, <1>2, DnsEnds DEF Dns!IInv, Dns!OnlyAdded
<1>7. Dns!HeldIsCurrent'
  <2> SUFFICES ASSUME NEW i \in Dns!Exist' \ raced', NEW v \in Dns!Holds(i, "sync")'
               PROVE  records'[i].content = session'[v].seen[i].content
    BY DEF Dns!HeldIsCurrent
  <2>1. i \in Dns!Exist \ raced /\ i \in Dns!RecordIds /\ records'[i] = records[i]
    BY <1>1, <1>4 DEF Dns!Exist
  <2>2. v \in Dns!Holds(i, "sync") /\ session'[v].seen[i] = session[v].seen[i]
    BY <1>1, <2>1, DnsEnds
  <2> QED
    BY <2>1, <2>2 DEF Dns!IInv, Dns!HeldIsCurrent
<1> QED
  BY <1>1, <1>3, <1>5, <1>6, <1>7, DnsEnds DEF Dns!IInv

LEMMA DnsAdd ==
    ASSUME Dns!IInv, NEW w \in Dns!Sessions, Dns!CommitAdd(w)
    PROVE  Dns!IInv'
<1>1. /\ session[w].op = "add" /\ profile = session[w].id /\ added < MaxRecords
      /\ added' = added + 1 /\ Dns!Ends(w) /\ UNCHANGED <<profile, made, sent, raced>>
  BY DEF Dns!CommitAdd, Dns!Does
<1>2. PICK row : row = [profile |-> profile, content |-> session[w].content, synced |-> FALSE]
  OBVIOUS
<1>3. records' = [records EXCEPT ![added + 1] = row]
  BY <1>2 DEF Dns!CommitAdd
<1>4. profile \in 1..MaxProfiles /\ session[w].content \in Contents
  <2>1. session[w].id \in Nat
    BY DEF Dns!IInv, Dns!TypeOK, Dns!Job
  <2> QED
    BY <1>1, <2>1, DnsConstants DEF Dns!IInv, Dns!TypeOK, Dns!HasContent, Dns!Does
<1>5. row \in Dns!Row /\ row.profile = profile /\ ~row.synced
  BY <1>2, <1>4 DEF Dns!Row
<1>6. added \in Nat /\ added + 1 \in Dns!RecordIds /\ added + 1 \in 0..MaxRecords
  BY <1>1, DnsConstants DEF Dns!IInv, Dns!TypeOK, Dns!RecordIds
<1>7. Dns!TypeOK'
  BY <1>1, <1>3, <1>5, <1>6, DnsEnds DEF Dns!IInv, Dns!TypeOK
<1>8. /\ records'[added + 1] = row
      /\ \A i \in Dns!RecordIds : i # added + 1 => records'[i] = records[i]
  BY <1>3, <1>6 DEF Dns!IInv, Dns!TypeOK
<1>9. \A i \in Dns!Exist' : i = added + 1 \/ (i \in Dns!Exist /\ records'[i] = records[i])
  BY <1>8 DEF Dns!Exist
<1>10. Dns!SyncedIsCurrent'
  BY <1>1, <1>5, <1>8, <1>9 DEF Dns!IInv, Dns!SyncedIsCurrent
<1>11. Dns!RecordsBelong'
  BY <1>1, <1>5, <1>8, <1>9 DEF Dns!IInv, Dns!RecordsBelong
<1>12. Dns!OnlyAdded'
  <2> SUFFICES ASSUME NEW i \in Dns!RecordIds, i > added + 1
               PROVE  records'[i] = Nil /\ \A v \in Dns!Sessions : session'[v].seen[i] = Nil
    BY <1>1 DEF Dns!OnlyAdded
  <2>1. i > added /\ i # added + 1
    BY <1>6, DnsConstants DEF Dns!RecordIds
  <2> QED
    BY <1>1, <1>8, <2>1, DnsEnds DEF Dns!IInv, Dns!OnlyAdded
<1>13. Dns!HeldIsCurrent'
  <2> SUFFICES ASSUME NEW i \in Dns!Exist' \ raced', NEW v \in Dns!Holds(i, "sync")'
               PROVE  records'[i].content = session'[v].seen[i].content
    BY DEF Dns!HeldIsCurrent
  <2>1. i \in Dns!RecordIds
    BY DEF Dns!Exist
  <2>2. v \in Dns!Holds(i, "sync") /\ session'[v].seen[i] = session[v].seen[i]
    BY <1>1, <2>1, DnsEnds
  <2>3. i # added + 1
    <3>1. v \in Dns!Sessions /\ session[v].seen[i] # Nil
      BY <2>2 DEF Dns!Holds, Dns!Saw, Dns!Sessions
    <3>2. added + 1 > added
      BY <1>6
    <3> QED
      BY <1>6, <3>1, <3>2 DEF Dns!IInv, Dns!OnlyAdded
  <2>4. i \in Dns!Exist \ raced /\ records'[i] = records[i]
    BY <1>1, <1>9, <2>3
  <2> QED
    BY <2>2, <2>4 DEF Dns!IInv, Dns!HeldIsCurrent
<1> QED
  BY <1>1, <1>7, <1>10, <1>11, <1>12, <1>13, DnsEnds DEF Dns!IInv

\* An update: what it changed is unsynced, or was loaded by a sync or changed since.
LEMMA DnsUpdate ==
    ASSUME Dns!IInv, NEW w \in Dns!Sessions, Dns!CommitUpdate(w)
    PROVE  Dns!IInv'
<1>1. PICK i, reset : /\ i = session[w].id
                      /\ reset = (i \in Dns!Saw(w) /\ session[w].seen[i].synced)
  OBVIOUS
<1>2. /\ session[w].op = "update" /\ i \in Dns!Exist
      /\ records' = [records EXCEPT ![i].content = session[w].content,
                                    ![i].synced = @ /\ ~reset]
      /\ raced' = IF records[i] # session[w].seen[i] \/ Dns!Holds(i, "sync") # {}
                    THEN raced \union {i} ELSE raced \ {i}
      /\ Dns!Ends(w) /\ UNCHANGED <<profile, made, added, sent>>
  BY <1>1 DEF Dns!CommitUpdate, Dns!Update, Dns!Does
<1>3. /\ i \in Dns!RecordIds /\ records[i] \in Dns!Row /\ records[i].profile = profile
      /\ i \in Nat /\ i <= added /\ records[i] # Nil
  BY <1>2, DnsRows DEF Dns!Exist
<1>4. session[w].content \in Contents
  BY <1>2 DEF Dns!IInv, Dns!HasContent, Dns!Does
<1>5. PICK row : row = [records[i] EXCEPT !.content = session[w].content,
                                          !.synced = @ /\ ~reset]
  OBVIOUS
<1>6. /\ row \in Dns!Row /\ row.profile = profile /\ row.content = session[w].content
      /\ row.synced = (records[i].synced /\ ~reset)
  <2>1. (records[i].synced /\ ~reset) \in BOOLEAN
    OBVIOUS
  <2> QED
    BY <1>3, <1>4, <1>5, <2>1 DEF Dns!Row
<1>7. records' = [records EXCEPT ![i] = row]
  BY <1>2, <1>3, <1>5 DEF Dns!IInv, Dns!TypeOK, Dns!Row
<1>8. /\ records' \in [Dns!RecordIds -> Dns!Row \union {Nil}] /\ records'[i] = row
      /\ \A k \in Dns!RecordIds \ {i} : records'[k] = records[k]
  BY <1>3, <1>6, <1>7 DEF Dns!IInv, Dns!TypeOK
<1>9. Dns!TypeOK'
  BY <1>2, <1>3, <1>8, DnsEnds DEF Dns!IInv, Dns!TypeOK
<1>10. \A k \in Dns!Exist' : k \in Dns!Exist /\ (k # i => records'[k] = records[k])
  BY <1>2, <1>8 DEF Dns!Exist
<1>11. Dns!RecordsBelong'
  BY <1>2, <1>6, <1>8, <1>10 DEF Dns!IInv, Dns!RecordsBelong
<1>12. i \notin raced' => ~records'[i].synced
  <2> SUFFICES ASSUME i \notin raced' PROVE ~row.synced
    BY <1>8
  <2>1. records[i] = session[w].seen[i]
    BY <1>2
  <2>2. i \in Dns!Saw(w)
    BY <1>3, <2>1 DEF Dns!Saw
  <2> QED
    BY <1>1, <1>6, <2>1, <2>2
<1>13. Dns!SyncedIsCurrent'
  <2> SUFFICES ASSUME NEW k \in Dns!Exist' \ raced', records'[k].synced
               PROVE  records'[k].content = sent[k]
    BY <1>2 DEF Dns!SyncedIsCurrent
  <2>1. k # i
    BY <1>12
  <2>2. k \in Dns!Exist \ raced /\ records'[k] = records[k]
    BY <1>2, <1>10, <2>1
  <2> QED
    BY <2>2 DEF Dns!IInv, Dns!SyncedIsCurrent
<1>14. Dns!OnlyAdded'
  <2> SUFFICES ASSUME NEW k \in Dns!RecordIds, k > added
               PROVE  records'[k] = Nil /\ \A v \in Dns!Sessions : session'[v].seen[k] = Nil
    BY <1>2 DEF Dns!OnlyAdded
  <2>1. k # i
    <3>1. added \in Nat
      BY DnsConstants DEF Dns!IInv, Dns!TypeOK
    <3> QED
      BY <1>3, <3>1
  <2> QED
    BY <1>2, <1>8, <2>1, DnsEnds DEF Dns!IInv, Dns!OnlyAdded
<1>15. Dns!HeldIsCurrent'
  <2> SUFFICES ASSUME NEW k \in Dns!Exist' \ raced', NEW v \in Dns!Holds(k, "sync")'
               PROVE  records'[k].content = session'[v].seen[k].content
    BY DEF Dns!HeldIsCurrent
  <2>1. k \in Dns!RecordIds
    BY DEF Dns!Exist
  <2>2. v \in Dns!Holds(k, "sync") /\ session'[v].seen[k] = session[v].seen[k]
    BY <1>2, <2>1, DnsEnds
  <2>3. k # i
    BY <1>2, <2>2
  <2>4. k \in Dns!Exist \ raced /\ records'[k] = records[k]
    BY <1>2, <1>10, <2>3
  <2> QED
    BY <2>2, <2>4 DEF Dns!IInv, Dns!HeldIsCurrent
<1> QED
  BY <1>2, <1>9, <1>11, <1>13, <1>14, <1>15, DnsEnds DEF Dns!IInv

\* A sync marks what it has in its hands.
LEMMA DnsSync ==
    ASSUME Dns!IInv, NEW w \in Dns!Sessions, Dns!CommitSync(w)
    PROVE  Dns!IInv'
<1>1. /\ session[w].op = "sync" /\ w \in Requests /\ Dns!Saw(w) \subseteq Dns!Exist
      /\ records' = [i \in Dns!RecordIds |->
                       IF i \in Dns!Saw(w) THEN [records[i] EXCEPT !.synced = TRUE] ELSE records[i]]
      /\ sent' = [i \in Dns!RecordIds |->
                    IF i \in Dns!Saw(w) THEN session[w].seen[i].content ELSE sent[i]]
      /\ Dns!Ends(w) /\ UNCHANGED <<profile, made, added, raced>>
  BY DEF Dns!CommitSync, Dns!Does
<1>2. ASSUME NEW i \in Dns!Saw(w)
      PROVE  /\ i \in Dns!Exist /\ i \in Dns!RecordIds
             /\ records[i] \in Dns!Row /\ records'[i] \in Dns!Row
             /\ records'[i].profile = records[i].profile
             /\ records'[i].content = records[i].content
             /\ sent'[i] = session[w].seen[i].content /\ sent'[i] \in Contents
  <2>1. /\ i \in Dns!Exist /\ i \in Dns!RecordIds /\ records[i] \in Dns!Row
    BY <1>1, <1>2, DnsRows
  <2>2. PICK row : row = [records[i] EXCEPT !.synced = TRUE]
    OBVIOUS
  <2>3. /\ row \in Dns!Row /\ row.profile = records[i].profile
        /\ row.content = records[i].content
    BY <2>1, <2>2 DEF Dns!Row
  <2>4. records'[i] = row /\ sent'[i] = session[w].seen[i].content
    BY <1>1, <1>2, <2>1, <2>2
  <2>5. session[w].seen[i] \in Dns!Row
    <3>1. session[w] \in Dns!Job
      BY DEF Dns!IInv, Dns!TypeOK
    <3>2. session[w].seen \in [Dns!RecordIds -> Dns!Row \union {Nil}]
      BY <3>1 DEF Dns!Job
    <3> QED
      BY <1>2, <2>1, <3>2 DEF Dns!Saw
  <2> QED
    BY <2>1, <2>3, <2>4, <2>5 DEF Dns!Row
<1>3. \A i \in Dns!RecordIds \ Dns!Saw(w) : records'[i] = records[i] /\ sent'[i] = sent[i]
  BY <1>1
<1>4. \A i \in Dns!RecordIds : records'[i] \in Dns!Row \union {Nil}
                              /\ sent'[i] \in Contents \union {Nil}
  BY <1>2, <1>3 DEF Dns!IInv, Dns!TypeOK
<1>5. /\ records' \in [Dns!RecordIds -> Dns!Row \union {Nil}]
      /\ sent' \in [Dns!RecordIds -> Contents \union {Nil}]
  BY <1>1, <1>4
<1>6. Dns!TypeOK'
  BY <1>1, <1>5, DnsEnds DEF Dns!IInv, Dns!TypeOK
<1>7. \A i \in Dns!Exist' : /\ i \in Dns!Exist /\ i \in Dns!RecordIds
                            /\ records'[i].profile = records[i].profile
                            /\ records'[i].content = records[i].content
  <2> SUFFICES ASSUME NEW i \in Dns!Exist'
               PROVE  /\ i \in Dns!Exist /\ i \in Dns!RecordIds
                      /\ records'[i].profile = records[i].profile
                      /\ records'[i].content = records[i].content
    OBVIOUS
  <2>1. i \in Dns!RecordIds /\ records'[i] # Nil
    BY DEF Dns!Exist
  <2> QED
    BY <1>2, <1>3, <2>1 DEF Dns!Exist
<1>8. Dns!RecordsBelong'
  BY <1>1, <1>7 DEF Dns!IInv, Dns!RecordsBelong
<1>9. Dns!SyncedIsCurrent'
  <2> SUFFICES ASSUME NEW i \in Dns!Exist' \ raced', records'[i].synced
               PROVE  records'[i].content = sent'[i]
    BY DEF Dns!SyncedIsCurrent
  <2>1. i \in Dns!Exist \ raced /\ i \in Dns!RecordIds
    BY <1>1, <1>7
  <2>2. CASE i \in Dns!Saw(w)
    <3>1. w \in Dns!Holds(i, "sync")
      BY <1>1, <2>2 DEF Dns!Holds, Dns!Does
    <3>2. records[i].content = session[w].seen[i].content
      BY <2>1, <3>1 DEF Dns!IInv, Dns!HeldIsCurrent
    <3> QED
      BY <1>2, <2>2, <3>2
  <2>3. CASE i \notin Dns!Saw(w)
    BY <1>3, <2>1, <2>3 DEF Dns!IInv, Dns!SyncedIsCurrent
  <2> QED
    BY <2>2, <2>3
<1>10. Dns!OnlyAdded'
  <2> SUFFICES ASSUME NEW i \in Dns!RecordIds, i > added
               PROVE  records'[i] = Nil /\ \A v \in Dns!Sessions : session'[v].seen[i] = Nil
    BY <1>1 DEF Dns!OnlyAdded
  <2>1. records[i] = Nil /\ \A v \in Dns!Sessions : session[v].seen[i] = Nil
    BY DEF Dns!IInv, Dns!OnlyAdded
  <2>2. i \notin Dns!Saw(w)
    BY <2>1 DEF Dns!Saw
  <2> QED
    BY <1>1, <1>3, <2>1, <2>2, DnsEnds
<1>11. Dns!HeldIsCurrent'
  <2> SUFFICES ASSUME NEW i \in Dns!Exist' \ raced', NEW v \in Dns!Holds(i, "sync")'
               PROVE  records'[i].content = session'[v].seen[i].content
    BY DEF Dns!HeldIsCurrent
  <2>1. /\ i \in Dns!Exist \ raced /\ i \in Dns!RecordIds
        /\ records'[i].content = records[i].content
    BY <1>1, <1>7
  <2>2. v \in Dns!Holds(i, "sync") /\ session'[v].seen[i] = session[v].seen[i]
    BY <1>1, <2>1, DnsEnds
  <2> QED
    BY <2>1, <2>2 DEF Dns!IInv, Dns!HeldIsCurrent
<1> QED
  BY <1>1, <1>6, <1>8, <1>9, <1>10, <1>11, DnsEnds DEF Dns!IInv

LEMMA DnsStep == Dns!IInv /\ [Dns!Next]_dnsVars => Dns!IInv'
<1> SUFFICES ASSUME Dns!IInv, [Dns!Next]_dnsVars PROVE Dns!IInv'
  OBVIOUS
<1>1. CASE UNCHANGED dnsVars
  BY <1>1 DEF dnsVars, Dns!IInv, Dns!TypeOK, Dns!HasContent, Dns!Does, Dns!SyncedIsCurrent,
              Dns!RecordsBelong, Dns!OnlyAdded, Dns!HeldIsCurrent, Dns!Exist, Dns!Holds, Dns!Saw
<1>2. Requests \subseteq Dns!Sessions /\ DnsTasks \subseteq Dns!Sessions
  BY DEF Dns!Sessions
<1>3. ASSUME NEW w \in Dns!Sessions,
             \/ Dns!CreateProfile(w) \/ Dns!DeleteProfile(w) \/ Dns!AddRecord(w)
             \/ Dns!UpdateRecord(w) \/ Dns!DeleteRecord(w) \/ Dns!SyncRecords(w)
      PROVE  Dns!IInv'
  <2>1. PICK j \in Dns!Job : /\ session' = [session EXCEPT ![w] = j]
                             /\ j.op \in {"add", "update"} => j.content \in Contents
                             /\ \A i \in Dns!RecordIds : j.seen[i] \in {Nil, records[i]}
    BY <1>3, DnsLoads
  <2>2. UNCHANGED <<profile, made, records, added, sent, raced>>
    BY <1>3, DnsLoads
  <2>3. \A i \in Dns!RecordIds : j.seen[i] \in {Nil, records[i], session[w].seen[i]}
    BY <2>1
  <2> QED
    BY <2>1, <2>2, <2>3, DnsSession
<1>4. ASSUME NEW t \in DnsTasks, Dns!TaskFlushes(t) PROVE Dns!IInv'
  <2>1. PICK j : j = [session[t] EXCEPT !.op = "flushed"]
    OBVIOUS
  <2>2. t \in Dns!Sessions /\ session[t] \in Dns!Job
    BY <1>2 DEF Dns!IInv, Dns!TypeOK
  <2>3. j \in Dns!Job /\ j.seen = session[t].seen /\ j.op = "flushed"
    BY <2>1, <2>2 DEF Dns!Job
  <2>4. session' = [session EXCEPT ![t] = j]
    BY <1>4, <2>1, <2>2 DEF Dns!TaskFlushes, Dns!IInv, Dns!TypeOK
  <2>5. UNCHANGED <<profile, made, records, added, sent, raced>>
    BY <1>4 DEF Dns!TaskFlushes, Dns!store
  <2> QED
    BY <2>2, <2>3, <2>4, <2>5, DnsSession
<1>5. ASSUME NEW w \in Dns!Sessions, Dns!RollBack(w) PROVE Dns!IInv'
  <2>1. /\ session' = [session EXCEPT ![w] = Dns!Idle]
        /\ UNCHANGED <<profile, made, records, added, sent, raced>>
    BY <1>5 DEF Dns!RollBack, Dns!Ends, Dns!store
  <2> QED
    <3>1. PICK j \in Dns!Job : j = Dns!Idle
      BY DnsIdle
    <3>2. j.op = "none" /\ \A i \in Dns!RecordIds : j.seen[i] = Nil
      BY <3>1, DnsIdle
    <3>3. session' = [session EXCEPT ![w] = j]
      BY <2>1, <3>1
    <3>4. /\ \A i \in Dns!RecordIds : j.seen[i] \in {Nil, records[i], session[w].seen[i]}
          /\ \A i \in Dns!RecordIds : j.seen[i] \in {Nil, records[i]}
          /\ j.op \in {"add", "update"} => j.content \in Contents
      BY <3>2
    <3> QED
      BY <2>1, <3>3, <3>4, DnsSession
<1>6. CASE Dns!Next
  <2>1. CASE \E w \in Requests :
               \/ Dns!CreateProfile(w) \/ Dns!DeleteProfile(w) \/ Dns!AddRecord(w)
               \/ Dns!UpdateRecord(w) \/ Dns!DeleteRecord(w) \/ Dns!SyncRecords(w)
    BY <1>2, <1>3, <2>1
  <2>2. CASE \E w \in Requests :
               \/ Dns!CommitCreate(w) \/ Dns!CommitDeleteProfile(w) \/ Dns!CommitAdd(w)
               \/ Dns!CommitUpdate(w) \/ Dns!CommitDelete(w) \/ Dns!CommitSync(w)
    BY <1>2, <2>2, DnsCreate, DnsDelete, DnsAdd, DnsUpdate, DnsSync
  <2>3. CASE \E t \in DnsTasks : Dns!SyncRecords(t) \/ Dns!TaskFlushes(t)
    BY <1>2, <1>3, <1>4, <2>3
  <2>4. CASE \E w \in Dns!Sessions : Dns!RollBack(w)
    BY <1>5, <2>4
  <2> QED
    BY <1>6, <2>1, <2>2, <2>3, <2>4 DEF Dns!Next
<1> QED
  BY <1>1, <1>6

LEMMA DnsInvariant == MCSpec => []Dns!IInv
<1>1. MCInit => Dns!IInv
  BY DnsInit DEF MCInit
<1>2. [MCNext]_<<part, vars, xrayVars, dnsVars>> => [Dns!Next]_dnsVars
  BY DEF MCNext, vars, xrayVars, dnsVars
<1>3. Dns!IInv /\ [MCNext]_<<part, vars, xrayVars, dnsVars>> => Dns!IInv'
  BY <1>2, DnsStep
<1> QED
  BY <1>1, <1>3, PTL DEF MCSpec

\* SyncedIsCurrent: a record counts as synced only with the content a sync had,
\* unless an update and a sync of it overlapped.
THEOREM SyncsAreCurrent == MCSpec => []SyncedIsCurrent
<1>1. Dns!IInv => SyncedIsCurrent
  BY DEF Dns!IInv, SyncedIsCurrent
<1> QED
  BY <1>1, DnsInvariant, PTL

\* RecordsBelong: no record outlives its profile or is added to another one.
THEOREM RecordsBelongToProfile == MCSpec => []RecordsBelong
<1>1. Dns!IInv => RecordsBelong
  BY DEF Dns!IInv, RecordsBelong
<1> QED
  BY <1>1, DnsInvariant, PTL
=============================================================================
