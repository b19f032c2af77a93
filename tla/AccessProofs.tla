---------------------------- MODULE AccessProofs ----------------------------
(***************************************************************************)
(* Theorems of Access and of Catalog, for every set of users, requests,    *)
(* tenants and services and every life of a token.                         *)
(***************************************************************************)
EXTENDS MCAccess, SequenceTheorems, FiniteSetTheorems, TLAPS

\* A bulk request's assignments are a sequence of them.
LEMMA BulkIsSeq ==
    ASSUME NEW n \in 2..MaxBulk, NEW b \in [1..n -> Assignment]
    PROVE  b \in Seq(Assignment) /\ b # <<>>
<1>1. n \in Nat /\ n > 0
  BY AccessAssumption
<1>2. b \in Seq(Assignment) /\ Len(b) = n
  BY <1>1, SeqDef, LenProperties
<1> QED
  BY <1>1, <1>2

LEMMA TypeInit == Init => TypeOK
BY AccessAssumption
   DEF Init, TypeOK, Idle, Job, Nothing, Change, Row, Roles

LEMMA TokenTypes ==
    /\ \A t \in Token : t.left > 0 =>
         /\ Older(t) \in Token
         /\ Older(t).sub = t.sub /\ Older(t).role = t.role
         /\ Older(t).renewed = t.renewed /\ Older(t).left = t.left - 1
    /\ \A u \in Users, r \in Roles :
         AccessToken(u, r, FALSE) \in Token /\ AccessToken(u, r, TRUE) \in Token
    /\ \A u \in Users : RefreshToken(u) \in Token
    /\ \A t \in Token : Claim(t) \in Roles
<1>1. ASSUME NEW t \in Token, t.left > 0
      PROVE  /\ Older(t) \in Token
             /\ Older(t).sub = t.sub /\ Older(t).role = t.role
             /\ Older(t).renewed = t.renewed /\ Older(t).left = t.left - 1
  <2>1. t.left - 1 \in Nat
    BY <1>1 DEF Token
  <2>2. Older(t) = [sub |-> t.sub, role |-> t.role, left |-> t.left - 1, renewed |-> t.renewed]
    BY DEF Older, Token
  <2> QED
    BY <2>1, <2>2 DEF Token
<1>2. \A u \in Users, r \in Roles :
        AccessToken(u, r, FALSE) \in Token /\ AccessToken(u, r, TRUE) \in Token
  BY AccessAssumption DEF AccessToken, Token
<1>3. \A u \in Users : RefreshToken(u) \in Token
  BY AccessAssumption DEF RefreshToken, Token
<1>4. \A t \in Token : Claim(t) \in Roles
  BY DEF Claim, Token, Roles
<1> QED
  BY <1>1, <1>2, <1>3, <1>4

LEMMA TypeStep ==
    ASSUME TypeOK, JobsFormed, TokensLive, [Next]_vars
    PROVE  TypeOK'
<1> USE AccessAssumption DEF TypeOK, JobsFormed
<1>1. Idle \in Job /\ Nothing \in Change
  BY DEF Idle, Job, Nothing, Change
<1>2. CASE Tick
  <2>1. \A t \in Token : t.left > 0 => Older(t) \in Token
    BY TokenTypes
  <2>2. tokens' \subseteq Token /\ out' \subseteq tokens'
    BY <1>2, <2>1 DEF Tick, Lives, Token
  <2>3. ASSUME NEW w \in Workers PROVE job'[w] \in Job
    <3>1. job'[w] = IF job[w].token # Nil /\ job[w].token.left > 0
                    THEN [job[w] EXCEPT !.token = Older(job[w].token)] ELSE job[w]
      BY <1>2 DEF Tick
    <3>2. job[w] \in Job
      OBVIOUS
    <3>3. CASE job[w].token # Nil /\ job[w].token.left > 0
      <4>1. Older(job[w].token) \in Token
        BY <2>1, <3>2, <3>3 DEF Job
      <4> QED
        BY <3>1, <3>2, <3>3, <4>1, ZenonT(60) DEF Job
    <3>4. CASE ~(job[w].token # Nil /\ job[w].token.left > 0)
      BY <3>1, <3>2, <3>4
    <3> QED
      BY <3>3, <3>4
  <2>4. job' \in [Workers -> Job]
    BY <1>2, <2>3 DEF Tick
  <2> QED
    BY <1>2, <2>2, <2>4 DEF Tick
<1>3. CASE RedisFailsOrReturns
  BY <1>3 DEF RedisFailsOrReturns
<1>4. ASSUME NEW u \in Users, Register(u) \/ Login(u) \/ Evict(u) PROVE TypeOK'
  <2>1. CASE Evict(u)
    BY <1>4, <2>1 DEF Evict
  <2>2. CASE Register(u)
    <3>1. "user" \in Roles /\ [role |-> "user", active |-> TRUE] \in Row
      BY DEF Roles, Row
    <3>2. {AccessToken(u, "user", FALSE), RefreshToken(u)} \subseteq Token
      BY <3>1, TokenTypes, ZenonT(60)
    <3>3. tokens' = tokens \union {AccessToken(u, "user", FALSE), RefreshToken(u)}
      BY <2>2 DEF Register, Issue
    <3> HIDE DEF Row
    <3> QED
      BY <2>2, <3>1, <3>2, <3>3 DEF Register
  <2>3. CASE Login(u)
    <3>1. row[u].role \in Roles
      BY <2>3 DEF Login, Row
    <3>2. {AccessToken(u, row[u].role, FALSE), RefreshToken(u)} \subseteq Token
      BY <3>1, AccessAssumption DEF AccessToken, RefreshToken, Token
    <3>3. tokens' = tokens \union {AccessToken(u, row[u].role, FALSE), RefreshToken(u)}
      BY <2>3 DEF Login, Issue
    <3> QED
      BY <2>3, <3>2, <3>3 DEF Login
  <2> QED
    BY <1>4, <2>1, <2>2, <2>3
<1>5. ASSUME NEW t \in tokens, Renew(t) PROVE TypeOK'
  <2>1. t.sub \in Users /\ Claim(t) \in Roles
    BY TokenTypes DEF Token
  <2>2. PICK n \in Token : n = AccessToken(t.sub, Claim(t), TRUE)
    BY <2>1, TokenTypes
  <2>3. /\ tokens' = tokens \union {n}
        /\ UNCHANGED <<row, black, redis, job, out, shaky, since>>
    BY <1>5, <2>2 DEF Renew, Issue
  <2> QED
    BY <2>3
<1>6. ASSUME NEW t \in tokens, NEW u \in Users, CreateUser(t, u) PROVE TypeOK'
  BY <1>6 DEF CreateUser, Row, Roles
<1>7. ASSUME NEW t \in tokens, NEW w \in Workers, BeginLogout(w, t) PROVE TypeOK'
  BY <1>1, <1>7, ZenonT(60) DEF BeginLogout, Job, Token, Idle
<1>8. ASSUME NEW w \in Workers, NEW u \in Users, NEW c \in Change, LoadsUser(w, u, c)
      PROVE  TypeOK'
  BY <1>1, <1>8 DEF LoadsUser, Job, Idle
<1>9. ASSUME NEW t \in tokens, NEW w \in Workers, NEW u \in Users,
             UpdateUser(w, t, u) \/ DeleteUser(w, t, u)
      PROVE  TypeOK'
  <2>1. [Nothing EXCEPT !.active = FALSE] \in Change
    BY DEF Nothing, Change
  <2>2. [role: Asked \union {Keep}, active: BOOLEAN \union {Keep}] \subseteq Change
    BY DEF Change
  <2> QED
    BY <1>8, <1>9, <2>1, <2>2 DEF UpdateUser, DeleteUser
<1>10. ASSUME NEW t \in tokens, NEW w \in Workers, NEW b \in Seq(Assignment),
              BulkAssignRoles(w, t, b)
       PROVE  TypeOK'
  <2>1. Claim(t) \in Roles
    BY DEF Claim, Token, Roles
  <2> QED
    BY <1>1, <1>10, <2>1 DEF BulkAssignRoles, Job, Idle
<1>11. ASSUME NEW t \in tokens, NEW w \in Workers, NEW a \in Assignment, AssignOneRole(w, t, a)
       PROVE  TypeOK'
  <2>1. <<a>> \in Seq(Assignment)
    OBVIOUS
  <2> QED
    BY <1>10, <1>11, <2>1 DEF AssignOneRole
<1>12. ASSUME NEW w \in Workers, Logout(w) \/ LogoutFails(w) PROVE TypeOK'
  <2>1. CASE LogoutFails(w)
    BY <1>1, <2>1 DEF LogoutFails
  <2>2. CASE Logout(w)
    <3>1. job[w].token \in Token
      BY <2>2 DEF Logout, Job
    <3>2. PICK u \in Users, n \in Nat : u = job[w].token.sub /\ n = job[w].token.left
      BY <3>1 DEF Token
    <3>3. black' \in [Users -> Nat]
      <4>1. CASE black' = black
        BY <4>1
      <4>2. CASE black' # black
        <5>1. PICK early \in 0..1 : n > 0 /\ black' = [black EXCEPT ![u] = n - early]
          BY <2>2, <3>2, <4>2 DEF Logout
        <5>2. n - early \in Nat
          BY <3>2, <5>1
        <5> QED
          BY <5>1, <5>2
      <4> QED
        BY <4>1, <4>2
    <3> QED
      BY <1>1, <2>2, <3>1, <3>3 DEF Logout
  <2> QED
    BY <1>12, <2>1, <2>2
<1>13. ASSUME NEW w \in Workers, AssignRole(w) PROVE TypeOK'
  <2>1. job[w] \in Job /\ job[w].todo # <<>> /\ job[w].todo \in Seq(Assignment)
    BY <1>13 DEF AssignRole, Job
  <2>2. job[w].todo[1] \in Assignment /\ Tail(job[w].todo) \in Seq(Assignment)
    BY <2>1
  <2>3. /\ job[w].todo[1].user \in Users /\ job[w].todo[1].role \in Roles
        /\ job[w].actor \in Roles \union {Nil}
    BY <2>1, <2>2 DEF Assignment, Job
  <2>4. [Nothing EXCEPT !.role = job[w].todo[1].role] \in Change
    BY <2>3 DEF Nothing, Change
  <2> QED
    BY <1>1, <1>13, <2>2, <2>3, <2>4, ZenonT(60) DEF AssignRole, MayAssign, Job, Idle
<1>14. ASSUME NEW w \in Workers, AssignRefused(w) PROVE TypeOK'
  BY <1>1, <1>14 DEF AssignRefused
<1>15. ASSUME NEW w \in Workers, Commit(w) PROVE TypeOK'
  <2>1. /\ job[w] \in Job /\ job[w].op = "patch" /\ job[w].user \in Users
        /\ row[job[w].user] \in Row
    BY <1>15 DEF Commit, Job
  <2>2. Written(job[w]) \in Row
    BY <2>1 DEF Written, Row, Job, Change
  <2>3. row' \in [Users -> Row \union {Nil}] /\ since' \in [Users -> 0..AccessLife]
    BY <1>15, <2>1, <2>2 DEF Commit
  <2>4. [Idle EXCEPT !.op = "assign", !.actor = job[w].actor, !.todo = job[w].todo] \in Job
    BY <2>1, <1>1 DEF Job, Idle
  <2> QED
    BY <1>1, <1>15, <2>3, <2>4 DEF Commit
<1>16. CASE UNCHANGED vars
  BY <1>16 DEF vars
<1> QED
  BY <1>2, <1>3, <1>4, <1>5, <1>6, <1>7, <1>9, <1>10, <1>11, <1>12, <1>13, <1>14,
     <1>15, <1>16, BulkIsSeq DEF Next

LEMMA RestInit == Init => TokensLive /\ JobsFormed /\ LogoutsAlone /\ LogoutHolds /\ StaleClaimsExpire
BY DEF Init, Idle, TokensLive, JobsFormed, LogoutsAlone, LogoutHolds, StaleClaimsExpire,
       LoggingOut

LEMMA RestStep ==
    ASSUME IInv, TypeOK', [Next]_vars
    PROVE  TokensLive' /\ JobsFormed' /\ LogoutsAlone' /\ LogoutHolds' /\ StaleClaimsExpire'
<1> USE AccessAssumption DEF IInv, TypeOK
<1> DEFINE Rest == TokensLive' /\ JobsFormed' /\ LogoutsAlone' /\ LogoutHolds'
                     /\ StaleClaimsExpire'
<1>1. \A t \in tokens : t \in Token /\ t.left \in Nat /\ t.sub \in Users
  BY DEF Token
\* A step that changes the request w only, and not to a logout.
<1>2. ASSUME NEW w \in Workers, \A q \in Workers \ {w} : job'[q] = job[q],
             job'[w].op # "logout",
             job'[w].op = "assign" => job'[w].todo # <<>>,
             job'[w].op = "patch" => /\ job'[w].user # Nil /\ job'[w].seen # Nil
                                     /\ row[job'[w].user] # Nil,
             UNCHANGED <<row, tokens, black, out, shaky, since>>
      PROVE  Rest
  <2>1. TokensLive' /\ LogoutHolds' /\ StaleClaimsExpire'
    BY <1>2 DEF TokensLive, LogoutHolds, StaleClaimsExpire
  <2>2. JobsFormed'
    BY <1>2 DEF JobsFormed
  <2>3. LogoutsAlone'
    <3>1. \A u \in Users : LoggingOut(u)' = LoggingOut(u) \ {w}
      BY <1>2 DEF LoggingOut
    <3>2. ASSUME NEW u \in Users \ shaky, NEW q \in Workers, q \in LoggingOut(u)'
          PROVE  LoggingOut(u)' = {q} /\ \A t \in out : t.sub = u => t.left <= 1
      <4>1. q # w /\ LoggingOut(u) = {q} /\ \A t \in out : t.sub = u => t.left <= 1
        BY <3>1, <3>2 DEF LogoutsAlone
      <4> QED
        BY <3>1, <4>1
    <3> QED
      BY <1>2, <3>2 DEF LogoutsAlone
  <2> QED
    BY <2>1, <2>2, <2>3
<1>3. CASE Tick
  <2>1. \A s \in tokens' : \E t \in tokens : t.left > 1 /\ s = Older(t)
    BY <1>3 DEF Tick, Lives
  <2>2. \A s \in out' : \E t \in out : t.left > 1 /\ s = Older(t)
    BY <1>3 DEF Tick, Lives
  <2>3. \A t \in tokens : t.left > 1 =>
          /\ Older(t).sub = t.sub /\ Older(t).role = t.role
          /\ Older(t).renewed = t.renewed /\ Older(t).left = t.left - 1
    BY <1>1, TokenTypes
  <2>4. \A w \in Workers :
          /\ job'[w].op = job[w].op /\ job'[w].todo = job[w].todo
          /\ job'[w].user = job[w].user /\ job'[w].seen = job[w].seen
          /\ job[w].token = Nil <=> job'[w].token = Nil
          /\ job[w].token # Nil => job'[w].token.sub = job[w].token.sub
    <3>1. ASSUME NEW w \in Workers
          PROVE  /\ job'[w].op = job[w].op /\ job'[w].todo = job[w].todo
                 /\ job'[w].user = job[w].user /\ job'[w].seen = job[w].seen
                 /\ job[w].token = Nil <=> job'[w].token = Nil
                 /\ job[w].token # Nil => job'[w].token.sub = job[w].token.sub
      <4>1. job[w] \in Job
        OBVIOUS
      <4>2. CASE job[w].token # Nil /\ job[w].token.left > 0
        <5>1. job[w].token \in Token
          BY <4>1, <4>2 DEF Job
        <5>2. Older(job[w].token) \in Token /\ Older(job[w].token).sub = job[w].token.sub
          BY <4>2, <5>1, TokenTypes
        <5>3. job'[w] = [job[w] EXCEPT !.token = Older(job[w].token)]
          BY <1>3, <4>2 DEF Tick
        <5> QED
          BY <4>1, <4>2, <5>2, <5>3 DEF Job
      <4>3. CASE ~(job[w].token # Nil /\ job[w].token.left > 0)
        BY <1>3, <4>3 DEF Tick
      <4> QED
        BY <4>2, <4>3
    <3> QED
      BY <3>1
  <2>5. TokensLive'
    <3>1. row' = row
      BY <1>3 DEF Tick
    <3> QED
      BY <1>1, <2>1, <2>3, <3>1 DEF TokensLive
  <2>6. JobsFormed'
    BY <1>3, <2>4 DEF JobsFormed, Tick
  <2>7. LogoutsAlone'
    <3>1. shaky' = shaky /\ out \subseteq tokens
      BY <1>3 DEF Tick
    <3>2. \A u \in Users : LoggingOut(u)' = LoggingOut(u)
      BY <2>4 DEF LoggingOut, JobsFormed
    <3>3. \A s \in out' : \E t \in out : s.sub = t.sub /\ t.left > 1
      BY <2>2, <2>3, <3>1
    <3>4. \A t \in out : t.left > 1 => ~(t.left <= 1)
      BY <1>1
    <3> QED
      BY <3>1, <3>2, <3>3, <3>4 DEF LogoutsAlone
  <2>8. LogoutHolds'
    <3>1. ASSUME NEW t \in out, t.left > 1
          PROVE  t.sub \in shaky \/ black'[t.sub] + 1 >= t.left - 1
      BY <1>1, <1>3, <3>1 DEF Tick, LogoutHolds
    <3>2. shaky' = shaky /\ out \subseteq tokens
      BY <1>3 DEF Tick
    <3> QED
      BY <2>2, <2>3, <3>1, <3>2 DEF LogoutHolds
  <2>9. StaleClaimsExpire'
    <3>1. ASSUME NEW t \in tokens, t.left > 1,
                 t.role \in Roles, t.role # row[t.sub].role, ~t.renewed
          PROVE  t.left - 1 + since'[t.sub] <= AccessLife
      <4>1. t.left + since[t.sub] <= AccessLife
        BY <3>1 DEF StaleClaimsExpire
      <4>2. since[t.sub] \in 0..AccessLife
        BY <1>1
      <4> QED
        BY <1>1, <1>3, <4>1, <4>2 DEF Tick
    <3>2. row' = row
      BY <1>3 DEF Tick
    <3> QED
      BY <2>1, <2>3, <3>1, <3>2 DEF StaleClaimsExpire
  <2> QED
    BY <2>5, <2>6, <2>7, <2>8, <2>9
<1>4. CASE RedisFailsOrReturns
  BY <1>4 DEF RedisFailsOrReturns, TokensLive, JobsFormed, LogoutsAlone, LogoutHolds,
              StaleClaimsExpire, LoggingOut
<1>5. ASSUME NEW u \in Users, Register(u) PROVE Rest
  <2>1. /\ tokens' = tokens \union {AccessToken(u, "user", FALSE), RefreshToken(u)}
        /\ row[u] = Nil /\ row' = [row EXCEPT ![u] = [role |-> "user", active |-> TRUE]]
        /\ UNCHANGED <<black, job, out, shaky, since>>
    BY <1>5 DEF Register, Issue
  <2>2. \A t \in tokens : t.sub # u
    BY <2>1 DEF TokensLive
  <2>3. [role |-> "user", active |-> TRUE] # Nil
    <3>1. [role |-> "user", active |-> TRUE] \in Row
      BY DEF Row, Roles
    <3> QED
      BY <3>1
  <2>4. TokensLive'
    BY <1>1, <2>1, <2>2, <2>3 DEF TokensLive, AccessToken, RefreshToken
  <2>5. JobsFormed'
    BY <2>1, <2>3 DEF JobsFormed, Job
  <2>6. LogoutsAlone' /\ LogoutHolds'
    BY <2>1 DEF LogoutsAlone, LogoutHolds, LoggingOut
  <2>7. StaleClaimsExpire'
    BY <1>1, <2>1, <2>2 DEF StaleClaimsExpire, AccessToken, RefreshToken
  <2> QED
    BY <2>4, <2>5, <2>6, <2>7
<1>6. ASSUME NEW t \in tokens, NEW u \in Users, CreateUser(t, u) PROVE Rest
  <2>1. /\ row[u] = Nil /\ row' = [row EXCEPT ![u] = [role |-> "user", active |-> TRUE]]
        /\ UNCHANGED <<tokens, black, job, out, shaky, since>>
    BY <1>6 DEF CreateUser
  <2>2. \A x \in tokens : x.sub # u
    BY <2>1 DEF TokensLive
  <2>3. [role |-> "user", active |-> TRUE] # Nil
    <3>1. [role |-> "user", active |-> TRUE] \in Row
      BY DEF Row, Roles
    <3> QED
      BY <3>1
  <2>4. TokensLive'
    BY <1>1, <2>1, <2>2, <2>3 DEF TokensLive
  <2>5. JobsFormed'
    BY <2>1, <2>3 DEF JobsFormed, Job
  <2>6. LogoutsAlone' /\ LogoutHolds'
    BY <2>1 DEF LogoutsAlone, LogoutHolds, LoggingOut
  <2>7. StaleClaimsExpire'
    BY <1>1, <2>1, <2>2 DEF StaleClaimsExpire
  <2> QED
    BY <2>4, <2>5, <2>6, <2>7
<1>7. ASSUME NEW u \in Users, Login(u) PROVE Rest
  <2>1. /\ tokens' = tokens \union {AccessToken(u, row[u].role, FALSE), RefreshToken(u)}
        /\ row[u] # Nil
        /\ UNCHANGED <<row, black, job, out, shaky, since>>
    BY <1>7 DEF Login, Issue
  <2>2. TokensLive'
    BY <1>1, <2>1 DEF TokensLive, AccessToken, RefreshToken
  <2>3. JobsFormed' /\ LogoutsAlone' /\ LogoutHolds'
    BY <2>1 DEF JobsFormed, LogoutsAlone, LogoutHolds, LoggingOut
  <2>4. StaleClaimsExpire'
    BY <1>1, <2>1 DEF StaleClaimsExpire, AccessToken, RefreshToken
  <2> QED
    BY <2>2, <2>3, <2>4
<1>8. ASSUME NEW u \in Users, Evict(u) PROVE Rest
  BY <1>8, <1>1 DEF Evict, TokensLive, JobsFormed, LogoutsAlone, LogoutHolds,
              StaleClaimsExpire, LoggingOut
<1>9. ASSUME NEW t \in tokens, Renew(t) PROVE Rest
  <2>1. /\ tokens' = tokens \union {AccessToken(t.sub, Claim(t), TRUE)}
        /\ UNCHANGED <<row, black, job, out, shaky, since>>
    BY <1>9 DEF Renew, Issue
  <2>2. TokensLive'
    BY <1>1, <2>1 DEF TokensLive, AccessToken
  <2>3. JobsFormed' /\ LogoutsAlone' /\ LogoutHolds'
    BY <2>1 DEF JobsFormed, LogoutsAlone, LogoutHolds, LoggingOut
  <2>4. StaleClaimsExpire'
    BY <1>1, <2>1 DEF StaleClaimsExpire, AccessToken
  <2> QED
    BY <2>2, <2>3, <2>4
<1>10. ASSUME NEW t \in tokens, NEW w \in Workers, BeginLogout(w, t) PROVE Rest
  <2>1. /\ job[w] = Idle /\ job' = [job EXCEPT ![w] = [Idle EXCEPT !.op = "logout", !.token = t]]
        /\ redis => black[t.sub] = 0
        /\ shaky' = IF LoggingOut(t.sub) # {} \/ ~redis THEN shaky \union {t.sub} ELSE shaky
        /\ UNCHANGED <<row, tokens, black, out, since>>
    BY <1>10 DEF BeginLogout, AcceptsUser, Accepts
  <2>2. job'[w].op = "logout" /\ job'[w].token = t
    BY <2>1 DEF Idle
  <2>3. TokensLive' /\ LogoutHolds' /\ StaleClaimsExpire'
    BY <2>1 DEF TokensLive, LogoutHolds, StaleClaimsExpire
  <2>4. JobsFormed'
    BY <1>1, <2>1, <2>2 DEF JobsFormed
  <2>5. LogoutsAlone'
    <3>1. \A q \in Workers \ {w} : job'[q] = job[q]
      BY <2>1
    <3>2. \A u \in Users : u # t.sub => LoggingOut(u)' = LoggingOut(u)
      BY <2>1, <2>2, <3>1 DEF LoggingOut, Idle
    <3>3. ASSUME t.sub \notin shaky'
          PROVE  LoggingOut(t.sub)' = {w} /\ \A x \in out : x.sub = t.sub => x.left <= 1
      <4>1. LoggingOut(t.sub) = {} /\ redis /\ black[t.sub] = 0 /\ shaky' = shaky
        BY <2>1, <3>3
      <4>2. LoggingOut(t.sub)' = {w}
        BY <2>2, <3>1, <4>1 DEF LoggingOut
      <4>3. \A x \in out : x.sub = t.sub => x.left <= 1
        BY <1>1, <3>3, <4>1 DEF LogoutHolds
      <4> QED
        BY <4>2, <4>3
    <3>4. ASSUME NEW u \in Users \ shaky', u # t.sub, NEW q \in Workers, q \in LoggingOut(u)'
          PROVE  LoggingOut(u)' = {q} /\ \A x \in out' : x.sub = u => x.left <= 1
      BY <2>1, <3>2, <3>4 DEF LogoutsAlone
    <3> QED
      BY <1>1, <2>1, <3>3, <3>4 DEF LogoutsAlone
  <2> QED
    BY <2>3, <2>4, <2>5
<1>11. ASSUME NEW w \in Workers, NEW u \in Users, NEW c, LoadsUser(w, u, c) PROVE Rest
  <2>1. /\ job' = [job EXCEPT ![w] = [Idle EXCEPT !.op = "patch", !.user = u,
                                                  !.seen = row[u], !.set = c]]
        /\ row[u] # Nil
        /\ UNCHANGED <<row, tokens, black, out, shaky, since>>
    BY <1>11 DEF LoadsUser
  <2>2. job'[w].op = "patch" /\ job'[w].user = u /\ job'[w].seen = row[u]
    BY <2>1 DEF Idle
  <2> QED
    BY <1>2, <2>1, <2>2
<1>12. ASSUME NEW t \in tokens, NEW w \in Workers, NEW u \in Users,
             UpdateUser(w, t, u) \/ DeleteUser(w, t, u)
       PROVE  Rest
  BY <1>11, <1>12 DEF UpdateUser, DeleteUser
<1>13. ASSUME NEW t \in tokens, NEW w \in Workers, NEW b, b # <<>>, BulkAssignRoles(w, t, b)
       PROVE  Rest
  <2>1. /\ job' = [job EXCEPT ![w] = [Idle EXCEPT !.op = "assign", !.actor = Claim(t), !.todo = b]]
        /\ UNCHANGED <<row, tokens, black, out, shaky, since>>
    BY <1>13 DEF BulkAssignRoles
  <2>2. job'[w].op = "assign" /\ job'[w].todo = b
    BY <2>1 DEF Idle
  <2> QED
    BY <1>2, <1>13, <2>1, <2>2
<1>14. ASSUME NEW t \in tokens, NEW w \in Workers, NEW a \in Assignment, AssignOneRole(w, t, a)
       PROVE  Rest
  BY <1>13, <1>14 DEF AssignOneRole
<1>15. ASSUME NEW w \in Workers, AssignRole(w) PROVE Rest
  <2>1. /\ job'[w].op = "patch" /\ job'[w].user = job[w].todo[1].user
        /\ job'[w].seen = row[job'[w].user] /\ row[job'[w].user] # Nil
        /\ \A q \in Workers \ {w} : job'[q] = job[q]
        /\ UNCHANGED <<row, tokens, black, out, shaky, since>>
    BY <1>15 DEF AssignRole, MayAssign, Idle
  <2>2. job[w] \in Job /\ job[w].op = "assign" /\ job[w].todo # <<>>
    BY <1>15 DEF AssignRole, JobsFormed
  <2>3. job[w].todo[1] \in Assignment
    BY <2>2 DEF Job
  <2>4. job'[w].user # Nil
    BY <2>1, <2>3 DEF Assignment
  <2> QED
    BY <1>2, <2>1, <2>4
<1>16. ASSUME NEW w \in Workers, AssignRefused(w) PROVE Rest
  <2>1. /\ job'[w].op = "none"
        /\ \A q \in Workers \ {w} : job'[q] = job[q]
        /\ UNCHANGED <<row, tokens, black, out, shaky, since>>
    BY <1>16 DEF AssignRefused, Idle
  <2> QED
    BY <1>2, <2>1
<1>17. ASSUME NEW w \in Workers, Logout(w) PROVE Rest
  <2>1. PICK t \in Token : t = job[w].token
    BY <1>17 DEF Logout, JobsFormed, Job
  <2>2. PICK u \in Users : u = t.sub
    BY DEF Token
  <2>3. /\ job[w].op = "logout" /\ t.left \in Nat
        /\ out' = out \union ({t} \intersect tokens)
        /\ job'[w].op = "none"
        /\ \A q \in Workers \ {w} : job'[q] = job[q]
        /\ UNCHANGED <<row, tokens, shaky, since>>
    BY <1>17, <2>1 DEF Logout, Idle, Token
  <2>4. /\ \A x \in Users \ {u} : black'[x] = black[x]
        /\ black'[u] + 1 >= t.left /\ black'[u] \in Nat
    <3>1. CASE t.left <= 1 /\ black' = black
      <4>1. black[u] \in Nat
        OBVIOUS
      <4> QED
        BY <2>3, <3>1, <4>1
    <3>2. CASE ~(t.left <= 1 /\ black' = black)
      <4>1. PICK early \in 0..1 : t.left > 0 /\ black' = [black EXCEPT ![u] = t.left - early]
        BY <1>17, <2>1, <2>2, <3>2 DEF Logout
      <4>2. black'[u] = t.left - early /\ \A x \in Users \ {u} : black'[x] = black[x]
        BY <4>1
      <4> QED
        BY <2>3, <4>1, <4>2
    <3> QED
      BY <3>1, <3>2
  <2>5. TokensLive' /\ StaleClaimsExpire'
    BY <2>3 DEF TokensLive, StaleClaimsExpire
  <2>6. JobsFormed'
    <3>1. /\ job'[w].op = "none" /\ row' = row
          /\ \A q \in Workers \ {w} : job'[q] = job[q]
      BY <2>3
    <3>2. JobsFormed
      OBVIOUS
    <3> HIDE DEF IInv, TypeOK
    <3> QED
      BY <3>1, <3>2 DEF JobsFormed
  <2>7. w \in LoggingOut(u)
    BY <2>1, <2>2, <2>3 DEF LoggingOut
  <2>8. LogoutHolds'
    <3>1. ASSUME NEW x \in out', x.sub \notin shaky PROVE black'[x.sub] + 1 >= x.left
      <4>1. x = t \/ x \in out
        BY <2>3
      <4>2. CASE x = t
        BY <2>2, <2>4, <4>2
      <4>3. CASE x \in out /\ x.sub = u
        <5>1. x.left <= 1 /\ x.left \in Nat
          BY <1>1, <2>7, <3>1, <4>3 DEF LogoutsAlone
        <5> QED
          BY <2>4, <4>3, <5>1
      <4>4. CASE x \in out /\ x.sub # u
        BY <1>1, <2>4, <3>1, <4>4 DEF LogoutHolds
      <4> QED
        BY <4>1, <4>2, <4>3, <4>4
    <3> QED
      BY <2>3, <3>1 DEF LogoutHolds
  <2>9. LogoutsAlone'
    <3>1. \A x \in Users : LoggingOut(x)' = LoggingOut(x) \ {w}
      BY <2>3 DEF LoggingOut
    <3>2. ASSUME NEW x \in Users \ shaky, NEW q \in Workers, q \in LoggingOut(x)'
          PROVE  LoggingOut(x)' = {q} /\ \A y \in out' : y.sub = x => y.left <= 1
      <4>1. /\ q # w /\ LoggingOut(x) = {q}
            /\ \A y \in out : y.sub = x => y.left <= 1
        BY <3>1, <3>2 DEF LogoutsAlone
      <4>2. x # u
        BY <2>7, <4>1
      <4> QED
        BY <2>2, <2>3, <3>1, <4>1, <4>2
    <3> QED
      BY <2>3, <3>2 DEF LogoutsAlone
  <2> QED
    BY <2>5, <2>6, <2>8, <2>9
<1>20. ASSUME NEW w \in Workers, LogoutFails(w) PROVE Rest
  <2>1. /\ job'[w].op = "none"
        /\ \A q \in Workers \ {w} : job'[q] = job[q]
        /\ UNCHANGED <<row, tokens, black, out, shaky, since>>
    BY <1>20 DEF LogoutFails, Idle
  <2> QED
    BY <1>2, <2>1
<1>18. ASSUME NEW w \in Workers, Commit(w) PROVE Rest
  <2>1. PICK u \in Users : u = job[w].user
    BY <1>18 DEF Commit, JobsFormed, Job
  <2>2. /\ job[w].op = "patch" /\ row[u] # Nil
        /\ row' = [row EXCEPT ![u] = Written(job[w])]
        /\ since' = [since EXCEPT ![u] = IF Written(job[w]).role # row[u].role THEN 0 ELSE since[u]]
        /\ \A q \in Workers \ {w} : job'[q] = job[q]
        /\ UNCHANGED <<tokens, black, out, shaky>>
    BY <1>18, <2>1 DEF Commit, JobsFormed
  <2>3. /\ job'[w].op \in {"none", "assign"}
        /\ job'[w].op = "assign" => job'[w].todo # <<>>
    BY <1>18 DEF Commit, Idle
  <2>4. Written(job[w]) # Nil
    <3>1. /\ job[w] \in Job /\ row[u] \in Row
      BY <2>1, <2>2 DEF Job
    <3>2. Written(job[w]) \in Row
      BY <2>1, <3>1 DEF Written, Row, Job, Change
    <3> QED
      BY <3>2
  <2>5. TokensLive'
    BY <1>1, <2>2, <2>4 DEF TokensLive
  <2>6. JobsFormed'
    <3>1. \A x \in Users : row[x] # Nil => row'[x] # Nil
      BY <2>2, <2>4
    <3>2. \A q \in Workers : job[q].user # Nil => job[q].user \in Users
      BY DEF Job
    <3> QED
      BY <2>2, <2>3, <3>1, <3>2 DEF JobsFormed
  <2>7. LogoutHolds' /\ LogoutsAlone'
    <3>1. \A x \in Users, q \in Workers :
            (job'[q].op = "logout" /\ job'[q].token.sub = x)
                <=> (job[q].op = "logout" /\ job[q].token.sub = x)
      BY <2>2, <2>3
    <3>2. \A x \in Users : LoggingOut(x)' = LoggingOut(x)
      BY <3>1 DEF LoggingOut
    <3> QED
      BY <2>2, <3>2 DEF LogoutHolds, LogoutsAlone
  <2>8. StaleClaimsExpire'
    <3>1. ASSUME NEW t \in tokens, t.role \in Roles, t.role # row'[t.sub].role, ~t.renewed
          PROVE  t.left + since'[t.sub] <= AccessLife
      <4>1. CASE t.sub = u /\ Written(job[w]).role # row[u].role
        BY <1>1, <2>2, <3>1, <4>1 DEF TokensLive
      <4>2. CASE ~(t.sub = u /\ Written(job[w]).role # row[u].role)
        BY <1>1, <2>2, <3>1, <4>2 DEF StaleClaimsExpire
      <4> QED
        BY <4>1, <4>2
    <3> QED
      BY <2>2, <3>1 DEF StaleClaimsExpire
  <2> QED
    BY <2>5, <2>6, <2>7, <2>8
<1>19. CASE UNCHANGED vars
  BY <1>19 DEF vars, TokensLive, JobsFormed, LogoutsAlone, LogoutHolds, StaleClaimsExpire,
               LoggingOut
<1> QED
  BY <1>3, <1>4, <1>5, <1>6, <1>7, <1>8, <1>9, <1>10, <1>12, <1>13, <1>14, <1>15, <1>16,
     <1>17, <1>18, <1>19, <1>20, BulkIsSeq DEF Next

THEOREM AccessInvariant == Spec => []IInv
<1>1. Init => IInv
  BY TypeInit, RestInit DEF IInv
<1>2. IInv /\ [Next]_vars => IInv'
  BY TypeStep, RestStep DEF IInv
<1> QED
  BY <1>1, <1>2, PTL DEF Spec

\* Logging out bars the token for as long as it lives, for every user whose
\* logouts did not overlap and met a working Redis.
THEOREM LogoutsHold == Spec => []LogoutHolds
<1>1. IInv => LogoutHolds
  BY DEF IInv
<1> QED
  BY <1>1, AccessInvariant, PTL

\* A role that was taken away is claimed for one life of an access token at
\* most, but by renewed tokens.
THEOREM ClaimsExpire == Spec => []StaleClaimsExpire
<1>1. IInv => StaleClaimsExpire
  BY DEF IInv
<1> QED
  BY <1>1, AccessInvariant, PTL

\* The formula of ReactivationIsInformed.
Informed ==
    \A u \in Users :
         row[u] # Nil /\ ~row[u].active /\ row'[u].active =>
             \E w \in Workers : /\ job[w].user = u /\ ~job[w].seen.active
                                /\ job[w] # job'[w]

LEMMA InformedStep == IInv /\ [Next]_vars => Informed
<1> SUFFICES ASSUME IInv, [Next]_vars, NEW u \in Users,
                    row[u] # Nil, ~row[u].active, row'[u].active
             PROVE  \E w \in Workers : /\ job[w].user = u /\ ~job[w].seen.active
                                       /\ job[w] # job'[w]
  BY DEF Informed
<1> USE AccessAssumption DEF IInv, TypeOK
<1>1. row[u] \in Row
  OBVIOUS
<1>2. row' # row
  OBVIOUS
<1>3. ASSUME NEW x \in Users, Register(x) PROVE FALSE
  BY <1>3 DEF Register
<1>4. ASSUME NEW t \in tokens, NEW x \in Users, CreateUser(t, x) PROVE FALSE
  BY <1>4 DEF CreateUser
<1>5. PICK w \in Workers : Commit(w)
  BY <1>2, <1>3, <1>4, ZenonT(60)
     DEF Next, vars, Tick, RedisFailsOrReturns, Login, Evict, Renew, BeginLogout, UpdateUser,
         DeleteUser, LoadsUser, AssignOneRole, BulkAssignRoles, Logout, AssignRole,
         AssignRefused, LogoutFails
<1>6. /\ job[w] \in Job /\ job[w].op = "patch" /\ job[w].seen \in Row
      /\ row' = [row EXCEPT ![job[w].user] = Written(job[w])]
      /\ job'[w] # job[w]
  <2>1. /\ job[w].op = "patch" /\ job'[w].op \in {"none", "assign"}
        /\ row' = [row EXCEPT ![job[w].user] = Written(job[w])]
    BY <1>5 DEF Commit, Idle
  <2>2. job[w] \in Job /\ job[w].seen # Nil
    BY <2>1 DEF JobsFormed
  <2>3. job[w].seen \in Row
    BY <2>2 DEF Job
  <2> QED
    BY <2>1, <2>2, <2>3
<1>7. job[w].user = u
  BY <1>6
<1>8. Written(job[w]).active # row[u].active
  BY <1>6, <1>7
<1>9. job[w].set.active \in BOOLEAN /\ job[w].set.active # job[w].seen.active
      /\ job[w].set.active = Written(job[w]).active
  BY <1>6, <1>7, <1>8 DEF Written, Job, Change
<1>10. ~job[w].seen.active
  BY <1>1, <1>6, <1>7, <1>9 DEF Row
<1> QED
  BY <1>6, <1>7, <1>10

\* An inactive user becomes active only by a request that had seen so.
THEOREM ReactivationsAreInformed == Spec => ReactivationIsInformed
<1>1. IInv /\ [Next]_vars => [Informed]_vars
  BY InformedStep
<1>2. [Informed]_vars <=> [\A u \in Users :
         row[u] # Nil /\ ~row[u].active /\ row'[u].active =>
             \E w \in Workers : /\ job[w].user = u /\ ~job[w].seen.active
                                /\ job[w] # job'[w]]_vars
  BY DEF Informed
<1> QED
  BY <1>1, <1>2, AccessInvariant, PTL DEF Spec, ReactivationIsInformed

-----------------------------------------------------------------------------
(* Catalog *)


LEMMA CatInit == Cat!Init => Cat!IInv
<1> SUFFICES ASSUME Cat!Init PROVE Cat!IInv
  OBVIOUS
<1> USE CatalogAssumption DEF Cat!Init
<1>1. Cat!Idle \in Cat!Job
  BY DEF Cat!Idle, Cat!Job
<1>2. Cat!TypeOK
  <2>1. tenant \in [Tenants -> BOOLEAN \union {Unused, Nil}]
    OBVIOUS
  <2>2. product \in [Products -> BOOLEAN \union {Nil}]
    OBVIOUS
  <2>3. home \in [Customers -> Cat!Homes]
    BY DEF Cat!Homes
  <2>4. /\ service \in [Services -> Cat!Service \union {Unused, Nil}]
        /\ pricing \in [Cat!Rows -> Cat!Price \union {Nil}]
        /\ priced \in 0..MaxRows /\ attached \subseteq Services
        /\ request \in [Workers -> Cat!Job]
    BY <1>1
  <2> QED
    BY <2>1, <2>2, <2>3, <2>4 DEF Cat!TypeOK
<1>3. Cat!Sold = {}
  BY DEF Cat!Sold
<1>4. Cat!ServicesOwned /\ Cat!RowsFresh
  BY <1>3 DEF Cat!ServicesOwned, Cat!RowsFresh
<1>5. Cat!Formed(Cat!Idle) /\ Cat!Sparing(Cat!Idle) /\ Cat!FoundRow(Cat!Idle)
  BY <1>3 DEF Cat!Idle, Cat!Formed, Cat!Sparing, Cat!FoundRow
<1> QED
  BY <1>2, <1>4, <1>5 DEF Cat!IInv

\* A request that loads what it is about.
LEMMA CatLoads ==
    ASSUME Cat!IInv, NEW r \in Workers, NEW j \in Cat!Job, Cat!Loads(r, j),
           Cat!Formed(j), Cat!Sparing(j), Cat!FoundRow(j)
    PROVE  Cat!IInv'
<1> USE DEF Cat!IInv
<1>1. /\ request' = [request EXCEPT ![r] = j]
      /\ UNCHANGED <<tenant, product, home, service, attached, pricing, priced>>
  BY DEF Cat!Loads, Cat!store
<1>2. Cat!TypeOK'
  BY <1>1 DEF Cat!TypeOK
<1>3. Cat!ServicesOwned' /\ Cat!RowsFresh'
  BY <1>1 DEF Cat!ServicesOwned, Cat!RowsFresh, Cat!Sold
<1>4. request'[r] = j /\ \A q \in Workers \ {r} : request'[q] = request[q]
  BY <1>1 DEF Cat!TypeOK
<1>5. ASSUME NEW q \in Workers
      PROVE  Cat!Formed(request[q])' /\ Cat!Sparing(request[q])' /\ Cat!FoundRow(request[q])'
  <2>1. CASE q = r
    <3>1. request'[q] = j
      BY <1>4, <2>1
    <3>2. Cat!Formed(request[q])'
      BY <3>1 DEF Cat!Formed
    <3>3. Cat!Sparing(request[q])'
      BY <1>1, <3>1 DEF Cat!Sparing, Cat!Sold
    <3>4. Cat!FoundRow(request[q])'
      BY <1>1, <3>1 DEF Cat!FoundRow
    <3> QED
      BY <3>2, <3>3, <3>4
  <2>2. CASE q # r
    <3>1. request'[q] = request[q]
      BY <1>4, <2>2
    <3>2. Cat!Formed(request[q])'
      BY <3>1 DEF Cat!Formed
    <3>3. Cat!Sparing(request[q])'
      BY <1>1, <3>1 DEF Cat!Sparing, Cat!Sold
    <3>4. Cat!FoundRow(request[q])'
      BY <1>1, <3>1 DEF Cat!FoundRow
    <3> QED
      BY <3>2, <3>3, <3>4
  <2> QED
    BY <2>1, <2>2
<1> QED
  BY <1>2, <1>3, <1>5

\* A request that ends, and takes nothing from what the others have loaded but
\* services, which are gone for good.
LEMMA CatEnds ==
    ASSUME Cat!IInv, NEW r \in Workers, Cat!Ends(r), Cat!TypeOK', Cat!ServicesOwned',
           Cat!RowsFresh',
           \A s \in Services : service[s] # Unused => service'[s] # Unused,
           \A s \in Services : s \in Cat!Sold' =>
                /\ s \in Cat!Sold /\ service'[s] = service[s]
                /\ home'[service[s].owner] = home[service[s].owner],
           priced' >= priced,
           \A i \in Cat!Rows : i <= priced /\ pricing'[i] # Nil =>
                /\ pricing[i] # Nil
                /\ pricing'[i].tenant = pricing[i].tenant
                /\ pricing'[i].product = pricing[i].product
    PROVE  Cat!IInv'
<1> USE DEF Cat!IInv
<1>1. request'[r] = Cat!Idle /\ \A q \in Workers \ {r} : request'[q] = request[q]
  BY DEF Cat!Ends, Cat!TypeOK
<1>2. Cat!Sold' \subseteq Cat!Sold
  BY DEF Cat!Sold
<1>3. ASSUME NEW q \in Workers
      PROVE  Cat!Formed(request[q])' /\ Cat!Sparing(request[q])' /\ Cat!FoundRow(request[q])'
  <2>1. CASE q = r
    <3>1. request'[q] = Cat!Idle
      BY <1>1, <2>1
    <3>0. request'[q].op = "none" /\ request'[q].seen = {}
      BY <3>1 DEF Cat!Idle
    <3>2. Cat!Formed(request[q])'
      BY <3>0 DEF Cat!Formed
    <3>3. Cat!Sparing(request[q])'
      BY <3>0 DEF Cat!Sparing
    <3>4. Cat!FoundRow(request[q])'
      BY <3>0 DEF Cat!FoundRow
    <3> QED
      BY <3>2, <3>3, <3>4
  <2>2. CASE q # r
    <3>1. request'[q] = request[q] /\ request[q] \in Cat!Job
      BY <1>1, <2>2 DEF Cat!TypeOK
    <3>0. Cat!Formed(request[q])
      OBVIOUS
    <3>2. Cat!Formed(request[q])'
      BY <3>0, <3>1 DEF Cat!Formed
    <3>3. Cat!Sparing(request[q])'
      <4>1. Cat!Sparing(request[q])
        OBVIOUS
      <4>2. \A s \in Cat!Sold' :
              /\ s \in Cat!Sold /\ service'[s] = service[s]
              /\ home'[service[s].owner] = home[service[s].owner]
        BY DEF Cat!Sold
      <4>3. request[q].op \in {"hard tenant", "hard product"} => request[q].held \subseteq request[q].seen
        BY <4>1 DEF Cat!Sparing
      <4>4. ASSUME NEW s \in Cat!Sold', s \in request[q].seen
            PROVE  /\ request[q].op = "hard product" => service'[s].product # request[q].product
                   /\ request[q].op = "hard tenant" =>
                        /\ service'[s].tenant \in request[q].tenants =>
                             home'[service'[s].owner] \in request[q].tenants
                        /\ s \in request[q].held =>
                             home'[service'[s].owner] \notin request[q].tenants
        <5>1. /\ s \in Cat!Sold /\ service'[s] = service[s]
              /\ home'[service'[s].owner] = home[service[s].owner]
          BY <4>2, <4>4
        <5>2. /\ request[q].op = "hard product" => service[s].product # request[q].product
              /\ request[q].op = "hard tenant" =>
                   /\ service[s].tenant \in request[q].tenants =>
                        home[service[s].owner] \in request[q].tenants
                   /\ s \in request[q].held =>
                        home[service[s].owner] \notin request[q].tenants
          BY <4>1, <4>4, <5>1 DEF Cat!Sparing
        <5> QED
          BY <5>1, <5>2
      <4>5. \A s \in request[q].seen : service'[s] # Unused
        BY <3>1, <4>1 DEF Cat!Sparing, Cat!Job
      <4> QED
        BY <3>1, <4>3, <4>4, <4>5 DEF Cat!Sparing
    <3>4. Cat!FoundRow(request[q])'
      <4>1. Cat!FoundRow(request[q]) /\ priced' \in Nat /\ priced \in Nat
        BY CatalogAssumption DEF Cat!TypeOK
      <4>2. request[q].row # Nil => request[q].row \in Cat!Rows
        BY <3>1 DEF Cat!Job
      <4>3. \A i \in Cat!Rows : i \in Nat
        BY CatalogAssumption DEF Cat!Rows
      <4> QED
        BY <3>1, <4>1, <4>2, <4>3 DEF Cat!FoundRow
    <3> QED
      BY <3>2, <3>3, <3>4
  <2> QED
    BY <2>1, <2>2
<1> QED
  BY <1>3

LEMMA IdleJob ==
    /\ Cat!Idle \in Cat!Job /\ Cat!Idle.row = Nil
    /\ Cat!Idle.seen = {} /\ Cat!Idle.held = {}
  BY CatalogAssumption DEF Cat!Idle, Cat!Job

\* What the requests load, field by field.
LEMMA LoadedTenants ==
    ASSUME NEW op \in {"create", "update"}, NEW xs \in SUBSET Tenants,
           NEW a \in BOOLEAN \union {Nil}, NEW j,
           j = [Cat!Idle EXCEPT !.op = op, !.tenants = xs, !.active = a]
    PROVE  j \in Cat!Job /\ j.op = op /\ j.seen = {}
  BY IdleJob DEF Cat!Job

LEMMA LoadedRetire ==
    ASSUME NEW p \in Products, NEW j,
           j = [Cat!Idle EXCEPT !.op = "retire", !.product = p]
    PROVE  j \in Cat!Job /\ j.op = "retire" /\ j.product = p /\ j.seen = {}
  BY IdleJob DEF Cat!Job

LEMMA CatStep == Cat!IInv /\ [Cat!Next]_catalogVars => Cat!IInv'
<1> SUFFICES ASSUME Cat!IInv, [Cat!Next]_catalogVars PROVE Cat!IInv'
  OBVIOUS
<1> USE CatalogAssumption
<1>0. /\ Cat!TypeOK /\ Cat!ServicesOwned /\ Cat!RowsFresh
      /\ \A r \in Workers :
            /\ request[r] \in Cat!Job
            /\ Cat!Formed(request[r]) /\ Cat!Sparing(request[r]) /\ Cat!FoundRow(request[r])
  BY DEF Cat!IInv, Cat!TypeOK
\* Requests that load tenants or a product, and find neither services nor prices.
<1>1. ASSUME NEW r \in Workers, NEW j \in Cat!Job, Cat!Loads(r, j), j.seen = {},
             j.op \in {"create", "update"} \/ (j.op = "retire" /\ j.product # Nil)
      PROVE  Cat!IInv'
  <2>1. Cat!Formed(j) /\ Cat!Sparing(j) /\ Cat!FoundRow(j)
    BY <1>1 DEF Cat!Formed, Cat!Sparing, Cat!FoundRow
  <2> QED
    BY <1>1, <2>1, CatLoads
<1>2. ASSUME NEW r \in Workers, Cat!CreateTenant(r) PROVE Cat!IInv'
  <2>1. PICK x \in Tenants, a \in BOOLEAN :
          Cat!Loads(r, [Cat!Idle EXCEPT !.op = "create", !.tenants = {x}, !.active = a])
    BY <1>2 DEF Cat!CreateTenant
  <2>2. PICK j : j = [Cat!Idle EXCEPT !.op = "create", !.tenants = {x}, !.active = a]
    OBVIOUS
  <2>3. Cat!Loads(r, j)
    BY <2>1, <2>2
  <2>4. {x} \in SUBSET Tenants /\ a \in BOOLEAN \union {Nil}
    OBVIOUS
  <2>5. j \in Cat!Job /\ j.op = "create" /\ j.seen = {}
    BY <2>2, <2>4, LoadedTenants
  <2> QED
    BY <1>1, <2>3, <2>5
<1>3. ASSUME NEW r \in Workers, NEW xs \in SUBSET Tenants, NEW a \in BOOLEAN \union {Nil},
             Cat!Loads(r, [Cat!Idle EXCEPT !.op = "update", !.tenants = xs, !.active = a])
      PROVE  Cat!IInv'
  <2>1. PICK j : j = [Cat!Idle EXCEPT !.op = "update", !.tenants = xs, !.active = a]
    OBVIOUS
  <2>2. Cat!Loads(r, j)
    BY <1>3, <2>1
  <2>3. j \in Cat!Job /\ j.op = "update" /\ j.seen = {}
    BY <2>1, LoadedTenants
  <2> QED
    BY <1>1, <2>2, <2>3
<1>4. ASSUME NEW r \in Workers,
             \/ Cat!UpdateTenant(r) \/ Cat!DeleteTenant(r)
             \/ Cat!BulkActivateTenants(r) \/ Cat!BulkDeactivateTenants(r)
      PROVE  Cat!IInv'
  <2>1. \A x \in Tenants, a \in BOOLEAN : Cat!Change(x, a) \in BOOLEAN \union {Nil}
    BY DEF Cat!Change
  <2>2. CASE Cat!UpdateTenant(r)
    BY <1>3, <2>1, <2>2 DEF Cat!UpdateTenant
  <2>3. CASE Cat!DeleteTenant(r)
    BY <1>3, <2>1, <2>3 DEF Cat!DeleteTenant
  <2>4. CASE Cat!BulkActivateTenants(r)
    BY <1>3, <2>4 DEF Cat!BulkActivateTenants, Cat!Bulk
  <2>5. CASE Cat!BulkDeactivateTenants(r)
    BY <1>3, <2>5 DEF Cat!BulkDeactivateTenants, Cat!Bulk
  <2> QED
    BY <1>4, <2>2, <2>3, <2>4, <2>5
<1>5. ASSUME NEW r \in Workers, Cat!DeleteProduct(r) PROVE Cat!IInv'
  <2>1. PICK p \in Products : Cat!Loads(r, [Cat!Idle EXCEPT !.op = "retire", !.product = p])
    BY <1>5 DEF Cat!DeleteProduct
  <2>2. p # Nil
    OBVIOUS
  <2>3. PICK j : j = [Cat!Idle EXCEPT !.op = "retire", !.product = p]
    OBVIOUS
  <2>4. Cat!Loads(r, j)
    BY <2>1, <2>3
  <2>5. j \in Cat!Job /\ j.op = "retire" /\ j.product = p /\ j.seen = {}
    BY <2>3, LoadedRetire
  <2> QED
    BY <1>1, <2>2, <2>4, <2>5
\* Requests about the price of a product for a tenant.
<1>6. \A x \in Tenants, p \in Products :
        /\ Cat!Found(x, p) \in Cat!Rows \union {Nil}
        /\ Cat!Found(x, p) # Nil => Cat!Found(x, p) \in Cat!PricesOf(x, p)
        /\ Cat!PricesOf(x, p) # {} => Cat!Found(x, p) # Nil
  BY DEF Cat!Found, Cat!PricesOf, Cat!Rows
<1>7. ASSUME NEW r \in Workers, NEW j \in Cat!Job, NEW x \in Tenants, NEW p \in Products,
             NEW i, i = Cat!Found(x, p), Cat!Loads(r, j),
             j.tenants = {x}, j.product = p, j.row = i, j.seen = {},
             \/ j.op = "set" /\ (i = Nil => j.price # Nil)
             \/ j.op = "unset" /\ Cat!PricesOf(x, p) # {}
      PROVE  Cat!IInv'
  <2>4. Cat!Formed(j) /\ Cat!Sparing(j)
    <3>1. j.op = "unset" => j.row # Nil
      BY <1>6, <1>7
    <3>2. Cat!Formed(j)
      BY <1>7, <3>1 DEF Cat!Formed
    <3>3. Cat!Sparing(j)
      BY <1>7 DEF Cat!Sparing
    <3> QED
      BY <3>2, <3>3
  <2>5. Cat!FoundRow(j)
    <3>1. ASSUME i # Nil
          PROVE  /\ i \in Cat!Rows /\ pricing[i] # Nil
                 /\ pricing[i].tenant = x /\ pricing[i].product = p
      BY <1>6, <1>7, <3>1 DEF Cat!PricesOf
    <3>2. ASSUME i # Nil PROVE i <= priced
      BY <1>0, <3>1, <3>2 DEF Cat!RowsFresh, Cat!Rows, Cat!TypeOK
    <3> QED
      BY <1>7, <3>1, <3>2 DEF Cat!FoundRow
  <2> QED
    BY <1>7, <2>4, <2>5, CatLoads
<1>8. ASSUME NEW r \in Workers, Cat!SetTenantPricing(r) PROVE Cat!IInv'
  <2>1. PICK x \in Tenants, p \in Products, c \in Prices :
          Cat!Loads(r, [Cat!Idle EXCEPT !.op = "set", !.tenants = {x}, !.product = p,
                                        !.row = Cat!Found(x, p),
                                        !.price = Cat!NewPrice(Cat!Found(x, p), c)])
    BY <1>8 DEF Cat!SetTenantPricing
  <2>3. PICK i : i = Cat!Found(x, p)
    OBVIOUS
  <2>9. PICK d \in Prices \union {Nil} : d = Cat!NewPrice(i, c)
    BY DEF Cat!NewPrice
  <2>2. i = Nil => d # Nil
    BY <2>9 DEF Cat!NewPrice
  <2>8. PICK xs : xs = {x}
    OBVIOUS
  <2>4. PICK j : j = [Cat!Idle EXCEPT !.op = "set", !.tenants = xs, !.product = p,
                                       !.row = i, !.price = d]
    OBVIOUS
  <2>5. Cat!Loads(r, j)
    BY <2>1, <2>3, <2>4, <2>8, <2>9
  <2>6. i \in Cat!Rows \union {Nil} /\ xs \in SUBSET Tenants
    BY <1>6, <2>3, <2>8
  <2>7. /\ j \in Cat!Job /\ j.op = "set" /\ j.tenants = xs /\ j.product = p
        /\ j.price = d /\ j.row = i /\ j.seen = {}
    BY <2>4, <2>6, IdleJob DEF Cat!Job
  <2> QED
    BY <1>7, <2>2, <2>3, <2>5, <2>7, <2>8
<1>9. ASSUME NEW r \in Workers, Cat!DeleteTenantPricing(r) PROVE Cat!IInv'
  <2>1. PICK x \in Tenants, p \in Products :
          /\ Cat!PricesOf(x, p) # {}
          /\ Cat!Loads(r, [Cat!Idle EXCEPT !.op = "unset", !.tenants = {x}, !.product = p,
                                           !.row = Cat!Found(x, p)])
    BY <1>9 DEF Cat!DeleteTenantPricing
  <2>3. PICK i : i = Cat!Found(x, p)
    OBVIOUS
  <2>8. PICK xs : xs = {x}
    OBVIOUS
  <2>4. PICK j :
        j = [Cat!Idle EXCEPT !.op = "unset", !.tenants = xs, !.product = p, !.row = i]
    OBVIOUS
  <2>5. Cat!Loads(r, j)
    BY <2>1, <2>3, <2>4, <2>8
  <2>6. i \in Cat!Rows \union {Nil} /\ xs \in SUBSET Tenants
    BY <1>6, <2>3, <2>8
  <2>7. /\ j \in Cat!Job /\ j.op = "unset" /\ j.tenants = xs /\ j.product = p
        /\ j.row = i /\ j.seen = {}
    BY <2>4, <2>6, IdleJob, ZenonT(60) DEF Cat!Job
  <2> QED
    BY <1>7, <2>1, <2>3, <2>5, <2>7, <2>8
\* Hard deletions: what they see.
<1>10. ASSUME NEW r \in Workers, Cat!HardDeleteTenant(r) PROVE Cat!IInv'
  <2>1. PICK x \in Tenants :
          /\ Cat!Stay(x) = {} /\ Cat!Follow(x) \cap attached = {}
          /\ Cat!Loads(r, [Cat!Idle EXCEPT !.op = "hard tenant", !.tenants = {x},
                                           !.seen = Cat!Sold, !.held = attached])
    BY <1>10 DEF Cat!HardDeleteTenant
  <2>3. /\ attached \subseteq Cat!Sold /\ Cat!Sold \subseteq Services
        /\ \A s \in Cat!Sold : service[s] # Unused
    BY <1>0 DEF Cat!ServicesOwned, Cat!Sold
  <2>8. PICK xs \in SUBSET Tenants : xs = {x}
    OBVIOUS
  <2>5. PICK seen \in SUBSET Services, held \in SUBSET Services :
          seen = Cat!Sold /\ held = attached
    BY <2>3
  <2>2. PICK j : j = [Cat!Idle EXCEPT !.op = "hard tenant", !.tenants = xs,
                                       !.seen = seen, !.held = held]
    OBVIOUS
  <2>4. /\ j \in Cat!Job /\ Cat!Loads(r, j)
        /\ j.op = "hard tenant" /\ j.tenants = {x} /\ j.row = Nil
        /\ j.seen = Cat!Sold /\ j.held = attached
    <3>1. Cat!Loads(r, j)
      BY <2>1, <2>2, <2>5, <2>8
    <3>2. /\ j \in Cat!Job /\ j.op = "hard tenant" /\ j.tenants = xs /\ j.row = Nil
          /\ j.seen = seen /\ j.held = held
      BY <2>2, IdleJob DEF Cat!Job
    <3> QED
      BY <2>5, <3>1, <3>2, <2>8
  <2>6. Cat!Formed(j) /\ Cat!FoundRow(j)
    BY <2>4 DEF Cat!Formed, Cat!FoundRow
  <2>7. Cat!Sparing(j)
    <3>1. \A s \in Cat!Sold :
            /\ service[s].tenant = x => home[service[s].owner] = x
            /\ s \in attached => home[service[s].owner] # x
      BY <2>1 DEF Cat!Stay, Cat!Follow
    <3> QED
      BY <2>3, <2>4, <3>1 DEF Cat!Sparing
  <2> QED
    BY <2>4, <2>6, <2>7, CatLoads
<1>11. ASSUME NEW r \in Workers, Cat!HardDeleteProduct(r) PROVE Cat!IInv'
  <2>1. PICK p \in Products :
          /\ \A s \in Cat!Sold : service[s].product # p
          /\ Cat!Loads(r, [Cat!Idle EXCEPT !.op = "hard product", !.product = p,
                                           !.seen = Cat!Sold, !.held = attached])
    BY <1>11 DEF Cat!HardDeleteProduct
  <2>3. /\ attached \subseteq Cat!Sold /\ Cat!Sold \subseteq Services
        /\ \A s \in Cat!Sold : service[s] # Unused
    BY <1>0 DEF Cat!ServicesOwned, Cat!Sold
  <2>5. PICK seen \in SUBSET Services, held \in SUBSET Services :
          seen = Cat!Sold /\ held = attached
    BY <2>3
  <2>2. PICK j : j = [Cat!Idle EXCEPT !.op = "hard product", !.product = p,
                                       !.seen = seen, !.held = held]
    OBVIOUS
  <2>4. /\ j \in Cat!Job /\ Cat!Loads(r, j)
        /\ j.op = "hard product" /\ j.product = p /\ j.row = Nil
        /\ j.seen = Cat!Sold /\ j.held = attached
    <3>1. Cat!Loads(r, j)
      BY <2>1, <2>2, <2>5
    <3>2. /\ j \in Cat!Job /\ j.op = "hard product" /\ j.product = p /\ j.row = Nil
          /\ j.seen = seen /\ j.held = held
      BY <2>2, IdleJob DEF Cat!Job
    <3> QED
      BY <2>5, <3>1, <3>2
  <2>6. Cat!Formed(j) /\ Cat!FoundRow(j)
    BY <2>4 DEF Cat!Formed, Cat!FoundRow
  <2>7. Cat!Sparing(j)
    BY <2>1, <2>3, <2>4 DEF Cat!Sparing
  <2> QED
    BY <2>4, <2>6, <2>7, CatLoads
\* Commits that leave the services alone.
<1>12. ASSUME NEW r \in Workers, Cat!Ends(r), UNCHANGED <<home, service, attached>>,
              tenant' \in [Tenants -> BOOLEAN \union {Unused, Nil}],
              product' \in [Products -> BOOLEAN \union {Nil}],
              pricing' \in [Cat!Rows -> Cat!Price \union {Nil}],
              priced' \in 0..MaxRows, priced' >= priced, Cat!RowsFresh',
              \A i \in Cat!Rows : i <= priced /\ pricing'[i] # Nil =>
                  /\ pricing[i] # Nil
                  /\ pricing'[i].tenant = pricing[i].tenant
                  /\ pricing'[i].product = pricing[i].product
       PROVE  Cat!IInv'
  <2>1. Cat!Idle \in Cat!Job
    BY DEF Cat!Idle, Cat!Job
  <2>2. Cat!TypeOK'
    BY <1>0, <1>12, <2>1 DEF Cat!TypeOK, Cat!Ends
  <2>3. Cat!ServicesOwned' /\ Cat!Sold' = Cat!Sold
    BY <1>0, <1>12 DEF Cat!ServicesOwned, Cat!Sold
  <2> QED
    BY <1>12, <2>2, <2>3, CatEnds
<1>13. ASSUME NEW r \in Workers, Cat!CommitCreate(r) \/ Cat!CommitTenants(r) PROVE Cat!IInv'
  <2>1. tenant' \in [Tenants -> BOOLEAN \union {Unused, Nil}]
    <3>1. request[r].active \in BOOLEAN \union {Nil}
      BY <1>0 DEF Cat!Job
    <3>2. tenant \in [Tenants -> BOOLEAN \union {Unused, Nil}]
      BY <1>0 DEF Cat!TypeOK
    <3> QED
      BY <1>13, <3>1, <3>2 DEF Cat!CommitCreate, Cat!CommitTenants
  <2>2. /\ Cat!Ends(r)
        /\ UNCHANGED <<product, home, service, attached, pricing, priced>>
    BY <1>13 DEF Cat!CommitCreate, Cat!CommitTenants
  <2> QED
    BY <1>0, <1>12, <2>1, <2>2 DEF Cat!RowsFresh, Cat!TypeOK
<1>14. ASSUME NEW r \in Workers, Cat!CommitRetire(r) PROVE Cat!IInv'
  <2>1. request[r].product \in Products
    BY <1>0, <1>14 DEF Cat!CommitRetire, Cat!Does, Cat!Formed, Cat!Job
  <2>2. product' \in [Products -> BOOLEAN \union {Nil}]
    BY <1>0, <1>14, <2>1 DEF Cat!CommitRetire, Cat!TypeOK
  <2>3. /\ Cat!Ends(r)
        /\ UNCHANGED <<tenant, home, service, attached, pricing, priced>>
    BY <1>14 DEF Cat!CommitRetire
  <2> QED
    BY <1>0, <1>12, <2>2, <2>3 DEF Cat!RowsFresh, Cat!TypeOK
<1>15. ASSUME NEW r \in Workers, Cat!InsertPrice(r) PROVE Cat!IInv'
  <2>1. PICK x \in Tenants : request[r].tenants = {x}
    BY <1>0, <1>15 DEF Cat!InsertPrice, Cat!Does, Cat!Formed
  <2>9. /\ request[r].op = "set" /\ request[r] \in Cat!Job /\ Cat!Formed(request[r])
        /\ request[r].row = Nil /\ priced < MaxRows /\ priced \in 0..MaxRows
    BY <1>0, <1>15 DEF Cat!InsertPrice, Cat!Does, Cat!TypeOK
  <2>10. request[r].product \in Products /\ request[r].price \in Prices
    BY <2>9 DEF Cat!Formed, Cat!Job
  <2>2. /\ request[r].product \in Products /\ request[r].price \in Prices
        /\ priced \in Nat /\ priced < MaxRows /\ priced + 1 \in Cat!Rows
    BY <2>9, <2>10 DEF Cat!Rows
  <2>3. /\ pricing' = [pricing EXCEPT ![priced + 1] =
                          [tenant |-> x, product |-> request[r].product,
                           price |-> request[r].price]]
        /\ priced' = priced + 1
        /\ Cat!Ends(r)
        /\ UNCHANGED <<tenant, product, home, service, attached>>
    BY <1>15, <2>1 DEF Cat!InsertPrice
  <2>4. pricing' \in [Cat!Rows -> Cat!Price \union {Nil}]
    BY <1>0, <2>2, <2>3 DEF Cat!TypeOK, Cat!Price
  <2>5. \A i \in Cat!Rows : i \in Nat /\ (i # priced + 1 => pricing'[i] = pricing[i])
    BY <1>0, <2>3 DEF Cat!TypeOK, Cat!Rows
  <2>6. Cat!RowsFresh'
    BY <1>0, <2>2, <2>3, <2>5 DEF Cat!RowsFresh
  <2>7. priced' \in 0..MaxRows /\ priced' >= priced
    BY <2>2, <2>3
  <2>8. \A i \in Cat!Rows : i <= priced => pricing'[i] = pricing[i]
    BY <2>2, <2>5
  <2> QED
    BY <1>0, <1>12, <2>3, <2>4, <2>6, <2>7, <2>8 DEF Cat!TypeOK
<1>16. ASSUME NEW r \in Workers, Cat!ChangePrice(r) \/ Cat!CommitUnset(r) PROVE Cat!IInv'
  <2>1. request[r].row \in Cat!Rows
    BY <1>0, <1>16 DEF Cat!ChangePrice, Cat!CommitUnset, Cat!Does, Cat!Formed, Cat!Job
  <2>2. /\ Cat!Ends(r)
        /\ UNCHANGED <<tenant, product, home, service, attached, priced>>
    BY <1>16 DEF Cat!ChangePrice, Cat!CommitUnset
  <2>3. CASE Cat!CommitUnset(r)
    <3>1. pricing' = [pricing EXCEPT ![request[r].row] = Nil]
      BY <2>3 DEF Cat!CommitUnset
    <3>2. \A i \in Cat!Rows : pricing'[i] # Nil => pricing'[i] = pricing[i]
      BY <1>0, <3>1 DEF Cat!TypeOK
    <3>3. pricing' \in [Cat!Rows -> Cat!Price \union {Nil}] /\ Cat!RowsFresh'
      BY <1>0, <2>2, <3>1, <3>2 DEF Cat!TypeOK, Cat!RowsFresh
    <3> QED
      BY <1>0, <1>12, <2>2, <3>2, <3>3 DEF Cat!TypeOK
  <2>5. CASE Cat!ChangePrice(r) /\ request[r].price = Nil
    <3>1. pricing' = pricing
      BY <2>5 DEF Cat!ChangePrice
    <3>2. Cat!RowsFresh' /\ pricing' \in [Cat!Rows -> Cat!Price \union {Nil}]
      BY <1>0, <2>2, <3>1 DEF Cat!TypeOK, Cat!RowsFresh
    <3> QED
      BY <1>0, <1>12, <2>2, <3>1, <3>2 DEF Cat!TypeOK
  <2>4. CASE Cat!ChangePrice(r) /\ request[r].price # Nil
    <3>1. /\ pricing[request[r].row] # Nil /\ request[r].price \in Prices
          /\ pricing' = [pricing EXCEPT ![request[r].row].price = request[r].price]
      BY <1>0, <2>4 DEF Cat!ChangePrice, Cat!Does, Cat!Formed, Cat!Job
    <3>2. pricing[request[r].row] \in Cat!Price
      BY <1>0, <2>1, <3>1 DEF Cat!TypeOK
    <3>3. /\ pricing'[request[r].row] \in Cat!Price
          /\ pricing'[request[r].row].tenant = pricing[request[r].row].tenant
          /\ pricing'[request[r].row].product = pricing[request[r].row].product
          /\ \A i \in Cat!Rows \ {request[r].row} : pricing'[i] = pricing[i]
      BY <1>0, <2>1, <3>1, <3>2 DEF Cat!TypeOK, Cat!Price
    <3>4. pricing' \in [Cat!Rows -> Cat!Price \union {Nil}]
      BY <1>0, <2>1, <3>1, <3>3 DEF Cat!TypeOK
    <3>5. Cat!RowsFresh'
      BY <1>0, <2>1, <2>2, <3>1, <3>3 DEF Cat!RowsFresh
    <3>6. \A i \in Cat!Rows : pricing'[i] # Nil =>
            /\ pricing[i] # Nil
            /\ pricing'[i].tenant = pricing[i].tenant
            /\ pricing'[i].product = pricing[i].product
      BY <2>1, <3>1, <3>3
    <3> QED
      BY <1>0, <1>12, <2>2, <3>4, <3>5, <3>6 DEF Cat!TypeOK
  <2> QED
    BY <1>16, <2>3, <2>4, <2>5
<1>17. ASSUME NEW r \in Workers, Cat!RollBack(r) PROVE Cat!IInv'
  <2>1. /\ Cat!Ends(r)
        /\ UNCHANGED <<tenant, product, home, service, attached, pricing, priced>>
    BY <1>17 DEF Cat!RollBack, Cat!store
  <2> QED
    BY <1>0, <1>12, <2>1 DEF Cat!TypeOK, Cat!RowsFresh
\* Commits of hard deletions, which take services and prices.
<1>18. ASSUME NEW r \in Workers, NEW gone \in SUBSET Cat!Sold, Cat!Ends(r),
              Cat!RemoveServices(gone), priced' = priced,
              tenant' \in [Tenants -> BOOLEAN \union {Unused, Nil}],
              product' \in [Products -> BOOLEAN \union {Nil}],
              home' \in [Customers -> Cat!Homes],
              \A s \in Cat!Sold \ gone :
                  /\ home'[service[s].owner] = home[service[s].owner],
              pricing' \in [Cat!Rows -> Cat!Price \union {Nil}],
              \A i \in Cat!Rows : pricing'[i] # Nil => pricing'[i] = pricing[i]
       PROVE  Cat!IInv'
  <2>1. Cat!Idle \in Cat!Job
    BY DEF Cat!Idle, Cat!Job
  <2>2. \A s \in Services :
          /\ s \in gone => service'[s] = Nil
          /\ s \notin gone => service'[s] = service[s]
    BY <1>18 DEF Cat!RemoveServices
  <2>3. Cat!Sold' = Cat!Sold \ gone
    BY <2>2 DEF Cat!Sold
  <2>4. attached' = attached \ gone
    BY <1>18 DEF Cat!RemoveServices
  <2>5. service' \in [Services -> Cat!Service \union {Unused, Nil}]
    BY <1>0, <1>18 DEF Cat!RemoveServices, Cat!TypeOK
  <2>6. request' \in [Workers -> Cat!Job]
    BY <1>0, <1>18, <2>1 DEF Cat!Ends, Cat!TypeOK
  <2>7. Cat!TypeOK'
    BY <1>0, <1>18, <2>4, <2>5, <2>6 DEF Cat!TypeOK
  <2>8. Cat!Sold \subseteq Services
    BY DEF Cat!Sold
  <2>9. Cat!ServicesOwned'
    BY <1>0, <1>18, <2>2, <2>3, <2>4, <2>8 DEF Cat!ServicesOwned
  <2>10. Cat!RowsFresh'
    BY <1>0, <1>18 DEF Cat!RowsFresh
  <2>11. \A s \in Services : s \in Cat!Sold' =>
           /\ s \in Cat!Sold /\ service'[s] = service[s]
           /\ home'[service[s].owner] = home[service[s].owner]
    BY <1>18, <2>2, <2>3
  <2>12. \A s \in Services : service[s] # Unused => service'[s] # Unused
    BY <2>2
  <2>13. priced' >= priced
    BY <1>0, <1>18 DEF Cat!TypeOK
  <2>14. \A i \in Cat!Rows : i <= priced /\ pricing'[i] # Nil =>
           /\ pricing[i] # Nil
           /\ pricing'[i].tenant = pricing[i].tenant
           /\ pricing'[i].product = pricing[i].product
    BY <1>18
  <2> QED
    BY <1>18, <2>7, <2>9, <2>10, <2>11, <2>12, <2>13, <2>14, CatEnds
<1>19. ASSUME NEW r \in Workers, Cat!CommitHardTenant(r) PROVE Cat!IInv'
  <2>1. PICK x \in Tenants : request[r].tenants = {x}
    BY <1>0, <1>19 DEF Cat!CommitHardTenant, Cat!Does, Cat!Formed
  <2> DEFINE gone == {s \in Cat!Sold : service[s].tenant = x \/ home[service[s].owner] = x}
  <2>2. /\ tenant' = [tenant EXCEPT ![x] = Nil]
        /\ home' = [u \in Customers |-> IF u \in Cat!Members(x) THEN "gone" ELSE home[u]]
        /\ Cat!RemoveServices(gone)
        /\ pricing' = [i \in Cat!Rows |-> IF pricing[i] # Nil /\ pricing[i].tenant = x
                                            THEN Nil ELSE pricing[i]]
        /\ Cat!Ends(r)
        /\ UNCHANGED <<product, priced>>
    <3>1. x \in request[r].tenants
      BY <2>1
    <3> QED
      BY <1>19, <3>1 DEF Cat!CommitHardTenant
  <2>3. \A s \in Cat!Sold \ gone : home'[service[s].owner] = home[service[s].owner]
    BY <1>0, <2>2 DEF Cat!Members, Cat!Sold, Cat!TypeOK, Cat!Service
  <2>4. /\ tenant' \in [Tenants -> BOOLEAN \union {Unused, Nil}]
        /\ product' \in [Products -> BOOLEAN \union {Nil}]
    BY <1>0, <2>2 DEF Cat!TypeOK
  <2>5. home' \in [Customers -> Cat!Homes]
    BY <1>0, <2>2 DEF Cat!TypeOK, Cat!Homes
  <2>6. /\ pricing' \in [Cat!Rows -> Cat!Price \union {Nil}]
        /\ \A i \in Cat!Rows : pricing'[i] # Nil => pricing'[i] = pricing[i]
    BY <1>0, <2>2 DEF Cat!TypeOK
  <2>7. gone \subseteq Cat!Sold
    OBVIOUS
  <2> HIDE DEF gone
  <2> QED
    BY <1>18, <2>2, <2>3, <2>4, <2>5, <2>6, <2>7
<1>20. ASSUME NEW r \in Workers, Cat!CommitHardProduct(r) PROVE Cat!IInv'
  <2> DEFINE gone == {s \in Cat!Sold : service[s].product = request[r].product}
  <2>1. request[r].product \in Products
    BY <1>0, <1>20 DEF Cat!CommitHardProduct, Cat!Does, Cat!Formed, Cat!Job
  <2>2. /\ product' = [product EXCEPT ![request[r].product] = Nil]
        /\ Cat!RemoveServices(gone)
        /\ pricing' = [i \in Cat!Rows |->
                         IF pricing[i] # Nil /\ pricing[i].product = request[r].product
                         THEN Nil ELSE pricing[i]]
        /\ Cat!Ends(r)
        /\ UNCHANGED <<tenant, home, priced>>
    BY <1>20 DEF Cat!CommitHardProduct
  <2>3. product' \in [Products -> BOOLEAN \union {Nil}]
    BY <1>0, <2>1, <2>2 DEF Cat!TypeOK
  <2>4. /\ pricing' \in [Cat!Rows -> Cat!Price \union {Nil}]
        /\ \A i \in Cat!Rows : pricing'[i] # Nil => pricing'[i] = pricing[i]
    BY <1>0, <2>2 DEF Cat!TypeOK
  <2>5. gone \subseteq Cat!Sold
    OBVIOUS
  <2>6. /\ tenant' \in [Tenants -> BOOLEAN \union {Unused, Nil}]
        /\ home' \in [Customers -> Cat!Homes] /\ home' = home
    BY <1>0, <2>2 DEF Cat!TypeOK
  <2> HIDE DEF gone
  <2> QED
    BY <1>18, <2>2, <2>3, <2>4, <2>5, <2>6
\* The rest of the system: it sells no service that a request has seen.
<1>21. ASSUME NEW s \in Services, Cat!Sell(s) PROVE Cat!IInv'
  <2>1. PICK u \in Customers, x \in Tenants, p \in Products :
          /\ service[s] = Unused /\ home[u] # "gone"
          /\ service' = [service EXCEPT ![s] = [owner |-> u, tenant |-> x, product |-> p]]
    BY <1>21 DEF Cat!Sell
  <2>2. UNCHANGED <<tenant, product, home, attached, pricing, priced, request>>
    BY <1>21 DEF Cat!Sell
  <2>3. [owner |-> u, tenant |-> x, product |-> p] \in Cat!Service
    BY DEF Cat!Service
  <2>4. service'[s] = [owner |-> u, tenant |-> x, product |-> p]
        /\ \A y \in Services \ {s} : service'[y] = service[y]
    BY <1>0, <2>1 DEF Cat!TypeOK
  <2>5. Cat!TypeOK'
    BY <1>0, <2>1, <2>2, <2>3 DEF Cat!TypeOK
  <2>6. Cat!Sold' = Cat!Sold \union {s} /\ Cat!Sold \subseteq Services \ {s}
    BY <2>1, <2>3, <2>4 DEF Cat!Sold
  <2>7. Cat!ServicesOwned' /\ Cat!RowsFresh'
    BY <1>0, <2>1, <2>2, <2>4, <2>6 DEF Cat!ServicesOwned, Cat!RowsFresh
  <2>8. ASSUME NEW r \in Workers
        PROVE  Cat!Formed(request[r])' /\ Cat!Sparing(request[r])' /\ Cat!FoundRow(request[r])'
    <3>1. Cat!Formed(request[r])' /\ Cat!FoundRow(request[r])'
      BY <1>0, <2>2 DEF Cat!Formed, Cat!FoundRow
    <3>2. s \notin request[r].seen /\ request[r].seen \subseteq Services
      BY <1>0, <2>1 DEF Cat!Sparing, Cat!Job
    <3>3. Cat!Sparing(request[r]) /\ UNCHANGED <<home, request>>
      BY <1>0, <2>2
    <3>4. \A y \in request[r].seen : service'[y] = service[y]
      BY <2>4, <3>2
    <3>5. \A y \in Cat!Sold' \cap request[r].seen : y \in Cat!Sold
      BY <2>6, <3>2
    <3>6. Cat!Sparing(request[r])'
      BY <3>3, <3>4, <3>5 DEF Cat!Sparing
    <3> QED
      BY <3>1, <3>6
  <2> QED
    BY <2>5, <2>7, <2>8 DEF Cat!IInv
<1>22. ASSUME NEW s \in Services, Cat!Attach(s) \/ Cat!Detach(s)
       PROVE  Cat!IInv'
  <2>1. /\ UNCHANGED <<tenant, product, home, service, pricing, priced, request>>
        /\ attached' \subseteq attached \union Cat!Sold
    BY <1>22 DEF Cat!Attach, Cat!Detach, catalogVars
  <2>2. Cat!Sold' = Cat!Sold /\ Cat!Sold \subseteq Services
    BY <2>1 DEF Cat!Sold
  <2>3. Cat!TypeOK'
    BY <1>0, <2>1, <2>2 DEF Cat!TypeOK
  <2>4. Cat!ServicesOwned' /\ Cat!RowsFresh'
    BY <1>0, <2>1, <2>2 DEF Cat!ServicesOwned, Cat!RowsFresh
  <2>5. ASSUME NEW r \in Workers
        PROVE  Cat!Formed(request[r])' /\ Cat!Sparing(request[r])' /\ Cat!FoundRow(request[r])'
    BY <1>0, <2>1, <2>2 DEF Cat!Formed, Cat!Sparing, Cat!FoundRow
  <2> QED
    BY <2>3, <2>4, <2>5 DEF Cat!IInv
<1>23. CASE UNCHANGED catalogVars
  <2>1. UNCHANGED <<tenant, product, home, service, attached, pricing, priced, request>>
    BY <1>23 DEF catalogVars
  <2>2. Cat!Sold' = Cat!Sold
    BY <2>1 DEF Cat!Sold
  <2>3. Cat!TypeOK' /\ Cat!ServicesOwned' /\ Cat!RowsFresh'
    BY <1>0, <2>1, <2>2 DEF Cat!TypeOK, Cat!ServicesOwned, Cat!RowsFresh
  <2>4. ASSUME NEW r \in Workers
        PROVE  Cat!Formed(request[r])' /\ Cat!Sparing(request[r])' /\ Cat!FoundRow(request[r])'
    BY <1>0, <2>1, <2>2 DEF Cat!Formed, Cat!Sparing, Cat!FoundRow
  <2> QED
    BY <2>3, <2>4 DEF Cat!IInv
<1> QED
  BY <1>2, <1>4, <1>5, <1>8, <1>9, <1>10, <1>11, <1>13, <1>14, <1>15, <1>16, <1>17,
     <1>19, <1>20, <1>21, <1>22, <1>23 DEF Cat!Next

\* Requests that only load.
Loading(r) ==
    \/ Cat!CreateTenant(r) \/ Cat!UpdateTenant(r) \/ Cat!DeleteTenant(r)
    \/ Cat!BulkActivateTenants(r) \/ Cat!BulkDeactivateTenants(r)
    \/ Cat!SetTenantPricing(r) \/ Cat!DeleteTenantPricing(r)
    \/ Cat!DeleteProduct(r) \/ Cat!HardDeleteTenant(r) \/ Cat!HardDeleteProduct(r)

LEMMA LoadingLoads ==
    ASSUME NEW r \in Workers, Loading(r)
    PROVE  UNCHANGED <<tenant, product, home, service, attached, pricing, priced>>
<1>1. CASE \/ Cat!CreateTenant(r) \/ Cat!UpdateTenant(r) \/ Cat!DeleteTenant(r)
           \/ Cat!BulkActivateTenants(r) \/ Cat!BulkDeactivateTenants(r)
  BY <1>1 DEF Cat!CreateTenant, Cat!UpdateTenant, Cat!DeleteTenant, Cat!BulkActivateTenants,
              Cat!BulkDeactivateTenants, Cat!Bulk, Cat!Loads, Cat!store
<1>2. CASE Cat!SetTenantPricing(r) \/ Cat!DeleteTenantPricing(r)
  BY <1>2 DEF Cat!SetTenantPricing, Cat!DeleteTenantPricing, Cat!Loads, Cat!store
<1>3. CASE Cat!DeleteProduct(r) \/ Cat!HardDeleteTenant(r) \/ Cat!HardDeleteProduct(r)
  BY <1>3 DEF Cat!DeleteProduct, Cat!HardDeleteTenant, Cat!HardDeleteProduct, Cat!Loads,
              Cat!store
<1> QED
  BY <1>1, <1>2, <1>3 DEF Loading

\* Every step but a commit of a hard deletion keeps the services that are sold.
LEMMA SoldStay ==
    ASSUME Cat!IInv, Cat!Next, NEW s \in Cat!Sold, service'[s] = Nil
    PROVE  \E r \in Workers : Cat!CommitHardTenant(r) \/ Cat!CommitHardProduct(r)
<1> USE CatalogAssumption
<1>1. s \in Services /\ service[s] \notin {Unused, Nil} /\ Cat!TypeOK
  BY DEF Cat!IInv, Cat!Sold
<1>2. service' # service
  BY <1>1
<1>3. ASSUME NEW y \in Services, Cat!Sell(y) \/ Cat!Attach(y) \/ Cat!Detach(y)
      PROVE  FALSE
  <2>1. CASE Cat!Sell(y)
    <3>1. service[y] = Unused /\ \A z \in Services \ {y} : service'[z] = service[z]
      BY <1>1, <2>1 DEF Cat!Sell, Cat!TypeOK
    <3> QED
      BY <1>1, <3>1
  <2>2. CASE Cat!Attach(y) \/ Cat!Detach(y)
    BY <1>2, <2>2 DEF Cat!Attach, Cat!Detach
  <2> QED
    BY <1>3, <2>1, <2>2
<1>5. \A r \in Workers : ~Loading(r)
  BY <1>2, LoadingLoads
<1>6. ASSUME NEW r \in Workers
      PROVE  /\ ~(Cat!CommitCreate(r) \/ Cat!CommitTenants(r) \/ Cat!CommitRetire(r))
             /\ ~(Cat!InsertPrice(r) \/ Cat!ChangePrice(r) \/ Cat!CommitUnset(r))
             /\ ~Cat!RollBack(r)
  BY <1>2 DEF Cat!CommitCreate, Cat!CommitTenants, Cat!CommitRetire, Cat!InsertPrice,
              Cat!ChangePrice, Cat!CommitUnset, Cat!RollBack, Cat!store
<1> QED
  BY <1>3, <1>5, <1>6 DEF Cat!Next, Loading

\* The hard deletion that takes a service spares what it saw of the others.
LEMMA Spares ==
    ASSUME Cat!IInv, Cat!Next, NEW s \in Services, s \in Cat!Sold, service'[s] = Nil
    PROVE  \E r \in Workers :
             /\ request'[r] = Cat!Idle
             /\ Cat!Does(r, "hard tenant") \/ Cat!Does(r, "hard product")
             /\ s \in request[r].seen => home[service[s].owner] \in request[r].tenants
             /\ s \notin request[r].held
<1> USE CatalogAssumption
<1>1. PICK r \in Workers : Cat!CommitHardTenant(r) \/ Cat!CommitHardProduct(r)
  BY SoldStay
<1>2. /\ Cat!Formed(request[r]) /\ Cat!Sparing(request[r]) /\ Cat!TypeOK
      /\ request[r] \in Cat!Job /\ service[s] \notin {Unused, Nil}
  BY DEF Cat!IInv, Cat!TypeOK, Cat!Sold
<1>3. request'[r] = Cat!Idle
  BY <1>1, <1>2 DEF Cat!CommitHardTenant, Cat!CommitHardProduct, Cat!Ends, Cat!TypeOK
<1>4. CASE Cat!CommitHardTenant(r)
  <2>1. Cat!Does(r, "hard tenant") /\ request[r].op = "hard tenant"
    BY <1>4 DEF Cat!CommitHardTenant, Cat!Does
  <2>2. PICK x \in Tenants : request[r].tenants = {x}
    BY <1>2, <2>1 DEF Cat!Formed
  <2>3. service' = [y \in Services |->
                      IF y \in {z \in Cat!Sold : \/ service[z].tenant = x
                                                 \/ home[service[z].owner] = x}
                      THEN Nil ELSE service[y]]
    <3>1. x \in request[r].tenants
      BY <2>2
    <3> QED
      BY <1>4, <3>1 DEF Cat!CommitHardTenant, Cat!RemoveServices
  <2>4. service[s].tenant = x \/ home[service[s].owner] = x
    BY <1>2, <2>3
  <2>5. s \in request[r].seen =>
          /\ service[s].tenant \in request[r].tenants => home[service[s].owner] \in request[r].tenants
          /\ s \in request[r].held => home[service[s].owner] \notin request[r].tenants
    BY <1>2, <2>1 DEF Cat!Sparing
  <2>6. request[r].held \subseteq request[r].seen
    BY <1>2, <2>1 DEF Cat!Sparing
  <2>7. s \in request[r].seen => home[service[s].owner] \in request[r].tenants
    BY <2>2, <2>4, <2>5
  <2>8. s \notin request[r].held
    BY <2>5, <2>6, <2>7
  <2> QED
    BY <1>3, <2>1, <2>7, <2>8
<1>5. CASE Cat!CommitHardProduct(r)
  <2>1. Cat!Does(r, "hard product") /\ request[r].op = "hard product"
    BY <1>5 DEF Cat!CommitHardProduct, Cat!Does
  <2>2. service' = [y \in Services |->
                      IF y \in {z \in Cat!Sold : service[z].product = request[r].product}
                      THEN Nil ELSE service[y]]
    BY <1>5 DEF Cat!CommitHardProduct, Cat!RemoveServices
  <2>3. service[s].product = request[r].product
    BY <1>2, <2>2
  <2>4. /\ s \in request[r].seen => service[s].product # request[r].product
        /\ request[r].held \subseteq request[r].seen
    BY <1>2, <2>1 DEF Cat!Sparing
  <2>5. s \notin request[r].seen /\ s \notin request[r].held
    BY <2>3, <2>4
  <2> QED
    BY <1>3, <2>1, <2>5
<1> QED
  BY <1>1, <1>4, <1>5

\* A price row is the only one of its tenant and product.
OnlyPrices ==
    \A i, k \in Cat!Rows :
        /\ pricing[i] # Nil /\ pricing[k] # Nil
        /\ pricing[i].tenant = pricing[k].tenant /\ pricing[i].product = pricing[k].product
        => i = k

PricesExist ==
    \A i \in Cat!Rows : pricing[i] # Nil =>
        Cat!Exists(pricing[i].tenant) /\ product[pricing[i].product] # Nil

LEMMA PricesSoundParts == Cat!PricesSound <=> OnlyPrices /\ PricesExist
  BY DEF Cat!PricesSound, OnlyPrices, PricesExist, Cat!PricesOf

\* A step that takes no tenant and no product away, and makes no price.
LEMMA PricesKept ==
    ASSUME OnlyPrices, PricesExist,
           \A x \in Tenants : Cat!Exists(x) => Cat!Exists(x)',
           \A p \in Products : product[p] # Nil => product'[p] # Nil,
           pricing \in [Cat!Rows -> Cat!Price \union {Nil}],
           \A i \in Cat!Rows : pricing'[i] # Nil =>
                /\ pricing[i] # Nil
                /\ pricing'[i].tenant = pricing[i].tenant
                /\ pricing'[i].product = pricing[i].product
    PROVE  OnlyPrices' /\ PricesExist'
<1>1. OnlyPrices'
  BY DEF OnlyPrices
<1>2. \A i \in Cat!Rows : pricing[i] # Nil =>
        pricing[i].tenant \in Tenants /\ pricing[i].product \in Products
  BY DEF Cat!Price
<1>3. PricesExist'
  <2>1. SUFFICES ASSUME NEW i \in Cat!Rows, pricing'[i] # Nil
                 PROVE  Cat!Exists(pricing[i].tenant)' /\ product'[pricing'[i].product] # Nil
    BY DEF PricesExist
  <2>2. PICK x \in Tenants, p \in Products :
          /\ x = pricing[i].tenant /\ p = pricing[i].product
          /\ x = pricing'[i].tenant /\ p = pricing'[i].product
    BY <1>2, <2>1
  <2>3. Cat!Exists(x) /\ product[p] # Nil
    BY <2>1, <2>2 DEF PricesExist
  <2>4. Cat!Exists(x)' /\ product'[p] # Nil
    BY <2>3
  <2> QED
    BY <2>2, <2>4 DEF Cat!Exists
<1> QED
  BY <1>1, <1>3

LEMMA PricesStep ==
    ASSUME Cat!IInv, Cat!PricesSound, [Cat!Next]_catalogVars
    PROVE  Cat!PricesSound'
<1> USE CatalogAssumption
<1>0. OnlyPrices /\ PricesExist
  BY PricesSoundParts
<1>1. /\ Cat!TypeOK /\ Cat!RowsFresh
      /\ \A r \in Workers : request[r] \in Cat!Job /\ Cat!Formed(request[r])
      /\ pricing \in [Cat!Rows -> Cat!Price \union {Nil}]
      /\ \A i \in Cat!Rows : pricing[i] # Nil =>
           pricing[i].tenant \in Tenants /\ pricing[i].product \in Products
  BY DEF Cat!IInv, Cat!TypeOK, Cat!Price
<1>2. SUFFICES OnlyPrices' /\ PricesExist'
  <2>1. (Cat!PricesSound <=> OnlyPrices /\ PricesExist)'
    BY PricesSoundParts, PTL
  <2> QED
    BY <1>2, <2>1
<1>3. CASE UNCHANGED <<tenant, product, pricing>>
  BY <1>0, <1>3 DEF OnlyPrices, PricesExist, Cat!Exists
<1>4. ASSUME NEW r \in Workers, Cat!CommitCreate(r) \/ Cat!CommitTenants(r)
      PROVE  OnlyPrices' /\ PricesExist'
  <2>1. UNCHANGED <<product, pricing>>
    BY <1>4 DEF Cat!CommitCreate, Cat!CommitTenants
  <2>2. ASSUME NEW x \in Tenants, Cat!Exists(x) PROVE Cat!Exists(x)'
    <3>1. request[r].active \in BOOLEAN \union {Nil}
      BY <1>1 DEF Cat!Job
    <3>2. CASE Cat!CommitTenants(r)
      <4>1. tenant'[x] = IF x \in request[r].tenants /\ request[r].active # Nil
                         THEN request[r].active ELSE tenant[x]
        BY <3>2 DEF Cat!CommitTenants
      <4> QED
        BY <2>2, <3>1, <4>1 DEF Cat!Exists
    <3>3. CASE Cat!CommitCreate(r)
      <4>1. /\ tenant'[x] = IF x \in request[r].tenants THEN request[r].active ELSE tenant[x]
            /\ x \in request[r].tenants => tenant[x] = Unused
        BY <3>3 DEF Cat!CommitCreate
      <4> QED
        BY <2>2, <4>1 DEF Cat!Exists
    <3> QED
      BY <1>4, <3>2, <3>3
  <2> QED
    BY <1>0, <1>1, <2>1, <2>2, PricesKept
<1>5. ASSUME NEW r \in Workers, Cat!CommitRetire(r)
      PROVE  OnlyPrices' /\ PricesExist'
  <2>1. /\ UNCHANGED <<tenant, pricing>>
        /\ product' = [product EXCEPT ![request[r].product] = FALSE]
    BY <1>5 DEF Cat!CommitRetire
  <2>2. /\ \A x \in Tenants : Cat!Exists(x) => Cat!Exists(x)'
        /\ \A p \in Products : product[p] # Nil => product'[p] # Nil
    BY <1>1, <2>1 DEF Cat!Exists, Cat!TypeOK
  <2> QED
    BY <1>0, <1>1, <2>1, <2>2, PricesKept
<1>6. ASSUME NEW r \in Workers, Cat!ChangePrice(r) \/ Cat!CommitUnset(r)
      PROVE  OnlyPrices' /\ PricesExist'
  <2>1. /\ request[r].op \in {"set", "unset"} /\ UNCHANGED <<tenant, product>>
        /\ request[r].row \in Cat!Rows
    BY <1>1, <1>6 DEF Cat!ChangePrice, Cat!CommitUnset, Cat!Does, Cat!Formed, Cat!Job
  <2>2. PICK k \in Cat!Rows : k = request[r].row
    BY <2>1
  <2>3. \A i \in Cat!Rows : pricing'[i] # Nil =>
          /\ pricing[i] # Nil
          /\ pricing'[i].tenant = pricing[i].tenant
          /\ pricing'[i].product = pricing[i].product
    <3>1. CASE Cat!CommitUnset(r)
      <4>1. pricing' = [pricing EXCEPT ![k] = Nil]
        BY <2>2, <3>1 DEF Cat!CommitUnset
      <4> QED
        BY <1>1, <4>1
    <3>2. CASE Cat!ChangePrice(r) /\ pricing' # pricing
      <4>1. PICK c : pricing[k] # Nil /\ pricing' = [pricing EXCEPT ![k].price = c]
        BY <2>2, <3>2 DEF Cat!ChangePrice
      <4>2. pricing[k] \in Cat!Price
        BY <1>1, <4>1
      <4>3. pricing'[k].tenant = pricing[k].tenant /\ pricing'[k].product = pricing[k].product
        BY <1>1, <4>1, <4>2 DEF Cat!Price
      <4>4. \A i \in Cat!Rows \ {k} : pricing'[i] = pricing[i]
        BY <1>1, <4>1
      <4> QED
        BY <4>1, <4>3, <4>4
    <3> QED
      BY <1>6, <3>1, <3>2
  <2>4. /\ \A x \in Tenants : Cat!Exists(x) => Cat!Exists(x)'
        /\ \A p \in Products : product[p] # Nil => product'[p] # Nil
    BY <2>1 DEF Cat!Exists
  <2> QED
    BY <1>0, <1>1, <2>3, <2>4, PricesKept
\* The index and the foreign keys are looked at by the insertion.
<1>7. ASSUME NEW r \in Workers, Cat!InsertPrice(r)
      PROVE  OnlyPrices' /\ PricesExist'
  <2>1. PICK x \in Tenants, p \in Products :
          request[r].tenants = {x} /\ request[r].product = p
    BY <1>1, <1>7 DEF Cat!InsertPrice, Cat!Does, Cat!Formed, Cat!Job
  <2>2. PICK k \in Cat!Rows : k = priced + 1 /\ pricing[k] = Nil
    BY <1>1, <1>7 DEF Cat!InsertPrice, Cat!RowsFresh, Cat!Rows, Cat!TypeOK
  <2>3. PICK new : /\ pricing' = [pricing EXCEPT ![k] = new]
                   /\ new.tenant = x /\ new.product = p
    <3>1. PICK new : new = [tenant |-> x, product |-> p, price |-> request[r].price]
      OBVIOUS
    <3>2. new.tenant = x /\ new.product = p
      BY <3>1
    <3>3. pricing' = [pricing EXCEPT ![k] = new]
      BY <1>7, <2>1, <2>2, <3>1 DEF Cat!InsertPrice
    <3> QED
      BY <3>2, <3>3
  <2>4. /\ Cat!Exists(x) /\ product[p] # Nil /\ Cat!PricesOf(x, p) = {}
        /\ UNCHANGED <<tenant, product>>
    BY <1>7, <2>1 DEF Cat!InsertPrice
  <2>5. /\ pricing'[k].tenant = x /\ pricing'[k].product = p
        /\ \A i \in Cat!Rows \ {k} : pricing'[i] = pricing[i]
    BY <1>1, <2>3
  <2>6. \A i \in Cat!Rows : pricing[i] # Nil => ~(pricing[i].tenant = x /\ pricing[i].product = p)
    BY <2>4 DEF Cat!PricesOf
  <2>7. OnlyPrices'
    BY <1>0, <2>5, <2>6 DEF OnlyPrices
  <2>8. PricesExist'
    BY <1>0, <2>4, <2>5 DEF PricesExist, Cat!Exists
  <2> QED
    BY <2>7, <2>8
\* The prices go with the tenant or the product.
<1>8. ASSUME NEW r \in Workers, Cat!CommitHardTenant(r)
      PROVE  OnlyPrices' /\ PricesExist'
  <2>1. PICK x \in Tenants : request[r].tenants = {x}
    BY <1>1, <1>8 DEF Cat!CommitHardTenant, Cat!Does, Cat!Formed
  <2>2. x \in request[r].tenants
    BY <2>1
  <2>3. /\ tenant' = [tenant EXCEPT ![x] = Nil] /\ product' = product
        /\ pricing' = [i \in Cat!Rows |-> IF pricing[i] # Nil /\ pricing[i].tenant = x
                                            THEN Nil ELSE pricing[i]]
    BY <1>8, <2>2 DEF Cat!CommitHardTenant
  <2>4. \A i \in Cat!Rows : pricing'[i] # Nil =>
          pricing'[i] = pricing[i] /\ pricing[i].tenant # x
    BY <2>3
  <2>5. OnlyPrices'
    BY <1>0, <2>4 DEF OnlyPrices
  <2>6. \A y \in Tenants \ {x} : tenant'[y] = tenant[y]
    BY <2>3
  <2>7. PricesExist'
    BY <1>0, <1>1, <2>3, <2>4, <2>6 DEF PricesExist, Cat!Exists
  <2> QED
    BY <2>5, <2>7
<1>9. ASSUME NEW r \in Workers, Cat!CommitHardProduct(r)
      PROVE  OnlyPrices' /\ PricesExist'
  <2>1. PICK p : p = request[r].product
    OBVIOUS
  <2>2. /\ product' = [product EXCEPT ![p] = Nil] /\ tenant' = tenant
        /\ pricing' = [i \in Cat!Rows |-> IF pricing[i] # Nil /\ pricing[i].product = p
                                            THEN Nil ELSE pricing[i]]
    BY <1>9, <2>1 DEF Cat!CommitHardProduct
  <2>3. \A i \in Cat!Rows : pricing'[i] # Nil =>
          pricing'[i] = pricing[i] /\ pricing[i].product # p
    BY <2>2
  <2>4. OnlyPrices'
    BY <1>0, <2>3 DEF OnlyPrices
  <2>5. \A q \in Products \ {p} : product'[q] = product[q]
    BY <1>1, <2>2 DEF Cat!TypeOK
  <2>6. PricesExist'
    BY <1>0, <1>1, <2>2, <2>3, <2>5 DEF PricesExist, Cat!Exists
  <2> QED
    BY <2>4, <2>6
<1>10. ASSUME NEW r \in Workers, Loading(r) \/ Cat!RollBack(r)
       PROVE  UNCHANGED <<tenant, product, pricing>>
  BY <1>10, LoadingLoads DEF Cat!RollBack, Cat!store
<1>11. ASSUME NEW s \in Services, Cat!Sell(s) \/ Cat!Attach(s) \/ Cat!Detach(s)
       PROVE  UNCHANGED <<tenant, product, pricing>>
  BY <1>11 DEF Cat!Sell, Cat!Attach, Cat!Detach
<1>12. UNCHANGED catalogVars => UNCHANGED <<tenant, product, pricing>>
  BY DEF catalogVars
<1> QED
  BY <1>3, <1>4, <1>5, <1>6, <1>7, <1>8, <1>9, <1>10, <1>11, <1>12 DEF Cat!Next, Loading

\* However requests overlap, a tenant has one price of a product at most, and both
\* exist (set_tenant_pricing, delete_tenant_pricing, the hard deletions).
THEOREM PricesAreSound == MCSpec => []PricesSound
<1>1. MCInit => Cat!IInv /\ Cat!PricesSound
  <2>1. MCInit => Cat!IInv
    BY CatInit DEF MCInit
  <2>2. MCInit => Cat!PricesSound
    BY DEF MCInit, Cat!Init, Cat!PricesSound
  <2> QED
    BY <2>1, <2>2
<1>2. Cat!IInv /\ Cat!PricesSound /\ [MCNext]_<<part, vars, catalogVars>> =>
        Cat!IInv' /\ Cat!PricesSound'
  <2>1. [MCNext]_<<part, vars, catalogVars>> => [Cat!Next]_catalogVars
    BY DEF MCNext
  <2> QED
    BY <2>1, CatStep, PricesStep
<1> QED
  BY <1>1, <1>2, PTL DEF MCSpec, PricesSound

\* A hard deletion takes no service it saw that does not go with its tenant, nor
\* one it saw with something attached (hard_delete_tenant, hard_delete_product).
THEOREM ServicesSpared == MCSpec => HardDeleteSpares
<1>1. MCInit => Cat!IInv
  BY CatInit DEF MCInit
<1>2. Cat!IInv /\ [MCNext]_<<part, vars, catalogVars>> => Cat!IInv'
  <2>1. [MCNext]_<<part, vars, catalogVars>> => [Cat!Next]_catalogVars
    BY DEF MCNext
  <2> QED
    BY <2>1, CatStep
<1>3. Cat!IInv /\ [MCNext]_<<part, vars, catalogVars>> =>
        [\A s \in Services :
           s \in Cat!Sold /\ service'[s] = Nil =>
             \E r \in Workers :
               /\ request'[r] = Cat!Idle
               /\ Cat!Does(r, "hard tenant") \/ Cat!Does(r, "hard product")
               /\ s \in request[r].seen => home[service[s].owner] \in request[r].tenants
               /\ s \notin request[r].held]_(Cat!vars)
  <2>1. SUFFICES ASSUME Cat!IInv, [MCNext]_<<part, vars, catalogVars>>, Cat!vars' # Cat!vars,
                        NEW s \in Services, s \in Cat!Sold, service'[s] = Nil
                 PROVE  \E r \in Workers :
                          /\ request'[r] = Cat!Idle
                          /\ Cat!Does(r, "hard tenant") \/ Cat!Does(r, "hard product")
                          /\ s \in request[r].seen => home[service[s].owner] \in request[r].tenants
                          /\ s \notin request[r].held
    OBVIOUS
  <2>2. Cat!Next
    BY <2>1 DEF MCNext, catalogVars, Cat!vars
  <2> QED
    BY <2>1, <2>2, Spares
<1> QED
  BY <1>1, <1>2, <1>3, PTL DEF MCSpec, HardDeleteSpares, Cat!HardDeleteSpares
=============================================================================
