------------------------------- MODULE Access -------------------------------
(***************************************************************************)
(* Users, their tokens and their roles.                                    *)
(*                                                                         *)
(* A token carries its subject and, if it is an access token, the role its *)
(* subject had; any token is accepted anywhere until it expires or its     *)
(* subject is blacklisted.  Requests that change a user load the row, and  *)
(* commit the columns that differ from what they loaded.  Times are whole  *)
(* units of two seconds or more, counted down: an access token lives       *)
(* AccessLife of them, a refresh token RefreshLife.                        *)
(***************************************************************************)
EXTENDS Naturals, Sequences, FiniteSets

CONSTANTS
    Users,
    Staff,       \* users that are there from the start: superadmins
    Workers,     \* requests that can be in progress at once
    AccessLife, RefreshLife,
    MaxTokens,   \* bound: tokens that live at the same time
    MaxBulk,     \* bound: assignments of one request
    Asked,       \* roles that requests ask for
    NoRole, Keep, Nil

VARIABLES
    row,      \* the users table
    tokens,   \* the tokens that live
    black,    \* how long the key blacklist:<user> will be there; 0 if it is not
    redis,    \* can Redis be reached
    job,      \* what each request is doing
    out,      \* the living tokens with which somebody has logged out
    shaky,    \* users whose logouts overlapped, or met a failing Redis
    since     \* the time since each user's role changed, AccessLife if it is longer

vars == <<row, tokens, black, redis, job, out, shaky, since>>

Roles == {"superadmin", "admin", "reseller", "user"}
Row == [role: Roles, active: BOOLEAN]
Token == [sub: Users, role: Roles \union {NoRole}, left: Nat, renewed: BOOLEAN]
Change == [role: Roles \union {Keep}, active: BOOLEAN \union {Keep}]
Assignment == [user: Users, role: Asked]

ASSUME AccessAssumption ==
    /\ AccessLife \in Nat \ {0} /\ RefreshLife \in Nat \ {0} /\ MaxBulk \in Nat
    /\ Staff \subseteq Users /\ Asked \subseteq Roles
    /\ NoRole \notin Roles
    /\ Keep \notin Roles /\ Keep \notin BOOLEAN
    /\ Nil \notin Row /\ Nil \notin Token /\ Nil \notin Users

Nothing == [role |-> Keep, active |-> Keep]

\* A request: the token a logout came with, the role an assignment's token claims,
\* the user it is changing, that user's row when it was loaded, the change, and the
\* assignments that are left.
Job == [op: {"none", "logout", "patch", "assign"}, token: Token \union {Nil},
        actor: Roles \union {Nil}, user: Users \union {Nil}, seen: Row \union {Nil},
        set: Change, todo: Seq(Assignment)]

Idle == [op |-> "none", token |-> Nil, actor |-> Nil, user |-> Nil, seen |-> Nil, set |-> Nothing,
         todo |-> <<>>]

TypeOK ==
    /\ redis \in BOOLEAN
    /\ row \in [Users -> Row \union {Nil}]
    /\ tokens \subseteq Token /\ out \subseteq tokens
    /\ black \in [Users -> Nat] /\ since \in [Users -> 0..AccessLife]
    /\ shaky \subseteq Users
    /\ job \in [Workers -> Job]

Init ==
    /\ row = [u \in Users |-> IF u \in Staff THEN [role |-> "superadmin", active |-> TRUE]
                                             ELSE Nil]
    /\ tokens = {} /\ out = {}
    /\ black = [u \in Users |-> 0]
    /\ redis = TRUE
    /\ job = [w \in Workers |-> Idle]
    /\ shaky = {}
    /\ since = [u \in Users |-> AccessLife]

-----------------------------------------------------------------------------
(* Roles and tokens *)

\* _ROLE_ASSIGNMENT_RULES
Assignable(r) ==
    CASE r = "superadmin" -> Roles
      [] r = "admin" -> {"reseller", "user"}
      [] r = "reseller" -> {"user"}
      [] OTHER -> {}

IsAdmin(r) == r \in {"admin", "superadmin"}

\* What an endpoint reads from a payload; a refresh token has no role.
Claim(t) == IF t.role = NoRole THEN "user" ELSE t.role

\* Mutated form: access tokens live as long as refresh tokens.
LongAccessToken(u, r, renewed) ==
    [sub |-> u, role |-> r, left |-> RefreshLife, renewed |-> renewed]

AccessToken(u, r, renewed) ==
    [sub |-> u, role |-> r, left |-> AccessLife, renewed |-> renewed]
RefreshToken(u) ==
    [sub |-> u, role |-> NoRole, left |-> RefreshLife, renewed |-> FALSE]

\* get_current_user_payload: the token lives, and its subject is not on the
\* blacklist, which is empty while Redis cannot be reached.
Accepts(t) == redis => black[t.sub] = 0

\* get_current_user loads the user as well.
AcceptsUser(t) == Accepts(t) /\ row[t.sub] # Nil /\ row[t.sub].active

Issue(new) ==
    /\ Cardinality(tokens \union new) <= MaxTokens
    /\ tokens' = tokens \union new

-----------------------------------------------------------------------------
(* The environment *)

Older(t) == [t EXCEPT !.left = @ - 1]
Lives(t) == t.left > 1

Tick ==
    /\ tokens' = {Older(t) : t \in {x \in tokens : Lives(x)}}
    /\ out' = {Older(t) : t \in {x \in out : Lives(x)}}
    /\ black' = [u \in Users |-> IF black[u] = 0 THEN 0 ELSE black[u] - 1]
    /\ since' = [u \in Users |-> IF since[u] = AccessLife THEN AccessLife ELSE since[u] + 1]
    /\ job' = [w \in Workers |-> IF job[w].token # Nil /\ job[w].token.left > 0
                                     THEN [job[w] EXCEPT !.token = Older(@)] ELSE job[w]]
    /\ UNCHANGED <<row, redis, shaky>>

RedisFailsOrReturns ==
    /\ redis' = ~redis
    /\ UNCHANGED <<row, tokens, black, job, out, shaky, since>>

-----------------------------------------------------------------------------
(* Registration, login, renewal *)

\* The email address is unique, whoever registers it: a second row is refused.
Register(u) ==
    /\ row[u] = Nil
    /\ Issue({AccessToken(u, "user", FALSE), RefreshToken(u)})
    /\ row' = [row EXCEPT ![u] = [role |-> "user", active |-> TRUE]]
    /\ UNCHANGED <<black, redis, job, out, shaky, since>>

CreateUser(t, u) ==
    /\ Accepts(t) /\ IsAdmin(Claim(t))
    /\ row[u] = Nil
    /\ row' = [row EXCEPT ![u] = [role |-> "user", active |-> TRUE]]
    /\ UNCHANGED <<tokens, black, redis, job, out, shaky, since>>

Login(u) ==
    /\ row[u] # Nil /\ row[u].active
    /\ Issue({AccessToken(u, row[u].role, FALSE), RefreshToken(u)})
    /\ UNCHANGED <<row, black, redis, job, out, shaky, since>>

\* refresh_token takes any token, and the role from it.
Renew(t) ==
    /\ Accepts(t)
    /\ Issue({AccessToken(t.sub, Claim(t), TRUE)})
    /\ UNCHANGED <<row, black, redis, job, out, shaky, since>>

-----------------------------------------------------------------------------
(* Logout *)

LoggingOut(u) == {w \in Workers : job[w].op = "logout" /\ job[w].token.sub = u}

BeginLogout(w, t) ==
    /\ job[w] = Idle
    /\ AcceptsUser(t)
    /\ job' = [job EXCEPT ![w] = [Idle EXCEPT !.op = "logout", !.token = t]]
    /\ shaky' = IF LoggingOut(t.sub) # {} \/ ~redis THEN shaky \union {t.sub} ELSE shaky
    /\ UNCHANGED <<row, tokens, black, redis, out, since>>

\* Mutated form: every entry of the blacklist lives as long as an access token.
LogoutForAWhile(w) ==
    LET t == job[w].token IN
    /\ job[w].op = "logout" /\ redis
    /\ black' = [black EXCEPT ![t.sub] = AccessLife]
    /\ out' = out \union ({t} \intersect tokens)
    /\ job' = [job EXCEPT ![w] = Idle]
    /\ UNCHANGED <<row, tokens, redis, shaky, since>>

\* Tokens have no id of their own: the subject is blacklisted, and whatever entry
\* there was is replaced.  The entry lasts the whole seconds to go until the token's
\* last second, in which it is still accepted: up to two seconds less than the
\* token.  Where there is no whole second to go, nothing is written.
Logout(w) ==
    LET t == job[w].token IN
    /\ job[w].op = "logout" /\ redis
    /\ \/ /\ t.left > 0
          /\ \E early \in 0..1 : black' = [black EXCEPT ![t.sub] = t.left - early]
       \/ /\ t.left <= 1
          /\ UNCHANGED black
    /\ out' = out \union ({t} \intersect tokens)
    /\ job' = [job EXCEPT ![w] = Idle]
    /\ UNCHANGED <<row, tokens, redis, shaky, since>>

\* The error is the answer, and no entry is written.
LogoutFails(w) ==
    /\ job[w].op = "logout" /\ ~redis
    /\ job' = [job EXCEPT ![w] = Idle]
    /\ UNCHANGED <<row, tokens, black, redis, out, shaky, since>>

\* Redis limits its memory, and drops the keys that were not used recently.
Evict(u) ==
    /\ black[u] > 0
    /\ black' = [black EXCEPT ![u] = 0]
    /\ shaky' = shaky \union {u}
    /\ UNCHANGED <<row, tokens, redis, job, out, since>>

-----------------------------------------------------------------------------
(* Changes of users *)

ByAdmin(w, t) == job[w] = Idle /\ Accepts(t) /\ IsAdmin(Claim(t))

\* update_user and delete_user load the row, which must exist.
LoadsUser(w, u, change) ==
    /\ row[u] # Nil
    /\ job' = [job EXCEPT ![w] = [Idle EXCEPT !.op = "patch", !.user = u,
                                              !.seen = row[u], !.set = change]]
    /\ UNCHANGED <<row, tokens, black, redis, out, shaky, since>>

\* Changes of other columns, which everybody may make to his own row, are left out.
UpdateUser(w, t, u) ==
    /\ ByAdmin(w, t)
    /\ \E c \in [role: Asked \union {Keep}, active: BOOLEAN \union {Keep}] \ {Nothing} :
         LoadsUser(w, u, c)

\* A deleted user is an inactive one.
DeleteUser(w, t, u) ==
    ByAdmin(w, t) /\ LoadsUser(w, u, [Nothing EXCEPT !.active = FALSE])

BulkAssignRoles(w, t, todo) ==
    /\ ByAdmin(w, t)
    /\ job' = [job EXCEPT ![w] = [Idle EXCEPT !.op = "assign", !.actor = Claim(t), !.todo = todo]]
    /\ UNCHANGED <<row, tokens, black, redis, out, shaky, since>>

AssignOneRole(w, t, a) == BulkAssignRoles(w, t, <<a>>)

\* The role must be one the actor's role, as claimed, can assign, and only a
\* superadmin changes a superadmin.
MayAssign(actor, u, r) ==
    /\ r \in Assignable(actor)
    /\ row[u] # Nil
    /\ row[u].role = "superadmin" => actor = "superadmin"

AssignRole(w) ==
    LET j == job[w] u == j.todo[1].user r == j.todo[1].role IN
    /\ j.op = "assign"
    /\ MayAssign(j.actor, u, r)
    /\ job' = [job EXCEPT ![w] =
                 [Idle EXCEPT !.op = "patch", !.user = u, !.seen = row[u],
                              !.set = [Nothing EXCEPT !.role = r], !.todo = Tail(j.todo),
                              !.actor = IF Len(j.todo) > 1 THEN j.actor ELSE Nil]]
    /\ UNCHANGED <<row, tokens, black, redis, out, shaky, since>>

\* A refused assignment ends the request; what is committed stays.
AssignRefused(w) ==
    LET j == job[w] IN
    /\ j.op = "assign"
    /\ ~MayAssign(j.actor, j.todo[1].user, j.todo[1].role)
    /\ job' = [job EXCEPT ![w] = Idle]
    /\ UNCHANGED <<row, tokens, black, redis, out, shaky, since>>

\* Mutated form: every column of the request is written.
WrittenWhole(j) == [role |-> IF j.set.role = Keep THEN j.seen.role ELSE j.set.role,
                    active |-> IF j.set.active = Keep THEN j.seen.active ELSE j.set.active]

\* The row after the commit: columns whose value differs from what was loaded.
Written(j) ==
    [role |-> IF j.set.role \in {Keep, j.seen.role} THEN row[j.user].role ELSE j.set.role,
     active |-> IF j.set.active \in {Keep, j.seen.active} THEN row[j.user].active
                                                         ELSE j.set.active]

Commit(w) ==
    LET j == job[w] IN
    /\ j.op = "patch"
    /\ row' = [row EXCEPT ![j.user] = Written(j)]
    /\ since' = [since EXCEPT ![j.user] = IF Written(j).role # row[j.user].role THEN 0 ELSE @]
    /\ job' = [job EXCEPT ![w] =
                 IF j.todo = <<>> THEN Idle
                 ELSE [Idle EXCEPT !.op = "assign", !.actor = j.actor, !.todo = j.todo]]
    /\ UNCHANGED <<tokens, black, redis, out, shaky>>

Next ==
    \/ Tick
    \/ RedisFailsOrReturns
    \/ \E u \in Users : Register(u) \/ Login(u) \/ Evict(u)
    \/ \E t \in tokens :
         \/ Renew(t)
         \/ \E u \in Users : CreateUser(t, u)
         \/ \E w \in Workers :
              \/ BeginLogout(w, t)
              \/ \E u \in Users : UpdateUser(w, t, u) \/ DeleteUser(w, t, u)
              \/ \E a \in Assignment : AssignOneRole(w, t, a)
              \/ \E n \in 2..MaxBulk : \E b \in [1..n -> Assignment] : BulkAssignRoles(w, t, b)
    \/ \E w \in Workers :
         Logout(w) \/ LogoutFails(w) \/ AssignRole(w) \/ AssignRefused(w) \/ Commit(w)

Spec == Init /\ [][Next]_vars

-----------------------------------------------------------------------------
(* Properties *)

\* A token with which somebody has logged out is refused until the last unit of
\* its life, unless a second logout of the user ran at the same time, or Redis
\* could not be reached when one began, or has dropped the entry.
LogoutHolds == \A t \in out : t.sub \in shaky \/ black[t.sub] + 1 >= t.left

\* A user who has been made inactive becomes active again only by a request
\* that found the user inactive: one that was under way, and had loaded an
\* active user, does not undo what it has not seen.
ReactivationIsInformed ==
    [][\A u \in Users :
         row[u] # Nil /\ ~row[u].active /\ row'[u].active =>
             \E w \in Workers : /\ job[w].user = u /\ ~job[w].seen.active
                                /\ job[w] # job'[w]]_vars

\* A role that a token claims and its user has no longer is accepted for one
\* access token's life after the change at most, unless the token was renewed.
StaleClaimsExpire ==
    \A t \in tokens :
        t.role \in Roles /\ t.role # row[t.sub].role /\ ~t.renewed =>
            t.left + since[t.sub] <= AccessLife

-----------------------------------------------------------------------------
(* The inductive invariant *)

\* A token lives, of a user who exists, and an access token from a login or a
\* registration at most AccessLife.
TokensLive ==
    \A t \in tokens :
        /\ t.left > 0
        /\ row[t.sub] # Nil
        /\ t.role \in Roles /\ ~t.renewed => t.left <= AccessLife

JobsFormed ==
    \A w \in Workers :
        /\ job[w].op = "logout" => job[w].token # Nil
        /\ job[w].op = "assign" => job[w].todo # <<>>
        /\ job[w].op = "patch" => /\ job[w].user # Nil /\ job[w].seen # Nil
                                  /\ row[job[w].user] # Nil

\* A logout that met neither another of its user's nor a failing Redis runs
\* alone, and the user's tokens that are logged out are in the last unit of their life.
LogoutsAlone ==
    \A u \in Users \ shaky, w \in Workers :
        w \in LoggingOut(u) =>
            LoggingOut(u) = {w} /\ \A t \in out : t.sub = u => t.left <= 1

IInv == TypeOK /\ TokensLive /\ JobsFormed /\ LogoutsAlone /\ LogoutHolds /\ StaleClaimsExpire
=============================================================================
