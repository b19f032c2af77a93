---------------------------- MODULE VpnSessions ----------------------------
(***************************************************************************)
(* The VPN tasks that do write: connection sync, session clean-up and the  *)
(* health check of the servers.                                            *)
(*                                                                         *)
(* sync_wg_connections reads the peers of the WireGuard interface, loads   *)
(* the active accounts with their sessions, and commits the sessions it    *)
(* opened and ended.  The beat starts it every two minutes and, since its  *)
(* audit entry of tenant "system" is refused, Celery starts each run again *)
(* after 30 seconds, three times: runs overlap.                            *)
(***************************************************************************)
EXTENDS Integers, FiniteSets

CONSTANTS
    Accounts,  \* ids of WireGuard accounts that have a public key
    Runs,      \* what can be running sync_wg_connections or sync_all_connections
    Ids        \* bound: ids of sessions that are CONNECTED or about to be

\* What the proofs assume of the constants.
SessionsAssumption == IsFiniteSet(Runs) /\ IsFiniteSet(Ids)

VARIABLES
    status,  \* vpn_accounts.status
    alive,   \* accounts whose peer had a handshake in the last 180 seconds
    open,    \* the CONNECTED sessions of each account
    stale,   \* those that were connected more than 60 minutes ago
    run,     \* the sync runs
    server,  \* vpn_servers.status
    up,      \* does the server answer over SSH
    check    \* the health check: what it loaded, "none" when it does not run

vars == <<status, alive, open, stale, run, server, up, check>>

\* A run: the connections it saw; then the accounts it opens a session for and
\* the sessions it ends.
Run == [at: {"idle", "polled", "loaded"}, peers: SUBSET Accounts, up: SUBSET Accounts,
        opens: SUBSET Accounts, ends: SUBSET Ids]
Idle == [at |-> "idle", peers |-> {}, up |-> {}, opens |-> {}, ends |-> {}]

TypeOK ==
    /\ status \in [Accounts -> {"ACTIVE", "DISABLED", "EXPIRED"}]
    /\ alive \subseteq Accounts
    /\ open \in [Accounts -> SUBSET Ids]
    /\ stale \subseteq Ids
    /\ run \in [Runs -> Run]
    /\ server \in {"ACTIVE", "DEGRADED"}
    /\ up \in BOOLEAN
    /\ check \in {"none", "ACTIVE", "DEGRADED"}

Init ==
    /\ status = [a \in Accounts |-> "ACTIVE"]
    /\ alive = {}
    /\ open = [a \in Accounts |-> {}]
    /\ stale = {}
    /\ run = [r \in Runs |-> Idle]
    /\ server = "ACTIVE"
    /\ up = TRUE
    /\ check = "none"

health == <<server, up, check>>
world == <<status, alive>>

-----------------------------------------------------------------------------
(* What happens around the tasks *)

\* A peer shakes hands, or has not for 180 seconds.
PeerConnects(a) ==
    /\ alive' = (alive \ {a}) \union ({a} \ alive)
    /\ UNCHANGED <<status, open, stale, run, health>>

\* PATCH /vpn/accounts/{id}: committed, although the response then fails.
UpdateVpnAccount(a) ==
    /\ \E s \in {"ACTIVE", "DISABLED", "EXPIRED"} \ {status[a]} :
         status' = [status EXCEPT ![a] = s]
    /\ UNCHANGED <<alive, open, stale, run, health>>

\* A session has been connected for an hour.
Age(a) ==
    /\ \E i \in open[a] \ stale : stale' = stale \union {i}
    /\ UNCHANGED <<status, alive, open, run, health>>

-----------------------------------------------------------------------------
(* Connection sync *)

\* detect_connections: which peers there are, and which are connected; none at
\* all if wg fails.
Poll(r) ==
    /\ run[r].at = "idle"
    /\ \E peers \in SUBSET Accounts :
         run' = [run EXCEPT ![r] = [Idle EXCEPT !.at = "polled", !.peers = peers,
                                                !.up = peers \intersect alive]]
    /\ UNCHANGED <<world, open, stale, health>>

Active == {a \in Accounts : status[a] = "ACTIVE"}

\* Mutated form: a session is opened although there is one.
LoadForgetsOpen(r) ==
    /\ run[r].at = "polled"
    /\ run' = [run EXCEPT ![r].at = "loaded", ![r].peers = {}, ![r].up = {},
                          ![r].opens = run[r].up \intersect Active]
    /\ UNCHANGED <<world, open, stale, health>>

\* The active accounts and their sessions: where the peer is connected and there
\* is no session, one is opened; where it is not, the first one is ended.
Load(r) ==
    LET gone == {a \in (run[r].peers \ run[r].up) \intersect Active : open[a] # {}} IN
    /\ run[r].at = "polled"
    /\ \E first \in [gone -> Ids] :
         /\ \A a \in gone : first[a] \in open[a]
         /\ run' = [run EXCEPT ![r] =
                      [Idle EXCEPT !.at = "loaded",
                                   !.opens = {a \in run[r].up \intersect Active : open[a] = {}},
                                   !.ends = {first[a] : a \in gone}]]
    /\ UNCHANGED <<world, open, stale, health>>

\* Ids no session and no run knows.
Fresh == {i \in Ids : /\ \A a \in Accounts : i \notin open[a]
                      /\ \A r \in Runs : i \notin run[r].ends}

\* The commit: sessions that others have ended meanwhile are ended again.
Commit(r) ==
    /\ run[r].at = "loaded"
    /\ \E new \in [run[r].opens -> Fresh] :
         /\ \A a, b \in run[r].opens : new[a] = new[b] => a = b
         /\ open' = [a \in Accounts |->
                       (open[a] \ run[r].ends)
                         \union (IF a \in run[r].opens THEN {new[a]} ELSE {})]
    /\ stale' = stale \ run[r].ends
    /\ run' = [run EXCEPT ![r] = Idle]
    /\ UNCHANGED <<world, health>>

\* The run dies, or wg takes too long.
Die(r) ==
    /\ run[r].at # "idle"
    /\ run' = [run EXCEPT ![r] = Idle]
    /\ UNCHANGED <<world, open, stale, health>>

\* Mutated form: only the sessions of active accounts are cleaned up.
CleanupOfActive ==
    /\ stale # {}
    /\ open' = [a \in Accounts |-> IF a \in Active THEN open[a] \ stale ELSE open[a]]
    /\ stale' = stale \ UNION {open[a] : a \in Active}
    /\ UNCHANGED <<world, run, health>>

\* cleanup_stale_sessions, daily: ends every session older than an hour, whatever
\* its account and its peer.
CleanupStaleSessions ==
    /\ stale # {}
    /\ open' = [a \in Accounts |-> open[a] \ stale]
    /\ stale' = {}
    /\ UNCHANGED <<world, run, health>>

-----------------------------------------------------------------------------
(* check_vpn_server_health *)

ServerFails ==
    /\ up' = ~up
    /\ UNCHANGED <<world, open, stale, run, server, check>>

\* Mutated form: only ACTIVE servers are looked at.
LoadActiveServers ==
    /\ check = "none"
    /\ server = "ACTIVE"
    /\ check' = server
    /\ UNCHANGED <<world, open, stale, run, server, up>>

LoadServers ==
    /\ check = "none"
    /\ check' = server
    /\ UNCHANGED <<world, open, stale, run, server, up>>

\* Healthy and degraded, or unhealthy and active: the status changes.
CheckServerHealth ==
    /\ check # "none"
    /\ server' = IF up /\ check = "DEGRADED" THEN "ACTIVE"
                 ELSE IF ~up /\ check = "ACTIVE" THEN "DEGRADED" ELSE server
    /\ check' = "none"
    /\ UNCHANGED <<world, open, stale, run, up>>

-----------------------------------------------------------------------------

Next ==
    \/ \E a \in Accounts : PeerConnects(a) \/ UpdateVpnAccount(a) \/ Age(a)
    \/ \E r \in Runs : Poll(r) \/ Load(r) \/ Commit(r) \/ Die(r)
    \/ CleanupStaleSessions
    \/ ServerFails \/ LoadServers \/ CheckServerHealth

\* Time passes, and the beat starts the clean-up and the health check.
Fairness ==
    /\ \A a \in Accounts : WF_vars(Age(a))
    /\ WF_vars(CleanupStaleSessions)
    /\ WF_vars(LoadServers) /\ WF_vars(CheckServerHealth)

Spec == Init /\ [][Next]_vars /\ Fairness

-----------------------------------------------------------------------------
(* Properties *)

\* Sync runs that overlap may each open a session for a connection, but never
\* more than that: an account has at most one CONNECTED session per run there
\* can be, and a single one where runs do not overlap.
OneSessionPerRun ==
    \A a \in Accounts : Cardinality(open[a]) <= Cardinality(Runs)

\* No session stays CONNECTED for ever: not the duplicates the sync never looks
\* at, not those of accounts that were disabled, and not those of peers that
\* left the interface.
SessionsEnd ==
    \A a \in Accounts : \A i \in Ids : i \in open[a] ~> i \notin open[a]

\* A server that answers for good does not stay degraded, whenever it failed.
ServersRecover == <>[]up => <>[](server = "ACTIVE")

-----------------------------------------------------------------------------
(* The inductive invariant *)

Opening(a) == {r \in Runs : a \in run[r].opens}

\* Sessions of an account, there or about to be, number at most one per run.
OpenOrOpening ==
    \A a \in Accounts : Cardinality(open[a]) + Cardinality(Opening(a)) <= Cardinality(Runs)

IInv == TypeOK /\ OpenOrOpening
=============================================================================
