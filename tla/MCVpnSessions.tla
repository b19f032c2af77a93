--------------------------- MODULE MCVpnSessions ---------------------------
(***************************************************************************)
(* Small instances for TLC of what stands behind the VPN and DNS services: *)
(* VpnSessions and, beside it, XrayConfig and SmartDns.                    *)
(*                                                                         *)
(* The three share no state, so what holds of each alone holds of the      *)
(* whole: "part" names the one that moves, while the others keep an        *)
(* initial state.                                                          *)
(***************************************************************************)
EXTENDS VpnSessions, TLC

CONSTANTS
    Users, Lists, Main, Extra, Workers, NoList, Missing, Torn,
    Requests, DnsTasks, Contents, MaxProfiles, MaxRecords, Nil

VARIABLES
    part,
    file, work, told, mixed, clashed,
    profile, made, records, added, session, sent, raced

Xray == INSTANCE XrayConfig WITH job <- work

Dns == INSTANCE SmartDns WITH Tasks <- DnsTasks, job <- session

ASSUME VpnAssumption == SessionsAssumption /\ Xray!XrayAssumption /\ Dns!DnsAssumption

xrayVars == <<file, work, told, mixed, clashed>>
dnsVars == <<profile, made, records, added, session, sent, raced>>

MCInit ==
    /\ part \in {"sessions", "xray", "dns"}
    /\ Init /\ Xray!Init /\ Dns!Init
    /\ part # "xray" => file = Missing

MCNext ==
    \/ part = "sessions" /\ Next /\ UNCHANGED <<part, xrayVars, dnsVars>>
    \/ part = "xray" /\ Xray!Next /\ UNCHANGED <<part, vars, dnsVars>>
    \/ part = "dns" /\ Dns!Next /\ UNCHANGED <<part, vars, xrayVars>>

MCSpec ==
    /\ MCInit /\ [][MCNext]_<<part, vars, xrayVars, dnsVars>>
    /\ part = "sessions" => Fairness

\* XrayConfig treats its users alike, and its workers.  While the sessions move, it
\* is in an initial state, which no permutation changes: the temporal properties are
\* checked on the whole graph.
Symmetric == Permutations(Users) \union Permutations(Workers)

\* What an operation on config.json told of a user holds of the file.
ToldHolds == Xray!ToldHolds

\* A record that counts as synced says what was synced.
SyncedIsCurrent == Dns!SyncedIsCurrent

\* Every record belongs to the service's profile.
RecordsBelong == Dns!RecordsBelong
=============================================================================
