----------------------------- MODULE XrayConfig -----------------------------
(***************************************************************************)
(* The VLESS users in Xray's config.json: XrayService's operations on the  *)
(* file, which is read, changed in memory, truncated and written again.    *)
(*                                                                         *)
(* An operation may die at any point; one that dies after open(.., "w")    *)
(* leaves a file json.load refuses, and with it every later suspension and *)
(* restoration fails until write_server_config writes a whole new file.    *)
(* Nothing keeps two operations apart: the later write takes back what the *)
(* earlier one changed, and two that have the file open at the same time   *)
(* write over each other's text.                                           *)
(***************************************************************************)
CONSTANTS
    Users,           \* UUIDs of VLESS users
    Lists,           \* bound: the lists of users a config is synced to or built from
    Main, Extra,     \* the generated VLESS inbound; an extra one, made by hand
    Workers,         \* processes that use the service
    NoList,          \* an inbound whose settings have no "clients"
    Missing, Torn    \* there is no file; the file is not JSON

Vless == {Main, Extra}
Tags == Vless \union {"api"}
Config == [Tags -> (SUBSET Users) \union {NoList}]

\* What the proofs assume of the constants.
XrayAssumption ==
    /\ Lists \subseteq SUBSET Users
    /\ Main # Extra /\ "api" \notin Vless
    /\ \A users \in SUBSET Users : NoList # users
    /\ Missing \notin Config /\ Torn \notin Config /\ Missing # Torn

VARIABLES
    file,     \* config.json
    job,      \* the operation of each worker
    told,     \* what each user has been told that nothing has put in doubt since
    mixed,    \* workers whose operation has overlapped another one
    clashed   \* workers whose open file was open to another one as well

vars == <<file, job, told, mixed, clashed>>

Ops == {"suspend", "restore", "add", "remove", "sync", "write", "create"}
Job == [op: Ops, users: SUBSET Users, at: {"idle", "read", "truncated"}, conf: Config]

NoConfig == [t \in Tags |-> NoList]
Idle == [op |-> "write", users |-> {}, at |-> "idle", conf |-> NoConfig]

TypeOK ==
    /\ file \in Config \union {Missing, Torn}
    /\ job \in [Workers -> Job]
    /\ told \in [Users -> {"nothing", "suspended", "restored"}]
    /\ mixed \subseteq Workers /\ clashed \subseteq Workers

-----------------------------------------------------------------------------
(* What is done to a config *)

Clients(c, t) == IF c[t] = NoList THEN {} ELSE c[t]

\* build_full_server_config: one VLESS inbound and the API's.
FullServerConfig(users) == [t \in Tags |-> IF t = Main THEN users ELSE NoList]

\* Mutated form: only the inbound Xray was generated with is looked at.
SuspendInMain(c, users) == [c EXCEPT ![Main] = Clients(c, Main) \ users]

\* Every inbound gets a list without the user.
SuspendIn(c, users) == [t \in Tags |-> Clients(c, t) \ users]

\* Where a VLESS inbound has no list, the user is added to a list nobody keeps.
RestoreIn(c, users) ==
    [t \in Tags |-> IF t \in Vless /\ c[t] # NoList THEN c[t] \union users ELSE c[t]]

\* add_user_via_config, remove_user_via_config and sync_users_to_config know one
\* inbound only.
AddTo(c, users) == [c EXCEPT ![Main] = Clients(c, Main) \union users]
RemoveFrom(c, users) == [c EXCEPT ![Main] = Clients(c, Main) \ users]
SyncTo(c, users) == [c EXCEPT ![Main] = users]

Edited(j) ==
    CASE j.op = "suspend" -> SuspendIn(j.conf, j.users)
      [] j.op = "restore" -> RestoreIn(j.conf, j.users)
      [] j.op = "add" -> AddTo(j.conf, j.users)
      [] j.op = "remove" -> RemoveFrom(j.conf, j.users)
      [] j.op = "sync" -> SyncTo(j.conf, j.users)
      [] j.op \in {"write", "create"} -> FullServerConfig(j.users)

\* The users an operation is about.
Concerned(op, users) == IF op \in {"sync", "write"} THEN Users ELSE users

\* What it tells of them.
Word(op) ==
    CASE op = "suspend" -> "suspended"
      [] op \in {"restore", "create"} -> "restored"
      [] OTHER -> "nothing"

\* An operation that overlapped another one may not have the last word, whatever it
\* tells.
Tell(op, users, overlapped) ==
    told' = [u \in Users |-> IF u \notin Concerned(op, users) THEN told[u]
                             ELSE IF overlapped THEN "nothing" ELSE Word(op)]

-----------------------------------------------------------------------------

Init ==
    /\ file \in {Missing} \union {[t \in Tags |-> IF t = Main THEN {}
                                                ELSE IF t = Extra THEN l ELSE NoList] :
                                     l \in {NoList, {}}}
    /\ job = [w \in Workers |-> Idle]
    /\ told = [u \in Users |-> "nothing"]
    /\ mixed = {} /\ clashed = {}

Busy == {w \in Workers : job[w].at # "idle"}
Writers == {w \in Workers : job[w].at = "truncated"}

Begins(w, j) ==
    /\ job[w].at = "idle"
    /\ job' = [job EXCEPT ![w] = j]
    /\ mixed' = IF Busy = {} THEN mixed ELSE mixed \union Busy \union {w}
    /\ UNCHANGED <<file, told, clashed>>

Ends(w) ==
    /\ job' = [job EXCEPT ![w] = Idle]
    /\ mixed' = mixed \ {w} /\ clashed' = clashed \ {w}

\* No file: a suspension has nothing to do, a restoration writes a full config.
SuspendWithoutFile(u) ==
    /\ file = Missing
    /\ Tell("suspend", {u}, Busy # {})
    /\ mixed' = mixed \union Busy
    /\ UNCHANGED <<file, job, clashed>>

RestoreWithoutFile(w, u) ==
    /\ file = Missing
    /\ Begins(w, [Idle EXCEPT !.op = "create", !.users = {u}, !.at = "read"])

\* The file is read; a torn one is an error, and nothing happens.
Begin(w, op, users) ==
    /\ file \in Config
    /\ Begins(w, [op |-> op, users |-> users, at |-> "read", conf |-> file])

\* write_server_config with a config built anew, whatever the file is.
BeginWrite(w, users) ==
    Begins(w, [Idle EXCEPT !.op = "write", !.users = users, !.at = "read"])

\* Nobody to remove, or everybody there already.
NoChange(j) ==
    \/ j.op = "suspend" /\ \A t \in Tags : Clients(j.conf, t) \intersect j.users = {}
    \/ j.op = "restore" /\ \A t \in Vless : j.users \subseteq Clients(j.conf, t)

\* The file is left alone.
NothingToDo(w) ==
    LET j == job[w] IN
    /\ j.at = "read"
    /\ NoChange(j)
    /\ Tell(j.op, j.users, w \in mixed)
    /\ Ends(w)
    /\ UNCHANGED file

\* open(config_path, "w").  Where another one has the file open, what it will say of
\* anybody is anybody's guess.
Truncate(w) ==
    LET j == job[w] IN
    /\ j.at = "read"
    /\ ~NoChange(j)
    /\ file' = Torn
    /\ job' = [job EXCEPT ![w].at = "truncated", ![w].conf = Edited(j)]
    /\ clashed' = IF Writers = {} THEN clashed ELSE clashed \union Writers \union {w}
    /\ told' = IF Writers = {} THEN told ELSE [u \in Users |-> "nothing"]
    /\ UNCHANGED mixed

\* json.dump.  Each handle writes at its own place: over a longer text of another
\* one, a shorter text leaves its tail, and no JSON.
Dump(w) ==
    LET j == job[w] IN
    /\ j.at = "truncated"
    /\ \/ file' = j.conf
       \/ w \in clashed /\ file' = Torn
    /\ Tell(j.op, j.users, w \in mixed)
    /\ Ends(w)

\* An operation dies, or raises while it writes, and what it has written so far
\* may have torn what another one wrote.
Crash(w) ==
    /\ job[w].at # "idle"
    /\ \/ file' = file
       \/ w \in clashed /\ file' = Torn
    /\ Ends(w)
    /\ UNCHANGED told

Next ==
    \/ \E u \in Users : SuspendWithoutFile(u)
    \/ \E w \in Workers :
         \/ \E u \in Users : RestoreWithoutFile(w, u)
         \/ \E u \in Users : \E op \in {"suspend", "restore", "add", "remove"} : Begin(w, op, {u})
         \/ \E users \in Lists : Begin(w, "sync", users) \/ BeginWrite(w, users)
         \/ NothingToDo(w) \/ Truncate(w) \/ Dump(w) \/ Crash(w)

Spec == Init /\ [][Next]_vars

-----------------------------------------------------------------------------
(* Properties *)

\* What is told of a user is true of a config.
True(c, word, u) ==
    /\ word = "suspended" => \A t \in Tags : u \notin Clients(c, t)
    /\ word = "restored" => u \in Clients(c, Main)

\* What an operation that overlapped no other told of a user holds of every file
\* that can be read, through all later operations on other users, those that died and
\* those that overlapped each other: a suspended user is in no inbound, a restored
\* one in the generated inbound.  Only two that had the file open at once put it in
\* doubt.
ToldHolds == file \in Config => \A u \in Users : True(file, told[u], u)

-----------------------------------------------------------------------------
(* The inductive invariant *)

\* Operations that are under way at the same time overlap, and two that have the
\* file open clash.
Overlaps ==
    /\ clashed \subseteq mixed /\ mixed \subseteq Busy
    /\ \A v, w \in Busy : v # w => v \in mixed
    /\ \A v, w \in Writers : v # w => v \in clashed
    /\ clashed # {} => \A u \in Users : told[u] = "nothing"

\* The generated inbound has a list, and nobody is restored without a file.
HasMain == file \in Config => file[Main] # NoList
NothingRestored == file = Missing => \A u \in Users : told[u] # "restored"

\* What an operation has read is true of what was told, and is what the file says
\* unless it overlaps; what it will write says what it will tell.
Knows(w) ==
    LET j == job[w] us == Concerned(j.op, j.users) IN
    /\ j.at = "read" /\ j.op = "create" => \A u \in Users : told[u] # "restored"
    /\ j.at = "read" /\ j.op \notin {"write", "create"} =>
         /\ j.conf[Main] # NoList
         /\ \A u \in Users : True(j.conf, told[u], u)
         /\ w \notin mixed => file = j.conf
    /\ j.at = "truncated" =>
         /\ j.conf[Main] # NoList
         /\ \A u \in us : True(j.conf, Word(j.op), u)
         /\ \A u \in Users \ us : True(j.conf, told[u], u)

IInv ==
    /\ TypeOK /\ ToldHolds
    /\ Overlaps /\ HasMain /\ NothingRestored
    /\ \A w \in Workers : Knows(w)
=============================================================================
