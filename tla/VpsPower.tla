------------------------------ MODULE VpsPower ------------------------------
(***************************************************************************)
(* Power states: what each virtual machine does and what the power_status  *)
(* column of its vps_instances row says.                                   *)
(*                                                                         *)
(* Power actions, reinstalls and rollbacks ask Proxmox first and write the *)
(* status they expect; the status syncs read Proxmox and write what they   *)
(* saw.  No lock or version protects the row, guests and operators change  *)
(* machines on their own, and Proxmox works its tasks off in its own time. *)
(* The model keeps the set of instances fixed: VpsFleet is about which     *)
(* machines exist.                                                         *)
(***************************************************************************)
EXTENDS Naturals, Sequences

CONSTANTS
    N,          \* instances 1..N, oldest first
    Requests,   \* sessions of HTTP requests, and of tasks that stop a VM
    FullSync,   \* the session of the beat's sync_all_vps runs
    StatusSync, \* the session of the beat's sync_vps_status runs
    Powers,     \* the power actions that are asked for
    Wild,       \* what guests and operators may bring a machine to
    Nil

Sessions == Requests \union {FullSync, StatusSync}
Instances == 1..N
Machine == {"running", "stopped", "paused", "suspended", "absent"}
Status == {"RUNNING", "STOPPED", "SUSPENDED"}   \* VpsPowerStatus

ASSUME PowerAssumption ==
    /\ N \in Nat \ {0}
    /\ {FullSync, StatusSync} \intersect Requests = {}
    /\ FullSync # StatusSync
    /\ Wild \subseteq Machine
    /\ Powers \subseteq {"start", "stop", "shutdown", "reboot", "reset", "suspend", "resume"}
    /\ Nil \notin Nat \union Machine \union Status

VARIABLES
    actual,   \* what each machine does
    pending,  \* the state a Proxmox task is taking each machine to, or Nil
    status,   \* the committed power_status column
    job,      \* what each session is doing
    calm      \* from now on nobody asks for anything and Proxmox answers

vars == <<actual, pending, status, job, calm>>

\* A session's task, the instance it is at, the Proxmox calls left, the value
\* it is about to write and the column values it loaded (its identity map).
Kinds == {"none", "change", "sync", "sync_vps_status", "sync_all_vps"}
Job(Calls) ==
    [kind: Kinds, at: {"call", "read", "store", "gone"}, inst: Instances \union {Nil},
     todo: Calls, val: Status \union {Nil}, seen: [Instances -> Status \union {Nil}]]

Calls == {"start", "stop", "shutdown", "reboot", "reset", "suspend", "resume",
          "config", "rollback", "rollback_start"}

Nothing == [i \in Instances |-> Nil]
Doing(k, at, i, todo, val, seen) ==
    [kind |-> k, at |-> at, inst |-> i, todo |-> todo, val |-> val, seen |-> seen]
Idle == Doing("none", "call", Nil, <<>>, Nil, Nothing)

TypeOK ==
    /\ actual \in [Instances -> Machine]
    /\ pending \in [Instances -> Machine \union {Nil}]
    /\ status \in [Instances -> Status]
    /\ job \in [Sessions -> Job(Seq(Calls))]
    /\ calm \in BOOLEAN

Init ==
    /\ actual = [i \in Instances |-> "running"]
    /\ pending = Nothing
    /\ status = [i \in Instances |-> "RUNNING"]
    /\ job = [w \in Sessions |-> Idle]
    /\ calm = FALSE

IsIdle(w) == job[w].kind = "none"
Finish(w) == job' = [job EXCEPT ![w] = Idle]

-----------------------------------------------------------------------------
(* Proxmox *)

\* The state a call takes the machine to.
Target(c) ==
    CASE c \in {"start", "reboot", "reset", "resume", "rollback_start"} -> "running"
      [] c \in {"stop", "shutdown", "rollback"} -> "stopped"
      [] c = "suspend" -> "suspended"

\* The client's _require_running, _require_stopped and _require_suspended, and
\* what Proxmox itself asks of a shutdown, a reset and a rollback.
Accepts(i, c) ==
    /\ actual[i] # "absent"
    /\ c \in {"stop", "shutdown", "reboot", "reset", "suspend"} => actual[i] = "running"
    /\ c = "start" => actual[i] = "stopped"
    /\ c = "resume" => actual[i] = "suspended"

\* A task ends, well or not.
TaskEnds(i) ==
    /\ pending[i] # Nil
    /\ actual' \in {actual, [actual EXCEPT ![i] = pending[i]]}
    /\ pending' = [pending EXCEPT ![i] = Nil]
    /\ UNCHANGED <<status, job, calm>>

\* A guest shuts down, an operator uses the Proxmox console, a VM is removed.
Outside(i, m) ==
    /\ ~calm
    /\ actual[i] # m
    /\ actual' = [actual EXCEPT ![i] = m]
    /\ UNCHANGED <<pending, status, job, calm>>

-----------------------------------------------------------------------------
(* power_action, reinstall, rollback_snapshot *)

Begin(w, i, todo, val) ==
    /\ ~calm
    /\ IsIdle(w)
    /\ job' = [job EXCEPT ![w] =
                 Doing("change", "call", i, todo, val, [Nothing EXCEPT ![i] = status[i]])]
    /\ UNCHANGED <<actual, pending, status, calm>>

\* The status power_action will record for an action.
NewStatus(a) ==
    CASE a \in {"start", "reboot", "reset", "resume"} -> "RUNNING"
      [] a \in {"stop", "shutdown"} -> "STOPPED"
      [] a = "suspend" -> "SUSPENDED"

PowerAction(w, i) == \E a \in Powers : Begin(w, i, <<a>>, NewStatus(a))

\* reinstall stops the machine only if the row says that it runs, and writes a
\* configuration if the request brings one.
Reinstall(w, i) ==
    LET stop == IF status[i] = "RUNNING" THEN <<"stop">> ELSE <<>> IN
    \E updates \in {<<>>, <<"config">>} :
        Begin(w, i, stop \o updates \o <<"start">>, "RUNNING")

RollbackSnapshot(w, i) ==
    \/ Begin(w, i, <<"rollback_start">>, "RUNNING")
    \/ Begin(w, i, <<"rollback">>, "STOPPED")

\* The next call of an operation: refused, which ends the request with nothing
\* written, or accepted.  Nobody waits for the task or asks how it went.
Call(w) ==
    LET i == job[w].inst
        c == Head(job[w].todo)
        left == Tail(job[w].todo)
    IN
    /\ job[w].kind = "change" /\ job[w].at = "call"
    /\ \/ Finish(w) /\ UNCHANGED pending
       \/ /\ pending[i] = Nil
          /\ Accepts(i, c)
          /\ pending' = [pending EXCEPT ![i] = IF c = "config" THEN Nil ELSE Target(c)]
          /\ job' = [job EXCEPT ![w].todo = left,
                                ![w].at = IF left = <<>> THEN "store" ELSE "call"]
    /\ UNCHANGED <<actual, status, calm>>

-----------------------------------------------------------------------------
(* sync_status, and the tasks that run it for every instance *)

\* The endpoint: a session that looks at one instance.
SyncStatus(w, i) ==
    /\ ~calm
    /\ IsIdle(w)
    /\ job' = [job EXCEPT ![w] =
                 Doing("sync", "read", i, <<>>, Nil, [Nothing EXCEPT ![i] = status[i]])]
    /\ UNCHANGED <<actual, pending, status, calm>>

\* sync_all_vps and sync_vps_status load all rows, newest first.
SyncEach(w, k) ==
    /\ IsIdle(w)
    /\ job' = [job EXCEPT ![w] = Doing(k, "read", N, <<>>, Nil, status)]
    /\ UNCHANGED <<actual, pending, status, calm>>

\* status_map of sync_status: a paused machine counts as stopped, and so does
\* one that is not there.
Mapped(m) ==
    CASE m = "running" -> "RUNNING"
      [] m = "suspended" -> "SUSPENDED"
      [] m \in {"stopped", "paused", "absent"} -> "STOPPED"

Reads(w, m, v) ==
    /\ job[w].at = "read"
    /\ \/ /\ m # "absent"
          /\ job' = [job EXCEPT ![w].at = "store", ![w].val = v]
       \/ /\ m = "absent" \/ ~calm
          /\ job' = [job EXCEPT ![w].at = "gone", ![w].val = "STOPPED"]
    /\ UNCHANGED <<actual, pending, status, calm>>

\* Mutated form: a paused machine is taken for a suspended one.
ReadVmPausedSuspended(w) ==
    LET m == actual[job[w].inst] IN
    Reads(w, m, IF m = "paused" THEN "SUSPENDED" ELSE Mapped(m))

\* get_vm_status: any error answer of the API counts as a missing machine.
ReadVm(w) == LET m == actual[job[w].inst] IN Reads(w, m, Mapped(m))

\* The commit: the session writes the column only if the value differs from
\* the one it loaded.
Commit(w, changes, more) ==
    LET i == job[w].inst
        v == job[w].val
    IN
    /\ job[w].at \in {"store", "gone"}
    /\ status' = IF changes /\ v # job[w].seen[i] THEN [status EXCEPT ![i] = v] ELSE status
    /\ IF more
         THEN job' = [job EXCEPT ![w] =
                        Doing(job[w].kind, "read", i - 1, <<>>, Nil, [job[w].seen EXCEPT ![i] = v])]
         ELSE Finish(w)
    /\ UNCHANGED <<actual, pending, calm>>

\* sync_all_vps goes to the next instance whatever happened; sync_vps_status,
\* for a missing machine, sets a power status that does not exist and fails.
GoesOn(w) ==
    /\ job[w].kind \in {"sync_vps_status", "sync_all_vps"}
    /\ job[w].at = "gone" => job[w].kind = "sync_all_vps"
    /\ job[w].inst > 1

\* Mutated forms: sync_status raises for a missing machine before it commits;
\* sync_all_vps lets that exception end its loop.
StoreDropsMissing(w) == Commit(w, job[w].at # "gone", GoesOn(w))
StoreAbortsOnMissing(w) == Commit(w, TRUE, GoesOn(w) /\ job[w].at # "gone")

Store(w) == Commit(w, TRUE, GoesOn(w))

\* The session's process or its database connection dies.
Crash(w) ==
    /\ ~calm
    /\ ~IsIdle(w)
    /\ Finish(w)
    /\ UNCHANGED <<actual, pending, status, calm>>

CalmDown ==
    /\ ~calm
    /\ calm' = TRUE
    /\ UNCHANGED <<actual, pending, status, job>>

Step(w) == Call(w) \/ ReadVm(w) \/ Store(w)

Next ==
    \/ \E w \in Requests, i \in Instances :
         \/ PowerAction(w, i)
         \/ Reinstall(w, i)
         \/ RollbackSnapshot(w, i)
         \/ SyncStatus(w, i)
    \/ SyncEach(FullSync, "sync_all_vps")
    \/ SyncEach(StatusSync, "sync_vps_status")
    \/ \E w \in Sessions : Step(w) \/ Crash(w)
    \/ \E i \in Instances : TaskEnds(i)
    \/ \E i \in Instances, m \in Wild : Outside(i, m)
    \/ CalmDown

\* A request or task that has begun goes on, Proxmox ends its tasks, and the
\* beat starts both syncs again and again.
Fairness ==
    /\ \A w \in Sessions : WF_vars(Step(w))
    /\ \A i \in Instances : WF_vars(TaskEnds(i))
    /\ WF_vars(SyncEach(FullSync, "sync_all_vps"))
    /\ WF_vars(SyncEach(StatusSync, "sync_vps_status"))

Spec == Init /\ [][Next]_vars /\ Fairness

-----------------------------------------------------------------------------
(* Properties *)

Right(i) == status[i] = Mapped(actual[i])

\* Once nobody interferes, every row comes to say what its machine does, and
\* stays right: no sync with an old reading or an old row has the last word.
Converges == <>[]calm => <>[](\A i \in Instances : Right(i))

\* Session w may still change machine i or write something untrue of it.
Stale(w, i) ==
    \/ job[w].kind = "change" /\ job[w].inst = i
       /\ (job[w].at = "call" \/ job[w].val # Mapped(actual[i]))
    \/ job[w].at \in {"store", "gone"} /\ job[w].inst = i /\ job[w].val # Mapped(actual[i])

Settled(i) == calm /\ pending[i] = Nil /\ \A w \in Sessions : ~Stale(w, i)

\* When an instance has settled with its row right, no step of a sync makes the
\* row wrong or unsettles it again.
SettledStaysRight ==
    [][\A i \in Instances : Settled(i) /\ Right(i) => (Settled(i) /\ Right(i))']_vars

-----------------------------------------------------------------------------
(* The inductive invariant *)

\* A session at work is at an instance; an operation that still calls has calls
\* left, and one that is about to write has what it writes.
Formed(w) ==
    /\ job[w].kind # "none" => job[w].inst # Nil
    /\ job[w].at # "call" => job[w].kind # "none"
    /\ job[w].at \in {"store", "gone"} => job[w].val # Nil
    /\ job[w].kind = "change" =>
         /\ job[w].at \in {"call", "store"} /\ job[w].val # Nil
         /\ job[w].at = "call" => job[w].todo # <<>>

IInv == TypeOK /\ \A w \in Sessions : Formed(w)
=============================================================================
