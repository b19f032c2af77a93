------------------------------ MODULE VpsFleet ------------------------------
(***************************************************************************)
(* The VPS fleet: which virtual machines exist on the Proxmox cluster and  *)
(* which rows of vps_instances claim them.                                 *)
(*                                                                         *)
(* VpsInstanceService.provision, clone and decommission each talk to two   *)
(* stores that share no transaction - the cluster and PostgreSQL - in      *)
(* several awaits, and any number of HTTP requests, bot callbacks and      *)
(* Celery tasks run them at once.  A step of this module is the code       *)
(* between two awaits on which another request can interleave.             *)
(***************************************************************************)
EXTENDS Naturals, FiniteSets

CONSTANTS
    Services,   \* ids of billing services
    Instances,  \* the uuid4 values new vps_instances rows draw their id from
    Vmids,      \* the VMIDs the model considers: 100 up to a bound
    Nodes,      \* Proxmox nodes; VMIDs are unique across the whole cluster
    Requests,   \* sessions that may run an operation: requests, tasks
    NoVm,       \* a VMID no VM uses
    NoRow,      \* an instance id without a row
    Nil         \* an unset field of a request

Vm == [svc: Services, node: Nodes]
Row == [svc: Services, node: Nodes, vmid: Vmids]

ASSUME FleetAssumption ==
    /\ Vmids \subseteq Nat
    /\ NoVm \notin Vm
    /\ NoRow \notin Row
    /\ Nil \notin Services \union Nodes \union Vmids \union Instances

VARIABLES
    live,  \* services that still have a row in services
    vm,    \* the cluster: the VM under each VMID (its name carries the service)
    dying, \* VMIDs with a destroy task that Proxmox accepted and still runs
    rows,  \* the committed vps_instances table, by instance id
    used,  \* instance ids drawn so far
    job,   \* what each request is doing
    marred \* history: VMIDs at which a decommission was cut short or overlapped

vars == <<live, vm, dying, rows, used, job, marred>>

Job == [at: {"idle", "pick", "create", "insert", "destroy", "drop", "cascade"},
        svc: Services \union {Nil},
        node: Nodes \union {Nil},
        vmid: Vmids \union {Nil},
        src: Vmids \union {Nil},      \* the VM a clone copies
        inst: Instances \union {Nil}]

\* A request at point `at` of an operation, with the fields it has set.
At(at, s, n, v, src, i) ==
    [at |-> at, svc |-> s, node |-> n, vmid |-> v, src |-> src, inst |-> i]

Idle == At("idle", Nil, Nil, Nil, Nil, Nil)

TypeOK ==
    /\ live \subseteq Services
    /\ vm \in [Vmids -> Vm \union {NoVm}]
    /\ dying \subseteq Vmids
    /\ rows \in [Instances -> Row \union {NoRow}]
    /\ used \subseteq Instances
    /\ job \in [Requests -> Job]
    /\ marred \subseteq Vmids

Init ==
    /\ live = Services
    /\ vm = [v \in Vmids |-> NoVm]
    /\ dying = {}
    /\ rows = [i \in Instances |-> NoRow]
    /\ used = {}
    /\ job = [r \in Requests |-> Idle]
    /\ marred = {}

Finish(r) == job' = [job EXCEPT ![r] = Idle]

-----------------------------------------------------------------------------
(* provision and clone *)

\* provision() with the VMID left out, or given by the administrator.  Nothing
\* looks whether the service exists or already has an instance.
BeginProvision(r, s, n) ==
    /\ job[r].at = "idle"
    /\ \/ job' = [job EXCEPT ![r] = At("pick", s, n, Nil, Nil, Nil)]
       \/ \E v \in Vmids :
            job' = [job EXCEPT ![r] = At("create", s, n, v, Nil, Nil)]
    /\ UNCHANGED <<live, vm, dying, rows, used, marred>>

\* clone() reads the source row and goes to its node.
BeginClone(r, i, s) ==
    /\ job[r].at = "idle"
    /\ rows[i] # NoRow
    /\ job' = [job EXCEPT ![r] =
                 At("pick", s, rows[i].node, Nil, rows[i].vmid, Nil)]
    /\ UNCHANGED <<live, vm, dying, rows, used, marred>>

\* The VMIDs list_vms(node) reports: those on that node only.
ListVms(n) == {v \in Vmids : vm[v] # NoVm /\ vm[v].node = n}

IsFirstGap(v, taken) ==
    /\ v \notin taken
    /\ \A w \in Vmids : w < v => w \in taken

\* _next_available_vmid: the first gap in the listing; a listing that fails
\* counts as an empty one.
NextAvailableVmid(r) ==
    /\ job[r].at = "pick"
    /\ \E v \in Vmids, taken \in {ListVms(job[r].node), {}} :
         /\ IsFirstGap(v, taken)
         /\ job' = [job EXCEPT ![r].at = "create", ![r].vmid = v]
    /\ UNCHANGED <<live, vm, dying, rows, used, marred>>

\* Mutated form: the result of _execute_task is not looked at.
CreateVmUnchecked(r) ==
    LET v == job[r].vmid IN
    /\ job[r].at = "create"
    /\ job' = [job EXCEPT ![r].at = "insert"]
    /\ vm' = IF vm[v] = NoVm
               THEN [vm EXCEPT ![v] = [svc |-> job[r].svc, node |-> job[r].node]] ELSE vm
    /\ UNCHANGED <<live, dying, rows, used, marred>>

\* create_vm / clone_vm and the single look at the task's status.  Proxmox
\* refuses a VMID that exists anywhere in the cluster, and a missing source.
\* The request gives up unless the task is already finished and OK, though
\* an accepted task does create the VM.
CreateVm(r) ==
    LET v == job[r].vmid IN
    /\ job[r].at = "create"
    /\ \/ Finish(r) /\ UNCHANGED vm
       \/ /\ vm[v] = NoVm
          /\ job[r].src # Nil => /\ vm[job[r].src] # NoVm
                                 /\ vm[job[r].src].node = job[r].node
          /\ vm' = [vm EXCEPT ![v] = [svc |-> job[r].svc,
                                      node |-> job[r].node]]
          /\ \/ job' = [job EXCEPT ![r].at = "insert", ![r].src = Nil]
             \/ Finish(r)
    /\ UNCHANGED <<live, dying, rows, used, marred>>

\* Mutated form: service_id is a foreign key but not unique.
InsertableAnyService(s, v) ==
    /\ s \in live
    /\ \A j \in Instances : rows[j] # NoRow => rows[j].vmid # v

\* The constraints of vps_instances: service_id is a foreign key and unique,
\* proxmox_vmid is unique.
Insertable(s, v) ==
    /\ s \in live
    /\ \A j \in Instances : rows[j] # NoRow => /\ rows[j].svc # s
                                               /\ rows[j].vmid # v

\* The commit of the new row, or the IntegrityError that ends the request and
\* leaves the VM behind.
InsertRow(r) ==
    /\ job[r].at = "insert"
    /\ IF Insertable(job[r].svc, job[r].vmid)
         THEN \E i \in Instances \ used :
                /\ rows' = [rows EXCEPT ![i] = [svc |-> job[r].svc,
                                                node |-> job[r].node,
                                                vmid |-> job[r].vmid]]
                /\ used' = used \union {i}
         ELSE UNCHANGED <<rows, used>>
    /\ Finish(r)
    /\ UNCHANGED <<live, vm, dying, marred>>

-----------------------------------------------------------------------------
(* decommission: the endpoint, and cleanup_stale_vps for each stale instance *)

Deleting(r, i) == job[r].at \in {"destroy", "drop"} /\ job[r].inst = i

\* Nothing keeps two requests from decommissioning one instance at once.
BeginDecommission(r, i) ==
    /\ job[r].at = "idle"
    /\ rows[i] # NoRow
    /\ job' = [job EXCEPT ![r] =
                 At("destroy", rows[i].svc, rows[i].node, rows[i].vmid, Nil, i)]
    /\ marred' = IF \E q \in Requests : Deleting(q, i)
                  THEN marred \union {rows[i].vmid} ELSE marred
    /\ UNCHANGED <<live, vm, dying, rows, used>>

\* Mutated form: the VM is destroyed and the request returns before the row goes.
DestroyVmKeepsRow(r) ==
    /\ job[r].at = "destroy"
    /\ vm' = [vm EXCEPT ![job[r].vmid] = NoVm]
    /\ Finish(r)
    /\ UNCHANGED <<live, dying, rows, used, marred>>

\* Proxmox accepts the destroy task of v: the VM is gone before the single look
\* at the task, or some time later.
AcceptDestroy(v) ==
    \/ vm' = [vm EXCEPT ![v] = NoVm] /\ dying' = dying \ {v}
    \/ dying' = dying \union {v} /\ UNCHANGED vm

\* delete_vm.  A 404 counts as done, any other refusal ends the request; once
\* the task is accepted its result is not looked at, finished or not.  A lost
\* answer or a failed look at the task is no refusal the code handles: it ends
\* the request with the destroy accepted and the row in place.
DestroyVm(r) ==
    LET v == job[r].vmid
        found == vm[v] # NoVm /\ vm[v].node = job[r].node
        proceed == job' = [job EXCEPT ![r].at = "drop"] /\ UNCHANGED marred
    IN
    /\ job[r].at = "destroy"
    /\ \/ found /\ AcceptDestroy(v) /\ proceed
       \/ found /\ AcceptDestroy(v) /\ Finish(r) /\ marred' = marred \union {v}
       \/ ~found /\ proceed /\ UNCHANGED <<vm, dying>>
       \/ Finish(r) /\ UNCHANGED <<vm, dying, marred>>
    /\ UNCHANGED <<live, rows, used>>

\* A destroy task that nobody waits for ends: the VM is gone, or it is not.
DestroyTaskEnds(v) ==
    /\ v \in dying
    /\ dying' = dying \ {v}
    /\ vm' = [vm EXCEPT ![v] = NoVm] \/ UNCHANGED vm
    /\ UNCHANGED <<live, rows, used, job, marred>>

\* Nobody but r has to do with VMID v any more, and no row but r's claims it.
LeftAlone(r, v) ==
    /\ \A q \in Requests \ {r} :
          job[q].vmid = v => job[q].at \notin {"insert", "destroy", "drop"}
    /\ \A i \in Instances : rows[i] # NoRow /\ rows[i].vmid = v => i = job[r].inst

\* db.delete(instance); commit.  A row already gone is no error.
DropRow(r) ==
    LET v == job[r].vmid IN
    /\ job[r].at = "drop"
    /\ rows' = [rows EXCEPT ![job[r].inst] = NoRow]
    /\ Finish(r)
    /\ marred' = IF LeftAlone(r, v) THEN marred \ {v} ELSE marred
    /\ UNCHANGED <<live, vm, dying, used>>

-----------------------------------------------------------------------------
(* what happens around these operations *)

\* PATCH /instances/{id} with proxmox_node: the row changes, the VM does not.
UpdateInstanceNode(i, n) ==
    /\ rows[i] # NoRow
    /\ rows[i].node # n
    /\ rows' = [rows EXCEPT ![i].node = n]
    /\ UNCHANGED <<live, vm, dying, used, job, marred>>

\* hard_delete_tenant / hard_delete_user load the services with their instances.
\* The unit of work sets service_id of a loaded instance to NULL, which the
\* column forbids: the deletion goes on for a service without an instance only.
BeginHardDelete(r, s) ==
    /\ job[r].at = "idle"
    /\ s \in live
    /\ \A i \in Instances : rows[i] # NoRow => rows[i].svc # s
    /\ job' = [job EXCEPT ![r] = At("cascade", s, Nil, Nil, Nil, Nil)]
    /\ UNCHANGED <<live, vm, dying, rows, used, marred>>

\* DELETE FROM services: the ON DELETE CASCADE foreign key takes along an
\* instance inserted since it was loaded; Proxmox is not told.
CascadeDelete(r) ==
    /\ job[r].at = "cascade"
    /\ live' = live \ {job[r].svc}
    /\ rows' = [i \in Instances |->
                  IF rows[i] # NoRow /\ rows[i].svc = job[r].svc THEN NoRow ELSE rows[i]]
    /\ Finish(r)
    /\ UNCHANGED <<vm, dying, used, marred>>

\* The process running a request dies, or the connection to Proxmox or the
\* database does: what was done stays done.  At "drop" that is also a commit of
\* the deletion that the database refuses.
Crash(r) ==
    /\ job[r].at # "idle"
    /\ Finish(r)
    /\ marred' = IF job[r].at = "drop" /\ rows[job[r].inst] # NoRow
                  THEN marred \union {job[r].vmid} ELSE marred
    /\ UNCHANGED <<live, vm, dying, rows, used>>

Next ==
    \/ \E r \in Requests :
         \/ \E s \in Services, n \in Nodes : BeginProvision(r, s, n)
         \/ \E i \in Instances, s \in Services : BeginClone(r, i, s)
         \/ NextAvailableVmid(r)
         \/ CreateVm(r)
         \/ InsertRow(r)
         \/ \E i \in Instances : BeginDecommission(r, i)
         \/ DestroyVm(r)
         \/ DropRow(r)
         \/ \E s \in Services : BeginHardDelete(r, s)
         \/ CascadeDelete(r)
         \/ Crash(r)
    \/ \E v \in Vmids : DestroyTaskEnds(v)
    \/ \E i \in Instances, n \in Nodes : UpdateInstanceNode(i, n)

Spec == Init /\ [][Next]_vars

-----------------------------------------------------------------------------
(* Properties *)

\* Instance i is between the destruction of its VM and that of its row.
Dropping(i) == \E r \in Requests : job[r].at = "drop" /\ job[r].inst = i

Claims(i, v) == rows[i] # NoRow /\ rows[i].vmid = v

\* Every instance row names a VM that exists and was created for the row's own
\* service, except while decommission is between its two deletes: power
\* actions, snapshots and resizes never reach another customer's VM.  What is
\* excused is a VMID at which a decommission was cut short or overlapped, until
\* one runs to its end there.
RowsBacked ==
    \A i \in Instances :
        rows[i] # NoRow /\ ~Dropping(i) /\ rows[i].vmid \notin marred
            => vm[rows[i].vmid] # NoVm /\ vm[rows[i].vmid].svc = rows[i].svc

\* A request about to insert its row holds a VM made for its service that no
\* other request is about to claim, and a row in its way on proxmox_vmid is one
\* whose VM decommission has just destroyed; excused as above.
PendingClaims ==
    \A r \in Requests :
        job[r].at = "insert" /\ job[r].vmid \notin marred =>
            /\ vm[job[r].vmid] # NoVm
            /\ vm[job[r].vmid].svc = job[r].svc
            /\ \A q \in Requests \ {r} :
                  job[q].at = "insert" => job[q].vmid # job[r].vmid
            /\ \A i \in Instances : Claims(i, job[r].vmid) => Dropping(i)

\* A VM disappears only under a row whose decommission asked for it, and never
\* under another row or under a request about to insert one; excused as above.
DestroysAsked ==
    [][\A v \in Vmids \ marred :
         vm[v] # NoVm /\ vm'[v] = NoVm =>
            /\ \A i \in Instances : Claims(i, v) =>
                  \E r \in Requests : /\ Deleting(r, i)
                                      /\ job[r].vmid = v
                                      /\ vm[v].svc = job[r].svc
            /\ \A r \in Requests : job[r].at = "insert" => job[r].vmid # v
      ]_vars

\* A decommission destroys no VM that another instance's row claims: the
\* description of the endpoint, "Destroys the VM on Proxmox and removes the
\* database record."
DestroysOwnVm ==
    [][\A r \in Requests, i \in Instances :
         DestroyVm(r) /\ Claims(i, job[r].vmid) /\ vm'[job[r].vmid] # vm[job[r].vmid]
            => i = job[r].inst
      ]_vars

\* When every request has ended, each VM on the cluster is claimed by a row:
\* provision's docstring, "Provision a new VM on Proxmox and create the
\* corresponding VpsInstance database record."
NoOrphanVm ==
    (\A r \in Requests : job[r].at = "idle") =>
        \A v \in Vmids : vm[v] # NoVm => \E i \in Instances : Claims(i, v)

-----------------------------------------------------------------------------
(* The abstract specification the fleet implements *)

\* A row holds its VMID until decommission has dealt with the VM, or has been
\* cut short or overlapped there: the promise ends with that, the row does not.
Holds(i, v) == Claims(i, v) /\ ~Dropping(i) /\ v \notin marred

Lease == INSTANCE VmLease WITH
    Free <- Nil,
    lease <- [v \in Vmids |->
                IF \E i \in Instances : Holds(i, v)
                THEN rows[CHOOSE i \in Instances : Holds(i, v)].svc ELSE Nil],
    serving <- [v \in Vmids |->
                  IF vm[v] # NoVm /\ \E i \in Instances : Holds(i, v)
                  THEN vm[v].svc ELSE Nil]

\* provision, clone and decommission implement VmLease: each customer has one
\* machine of their own from the committed row to the destroyed VM.
ImplementsLease == Lease!Spec

-----------------------------------------------------------------------------
(* The inductive invariant *)

\* Two instances never share a VMID or a service.
RowsDistinct ==
    \A i, j \in Instances :
        rows[i] # NoRow /\ rows[j] # NoRow /\ i # j
            => rows[i].vmid # rows[j].vmid /\ rows[i].svc # rows[j].svc

\* Where nothing was marred, at most one request decommissions an instance.
DeletesSerial ==
    \A r, q \in Requests, i \in Instances :
        Deleting(r, i) /\ Deleting(q, i) /\ r # q
            => job[r].vmid = job[q].vmid /\ job[r].vmid \in marred

\* Where nothing was marred, the VM a decommission is about to destroy is still
\* the one its row named, and nobody else has come to claim it.
DestroyTargets ==
    \A r \in Requests :
        job[r].at = "destroy" /\ job[r].vmid \notin marred =>
            /\ vm[job[r].vmid] # NoVm
            /\ vm[job[r].vmid].svc = job[r].svc
            /\ \A i \in Instances :
                  Claims(i, job[r].vmid) => i = job[r].inst
            /\ \A q \in Requests : job[q].at = "insert" => job[q].vmid # job[r].vmid
            /\ \A q \in Requests \ {r} :
                  job[q].at = "destroy" => job[q].vmid # job[r].vmid
            /\ job[r].vmid \notin dying

\* A VM that is being destroyed still exists and, where nothing was marred, is
\* one no row holds and no request will claim.
DyingUnclaimed ==
    \A v \in dying :
        /\ vm[v] # NoVm
        /\ v \notin marred =>
             /\ \A i \in Instances : Claims(i, v) => Dropping(i) /\ vm[v].svc = rows[i].svc
             /\ \A r \in Requests : job[r].at = "insert" => job[r].vmid # v

\* What an ongoing decommission remembers of its row is still so.
DeletesRemember ==
    \A r \in Requests, i \in Instances :
        Deleting(r, i) /\ rows[i] # NoRow
            => rows[i].svc = job[r].svc /\ rows[i].vmid = job[r].vmid

FieldsSet ==
    \A r \in Requests :
        /\ job[r].at # "idle" => job[r].svc \in Services
        /\ job[r].at \notin {"idle", "cascade"} => job[r].node \in Nodes
        /\ job[r].at \in {"create", "insert", "destroy", "drop"} => job[r].vmid \in Vmids
        /\ job[r].at \in {"destroy", "drop"} => job[r].inst \in used

RowsUsed == \A i \in Instances : rows[i] # NoRow => i \in used

IInv ==
    /\ TypeOK
    /\ RowsUsed
    /\ FieldsSet
    /\ RowsDistinct
    /\ RowsBacked
    /\ PendingClaims
    /\ DeletesSerial
    /\ DestroyTargets
    /\ DyingUnclaimed
    /\ DeletesRemember
=============================================================================
