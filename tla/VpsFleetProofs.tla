--------------------------- MODULE VpsFleetProofs ---------------------------
(***************************************************************************)
(* Theorems of VpsFleet for every set of services, VMIDs, nodes, requests  *)
(* and instance ids, its refinement of VmLease included, and of VpsSpecs   *)
(* beside it for every set of sizes, resizes and status syncs.             *)
(***************************************************************************)
EXTENDS MCVpsFleet, TLAPS

\* The part of the invariant that says what a request holds at each point.
Typed == TypeOK /\ FieldsSet /\ RowsUsed

LEMMA TypedInit == Init => Typed
BY FleetAssumption DEF Init, Typed, TypeOK, FieldsSet, RowsUsed, Idle, At, Job

LEMMA TypedStep == Typed /\ [Next]_vars => Typed'
<1> USE FleetAssumption DEF Typed
<1> SUFFICES ASSUME Typed, [Next]_vars PROVE Typed'
  OBVIOUS
<1>1. ASSUME NEW r \in Requests, NEW s \in Services, NEW n \in Nodes,
             BeginProvision(r, s, n)
      PROVE  Typed'
  BY <1>1 DEF BeginProvision, TypeOK, FieldsSet, RowsUsed, Idle, At, Job
<1>2. ASSUME NEW r \in Requests, NEW i \in Instances, NEW s \in Services,
             BeginClone(r, i, s)
      PROVE  Typed'
  BY <1>2 DEF BeginClone, TypeOK, FieldsSet, RowsUsed, Idle, At, Job, Row
<1>3. ASSUME NEW r \in Requests, NextAvailableVmid(r) PROVE Typed'
  <2>1. PICK v \in Vmids : job' = [job EXCEPT ![r].at = "create", ![r].vmid = v]
    BY <1>3 DEF NextAvailableVmid
  <2>2. job[r] \in Job /\ job[r].at = "pick"
    BY <1>3 DEF NextAvailableVmid, TypeOK
  <2>3. job'[r].at = "create" /\ job'[r].vmid = v /\ job'[r].svc = job[r].svc /\ job'[r].node = job[r].node
    BY <2>1, <2>2 DEF TypeOK, Job
  <2>4. job'[r] \in Job
    BY <2>1, <2>2 DEF TypeOK, Job
  <2>5. TypeOK'
    BY <1>3, <2>1, <2>4 DEF NextAvailableVmid, TypeOK
  <2>6. FieldsSet'
    BY <1>3, <2>1, <2>3 DEF NextAvailableVmid, TypeOK, FieldsSet
  <2> QED
    BY <1>3, <2>5, <2>6 DEF NextAvailableVmid, RowsUsed
<1>4. ASSUME NEW r \in Requests, CreateVm(r) PROVE Typed'
  BY <1>4 DEF CreateVm, Finish, TypeOK, FieldsSet, RowsUsed, Idle, At, Job, Vm
<1>5. ASSUME NEW r \in Requests, InsertRow(r) PROVE Typed'
  BY <1>5 DEF InsertRow, Finish, TypeOK, FieldsSet, RowsUsed, Idle, At, Job, Row
<1>6. ASSUME NEW r \in Requests, NEW i \in Instances, BeginDecommission(r, i)
      PROVE  Typed'
  BY <1>6 DEF BeginDecommission, TypeOK, FieldsSet, RowsUsed, Idle, At, Job, Row
<1>7. ASSUME NEW r \in Requests, DestroyVm(r) PROVE Typed'
  BY <1>7 DEF DestroyVm, AcceptDestroy, Finish, TypeOK, FieldsSet, RowsUsed, Idle, At, Job
<1>8. ASSUME NEW r \in Requests, DropRow(r) PROVE Typed'
  BY <1>8 DEF DropRow, Finish, TypeOK, FieldsSet, RowsUsed, Idle, At, Job
<1>9. ASSUME NEW r \in Requests, Crash(r) PROVE Typed'
  BY <1>9 DEF Crash, Finish, TypeOK, FieldsSet, RowsUsed, Idle, At, Job
<1>10. ASSUME NEW v \in Vmids, DestroyTaskEnds(v) PROVE Typed'
  BY <1>10 DEF DestroyTaskEnds, TypeOK, FieldsSet, RowsUsed
<1>11. ASSUME NEW i \in Instances, NEW n \in Nodes, UpdateInstanceNode(i, n)
       PROVE  Typed'
  BY <1>11 DEF UpdateInstanceNode, TypeOK, FieldsSet, RowsUsed, Row
<1>12. ASSUME NEW r \in Requests, CascadeDelete(r) PROVE Typed'
  BY <1>12 DEF CascadeDelete, Finish, TypeOK, FieldsSet, RowsUsed, Idle, At, Job
<1>13. ASSUME NEW r \in Requests, NEW s \in Services, BeginHardDelete(r, s)
       PROVE  Typed'
  BY <1>13 DEF BeginHardDelete, TypeOK, FieldsSet, RowsUsed, Idle, At, Job
<1>14. CASE UNCHANGED vars
  BY <1>14 DEF vars, TypeOK, FieldsSet, RowsUsed
<1> QED
  BY <1>1, <1>2, <1>3, <1>4, <1>5, <1>6, <1>7, <1>8, <1>9, <1>10, <1>11,
     <1>12, <1>13, <1>14 DEF Next

\* Type correctness of the fleet: every operation of VpsInstanceService keeps
\* the cluster, the table and the requests well formed.
THEOREM TypeCorrect == Spec => []TypeOK
<1>1. Typed => TypeOK
  BY DEF Typed
<1> QED
  BY <1>1, TypedInit, TypedStep, PTL DEF Spec

-----------------------------------------------------------------------------

Safe ==
    /\ RowsDistinct
    /\ RowsBacked
    /\ PendingClaims
    /\ DeletesSerial
    /\ DestroyTargets
    /\ DyingUnclaimed
    /\ DeletesRemember

LEMMA SafeInit == Init => Safe
BY DEF Init, Safe, Idle, At, RowsDistinct, RowsBacked, PendingClaims, DeletesSerial,
       DestroyTargets, DyingUnclaimed, DeletesRemember, Deleting, Claims

LEMMA SafeStep ==
    ASSUME Typed, Typed', Safe, [Next]_vars
    PROVE  Safe'
<1> USE FleetAssumption DEF Typed, Safe
<1>1. ASSUME NEW r \in Requests, NEW s \in Services, NEW n \in Nodes, BeginProvision(r, s, n)
      PROVE  Safe'
  <2>1. RowsDistinct'
    BY <1>1 DEF BeginProvision, Idle, At, TypeOK, FieldsSet, RowsUsed, RowsDistinct
  <2>2. RowsBacked'
    BY <1>1 DEF BeginProvision, Idle, At, TypeOK, FieldsSet, RowsUsed, RowsBacked, Dropping
  <2>3. PendingClaims'
    BY <1>1 DEF BeginProvision, Idle, At, TypeOK, FieldsSet, RowsUsed, PendingClaims, RowsBacked, DestroyTargets, DyingUnclaimed, DeletesSerial, Claims, Dropping, Deleting
  <2>4. DeletesSerial'
    BY <1>1 DEF BeginProvision, Idle, At, TypeOK, FieldsSet, RowsUsed, DeletesSerial, Deleting
  <2>5. DestroyTargets'
    BY <1>1 DEF BeginProvision, Idle, At, TypeOK, FieldsSet, RowsUsed, DestroyTargets, DeletesSerial, DeletesRemember, RowsBacked, RowsDistinct, PendingClaims, DyingUnclaimed, Claims, Dropping, Deleting
  <2>6. DyingUnclaimed'
    BY <1>1 DEF BeginProvision, Idle, At, TypeOK, FieldsSet, RowsUsed, DyingUnclaimed, DestroyTargets, Claims, Dropping
  <2>7. DeletesRemember'
    BY <1>1 DEF BeginProvision, Idle, At, TypeOK, FieldsSet, RowsUsed, DeletesRemember, Deleting
  <2> QED
    BY <2>1, <2>2, <2>3, <2>4, <2>5, <2>6, <2>7 DEF Safe
<1>2. ASSUME NEW r \in Requests, NEW i \in Instances, NEW s \in Services, BeginClone(r, i, s)
      PROVE  Safe'
  <2>1. RowsDistinct'
    BY <1>2 DEF BeginClone, Idle, At, TypeOK, FieldsSet, RowsUsed, RowsDistinct
  <2>2. RowsBacked'
    BY <1>2 DEF BeginClone, Idle, At, TypeOK, FieldsSet, RowsUsed, RowsBacked, Dropping
  <2>3. PendingClaims'
    BY <1>2 DEF BeginClone, Idle, At, TypeOK, FieldsSet, RowsUsed, PendingClaims, RowsBacked, DestroyTargets, DyingUnclaimed, DeletesSerial, Claims, Dropping, Deleting
  <2>4. DeletesSerial'
    BY <1>2 DEF BeginClone, Idle, At, TypeOK, FieldsSet, RowsUsed, DeletesSerial, Deleting
  <2>5. DestroyTargets'
    BY <1>2 DEF BeginClone, Idle, At, TypeOK, FieldsSet, RowsUsed, DestroyTargets, DeletesSerial, DeletesRemember, RowsBacked, RowsDistinct, PendingClaims, DyingUnclaimed, Claims, Dropping, Deleting
  <2>6. DyingUnclaimed'
    BY <1>2 DEF BeginClone, Idle, At, TypeOK, FieldsSet, RowsUsed, DyingUnclaimed, DestroyTargets, Claims, Dropping
  <2>7. DeletesRemember'
    BY <1>2 DEF BeginClone, Idle, At, TypeOK, FieldsSet, RowsUsed, DeletesRemember, Deleting
  <2> QED
    BY <2>1, <2>2, <2>3, <2>4, <2>5, <2>6, <2>7 DEF Safe
<1>3. ASSUME NEW r \in Requests, NextAvailableVmid(r)
      PROVE  Safe'
  <2>1. RowsDistinct'
    BY <1>3 DEF NextAvailableVmid, TypeOK, FieldsSet, RowsUsed, RowsDistinct
  <2>2. RowsBacked'
    BY <1>3 DEF NextAvailableVmid, TypeOK, FieldsSet, RowsUsed, RowsBacked, Dropping
  <2>3. PendingClaims'
    BY <1>3 DEF NextAvailableVmid, TypeOK, FieldsSet, RowsUsed, PendingClaims, RowsBacked, DestroyTargets, DyingUnclaimed, DeletesSerial, Claims, Dropping, Deleting
  <2>4. DeletesSerial'
    BY <1>3 DEF NextAvailableVmid, TypeOK, FieldsSet, RowsUsed, DeletesSerial, Deleting
  <2>5. DestroyTargets'
    BY <1>3 DEF NextAvailableVmid, TypeOK, FieldsSet, RowsUsed, DestroyTargets, DeletesSerial, DeletesRemember, RowsBacked, RowsDistinct, PendingClaims, DyingUnclaimed, Claims, Dropping, Deleting
  <2>6. DyingUnclaimed'
    BY <1>3 DEF NextAvailableVmid, TypeOK, FieldsSet, RowsUsed, DyingUnclaimed, DestroyTargets, Claims, Dropping
  <2>7. DeletesRemember'
    BY <1>3 DEF NextAvailableVmid, TypeOK, FieldsSet, RowsUsed, DeletesRemember, Deleting
  <2> QED
    BY <2>1, <2>2, <2>3, <2>4, <2>5, <2>6, <2>7 DEF Safe
<1>4. ASSUME NEW r \in Requests, CreateVm(r)
      PROVE  Safe'
  <2> DEFINE v == job[r].vmid
  <2>1. /\ v \in Vmids /\ job[r].at = "create" /\ job[r] \in Job
        /\ UNCHANGED <<rows, dying, used, marred>>
    BY <1>4 DEF CreateVm, TypeOK, FieldsSet
  <2>2. \A q \in Requests \ {r} : job'[q] = job[q]
    BY <1>4 DEF CreateVm, Finish, TypeOK
  <2>3. \/ job'[r].at = "idle"
        \/ /\ job'[r].at = "insert" /\ job'[r].vmid = v /\ vm[v] = NoVm
           /\ vm'[v] # NoVm /\ vm'[v].svc = job'[r].svc
    BY <1>4, <2>1, FleetAssumption
       DEF CreateVm, Finish, Idle, At, TypeOK, FieldsSet, Job, Vm
  <2>4. \A w \in Vmids : vm[w] # NoVm => vm'[w] = vm[w]
    BY <1>4, <2>1 DEF CreateVm, TypeOK
  <2>5. \A i \in Instances : /\ Dropping(i)' <=> Dropping(i)
                            /\ \A q \in Requests : Deleting(q, i)' => Deleting(q, i) /\ q # r
    BY <2>1, <2>2, <2>3 DEF Dropping, Deleting
  <2>6. RowsDistinct'
    BY <2>1 DEF RowsDistinct
  <2>7. RowsBacked'
    BY <2>1, <2>4, <2>5 DEF RowsBacked, TypeOK, Row
  <2>8. PendingClaims'
    <3>1. v \notin marred =>
            \A i \in Instances : Claims(i, v) /\ vm[v] = NoVm => Dropping(i)
      BY DEF Claims, RowsBacked
    <3>2. \A q \in Requests : job[q].at = "insert" =>
            job[q].vmid \in Vmids /\ (job[q].vmid \notin marred => vm[job[q].vmid] # NoVm)
      BY DEF PendingClaims, FieldsSet
    <3> SUFFICES ASSUME NEW p \in Requests, job'[p].at = "insert", job'[p].vmid \notin marred'
                 PROVE  /\ vm'[job'[p].vmid] # NoVm
                        /\ vm'[job'[p].vmid].svc = job'[p].svc
                        /\ \A q \in Requests \ {p} :
                              job'[q].at = "insert" => job'[q].vmid # job'[p].vmid
                        /\ \A i \in Instances : Claims(i, job[p].vmid)' => Dropping(i)'
      BY DEF PendingClaims, Claims
    <3>3. CASE p = r
      <4>1. job'[r].vmid = v /\ vm[v] = NoVm /\ v \notin marred
        BY <2>1, <2>3, <3>3
      <4>2. \A q \in Requests \ {r} : job'[q].at = "insert" => job'[q].vmid # v
        BY <2>2, <3>2, <4>1
      <4>3. \A i \in Instances : Claims(i, v)' => Dropping(i)'
        BY <2>1, <2>5, <3>1, <4>1 DEF Claims
      <4> QED
        BY <2>3, <3>3, <4>1, <4>2, <4>3
    <3>4. CASE p # r
      <4>1. /\ job'[p] = job[p] /\ job[p].vmid \notin marred /\ job[p].at = "insert"
            /\ vm[job[p].vmid] # NoVm /\ vm'[job[p].vmid] = vm[job[p].vmid]
        BY <2>1, <2>2, <2>4, <3>2, <3>4
      <4>2. \A q \in Requests \ {p} :
              job'[q].at = "insert" => job'[q].vmid # job'[p].vmid
        BY <2>2, <2>3, <3>4, <4>1 DEF PendingClaims
      <4> QED
        BY <2>1, <2>5, <3>4, <4>1, <4>2 DEF PendingClaims, Claims
    <3> QED
      BY <3>3, <3>4
  <2>9. DeletesSerial'
    <3>1. \A i \in Instances, q \in Requests : Deleting(q, i)' => job'[q] = job[q]
      BY <2>2, <2>5
    <3> QED
      BY <2>1, <2>5, <3>1 DEF DeletesSerial
  <2>10. DestroyTargets'
    <3> SUFFICES ASSUME NEW p \in Requests, job'[p].at = "destroy", job'[p].vmid \notin marred'
                 PROVE  /\ vm'[job'[p].vmid] # NoVm
                        /\ vm'[job'[p].vmid].svc = job'[p].svc
                        /\ \A i \in Instances : Claims(i, job[p].vmid)' => i = job'[p].inst
                        /\ \A q \in Requests : job'[q].at = "insert" => job'[q].vmid # job'[p].vmid
                        /\ \A q \in Requests \ {p} :
                              job'[q].at = "destroy" => job'[q].vmid # job'[p].vmid
                        /\ job'[p].vmid \notin dying'
      BY DEF DestroyTargets, Claims
    <3>1. p # r /\ job'[p] = job[p] /\ job[p].at = "destroy" /\ job[p].vmid \notin marred
      BY <2>1, <2>2, <2>3
    <3>2. vm[job[p].vmid] # NoVm /\ job[p].vmid \in Vmids
      BY <3>1 DEF DestroyTargets, FieldsSet
    <3>3. vm'[job[p].vmid] = vm[job[p].vmid]
      BY <2>4, <3>2
    <3>4. \A q \in Requests : job'[q].at = "insert" => job'[q].vmid # job'[p].vmid
      BY <2>2, <2>3, <3>1, <3>2 DEF DestroyTargets
    <3> QED
      BY <2>1, <2>2, <2>3, <3>1, <3>3, <3>4 DEF DestroyTargets, Claims
  <2>11. DyingUnclaimed'
    <3> SUFFICES ASSUME NEW w \in dying
                 PROVE  /\ vm'[w] # NoVm
                        /\ w \notin marred =>
                             /\ \A i \in Instances :
                                   Claims(i, w)' => Dropping(i)' /\ vm'[w].svc = rows'[i].svc
                             /\ \A q \in Requests : job'[q].at = "insert" => job'[q].vmid # w
      BY <2>1 DEF DyingUnclaimed, Claims
    <3>1. w \in Vmids /\ vm[w] # NoVm
      BY DEF DyingUnclaimed, TypeOK
    <3>2. vm'[w] = vm[w]
      BY <2>4, <3>1
    <3>3. w \notin marred => \A i \in Instances :
            Claims(i, w)' => Dropping(i)' /\ vm'[w].svc = rows'[i].svc
      BY <2>1, <2>5, <3>2 DEF DyingUnclaimed, Claims
    <3>4. w \notin marred => \A q \in Requests : job[q].at = "insert" => job[q].vmid # w
      BY DEF DyingUnclaimed
    <3>5. w \notin marred => \A q \in Requests : job'[q].at = "insert" => job'[q].vmid # w
      BY <2>2, <2>3, <3>1, <3>4
    <3> QED
      BY <3>1, <3>2, <3>3, <3>5
  <2>12. DeletesRemember'
    BY <2>1, <2>2, <2>5 DEF DeletesRemember, Deleting
  <2> QED
    BY <2>6, <2>7, <2>8, <2>9, <2>10, <2>11, <2>12
<1>5. ASSUME NEW r \in Requests, InsertRow(r)
      PROVE  Safe'
  <2>1. RowsDistinct'
    BY <1>5 DEF InsertRow, Insertable, Finish, Idle, At, TypeOK, FieldsSet, RowsUsed, RowsDistinct
  <2>2. RowsBacked'
    <3>1. /\ UNCHANGED <<vm, marred>> /\ job[r].at = "insert" /\ job' = [job EXCEPT ![r] = Idle]
          /\ \A i \in Instances : \/ rows'[i] = rows[i]
                                 \/ /\ rows'[i].svc = job[r].svc
                                    /\ rows'[i].vmid = job[r].vmid
      BY <1>5 DEF InsertRow, Finish, TypeOK
    <3>2. \A i \in Instances : Dropping(i) => Dropping(i)'
      BY <3>1 DEF Dropping, TypeOK
    <3> QED
      BY <3>1, <3>2 DEF RowsBacked, PendingClaims
  <2>3. PendingClaims'
    BY <1>5 DEF InsertRow, Insertable, Finish, Idle, At, TypeOK, FieldsSet, RowsUsed, PendingClaims, RowsBacked, DestroyTargets, DyingUnclaimed, DeletesSerial, Claims, Dropping, Deleting
  <2>4. DeletesSerial'
    BY <1>5 DEF InsertRow, Insertable, Finish, Idle, At, TypeOK, FieldsSet, RowsUsed, DeletesSerial, Deleting
  <2>5. DestroyTargets'
    BY <1>5 DEF InsertRow, Insertable, Finish, Idle, At, TypeOK, FieldsSet, RowsUsed, DestroyTargets, DeletesSerial, DeletesRemember, RowsBacked, RowsDistinct, PendingClaims, DyingUnclaimed, Claims, Dropping, Deleting
  <2>6. DyingUnclaimed'
    BY <1>5 DEF InsertRow, Insertable, Finish, Idle, At, TypeOK, FieldsSet, RowsUsed, DyingUnclaimed, DestroyTargets, Claims, Dropping
  <2>7. DeletesRemember'
    BY <1>5 DEF InsertRow, Insertable, Finish, Idle, At, TypeOK, FieldsSet, RowsUsed, DeletesRemember, Deleting
  <2> QED
    BY <2>1, <2>2, <2>3, <2>4, <2>5, <2>6, <2>7 DEF Safe
<1>6. ASSUME NEW r \in Requests, NEW i \in Instances, BeginDecommission(r, i)
      PROVE  Safe'
  <2>1. /\ UNCHANGED <<vm, dying, rows, used>> /\ rows[i] # NoRow /\ rows[i].vmid \in Vmids
        /\ job[r].at = "idle"
        /\ \A q \in Requests \ {r} : job'[q] = job[q]
        /\ job'[r].at = "destroy" /\ job'[r].svc = rows[i].svc
        /\ job'[r].vmid = rows[i].vmid /\ job'[r].inst = i
        /\ marred' = IF \E q \in Requests : Deleting(q, i)
                     THEN marred \union {rows[i].vmid} ELSE marred
    BY <1>6 DEF BeginDecommission, At, TypeOK, Row
  <2>2. /\ \A j \in Instances : Dropping(j)' <=> Dropping(j)
        /\ \A j \in Instances, q \in Requests \ {r} : Deleting(q, j)' <=> Deleting(q, j)
        /\ \A j \in Instances : ~Deleting(r, j) /\ (Deleting(r, j)' <=> j = i)
        /\ \A j \in Instances, w \in Vmids : Claims(j, w)' <=> Claims(j, w)
    BY <2>1 DEF Dropping, Deleting, Claims
  <2>3. /\ \A w : w \notin marred' => w \notin marred
        /\ rows[i].vmid \notin marred' => \A q \in Requests : ~Deleting(q, i)
    BY <2>1
  <2>4. RowsDistinct'
    BY <2>1 DEF RowsDistinct
  <2>5. RowsBacked'
    BY <2>1, <2>2, <2>3 DEF RowsBacked
  <2>6. PendingClaims'
    <3> SUFFICES ASSUME NEW p \in Requests, job'[p].at = "insert", job'[p].vmid \notin marred'
                 PROVE  /\ vm'[job'[p].vmid] # NoVm
                        /\ vm'[job'[p].vmid].svc = job'[p].svc
                        /\ \A q \in Requests \ {p} :
                              job'[q].at = "insert" => job'[q].vmid # job'[p].vmid
                        /\ \A j \in Instances : Claims(j, job[p].vmid)' => Dropping(j)'
      BY DEF PendingClaims, Claims
    <3>1. p # r /\ job'[p] = job[p] /\ job[p].vmid \notin marred /\ job[p].vmid \in Vmids
      BY <2>1, <2>3 DEF FieldsSet
    <3>2. \A q \in Requests : job'[q].at = "insert" => job'[q] = job[q]
      BY <2>1
    <3> QED
      BY <2>1, <2>2, <3>1, <3>2 DEF PendingClaims, Claims
  <2>7. DeletesSerial'
    <3>1. \A q \in Requests \ {r} : Deleting(q, i) =>
             job[q].vmid = rows[i].vmid /\ rows[i].vmid \in marred'
      BY <2>1 DEF DeletesRemember
    <3>2. ASSUME NEW q \in Requests, NEW p \in Requests, NEW j \in Instances,
                 Deleting(q, j)', Deleting(p, j)', q # p
          PROVE  job'[q].vmid = job'[p].vmid /\ job'[q].vmid \in marred'
      <4>1. CASE q # r /\ p # r
        BY <2>1, <2>2, <2>3, <3>2, <4>1 DEF DeletesSerial
      <4>2. CASE q = r \/ p = r
        BY <2>1, <2>2, <3>1, <3>2, <4>2
      <4> QED
        BY <4>1, <4>2
    <3> QED
      BY <3>2 DEF DeletesSerial
  <2>8. DestroyTargets'
    <3>1. ASSUME rows[i].vmid \notin marred'
          PROVE  /\ vm[rows[i].vmid] # NoVm /\ vm[rows[i].vmid].svc = rows[i].svc
                 /\ \A q \in Requests :
                       job[q].at \in {"insert", "destroy"} => job[q].vmid # rows[i].vmid
                 /\ rows[i].vmid \notin dying
      <4>1. rows[i].vmid \notin marred /\ ~Dropping(i) /\ Claims(i, rows[i].vmid)
        BY <2>1, <2>3, <3>1 DEF Deleting, Dropping, Claims
      <4>2. vm[rows[i].vmid] # NoVm /\ vm[rows[i].vmid].svc = rows[i].svc
        BY <2>1, <4>1 DEF RowsBacked
      <4>3. \A q \in Requests :
              job[q].at \in {"insert", "destroy"} => job[q].vmid # rows[i].vmid
        BY <2>3, <3>1, <4>1 DEF PendingClaims, DestroyTargets, Deleting
      <4>4. rows[i].vmid \notin dying
        BY <4>1 DEF DyingUnclaimed
      <4> QED
        BY <4>2, <4>3, <4>4
    <3>2. ASSUME NEW p \in Requests, job'[p].at = "destroy", job'[p].vmid \notin marred'
          PROVE  /\ vm'[job'[p].vmid] # NoVm
                 /\ vm'[job'[p].vmid].svc = job'[p].svc
                 /\ \A j \in Instances : Claims(j, job[p].vmid)' => j = job'[p].inst
                 /\ \A q \in Requests : job'[q].at = "insert" => job'[q].vmid # job'[p].vmid
                 /\ \A q \in Requests \ {p} :
                       job'[q].at = "destroy" => job'[q].vmid # job'[p].vmid
                 /\ job'[p].vmid \notin dying'
      <4>1. CASE p = r
        BY <2>1, <3>1, <3>2, <4>1 DEF Claims, RowsDistinct
      <4>2. CASE p # r
        <5>1. job'[p] = job[p] /\ job[p].at = "destroy" /\ job[p].vmid \notin marred
          BY <2>1, <2>3, <3>2, <4>2
        <5>2. job[p].vmid # rows[i].vmid
          BY <2>3, <3>2, <3>1, <5>1
        <5> QED
          BY <2>1, <5>1, <5>2 DEF DestroyTargets, Claims
      <4> QED
        BY <4>1, <4>2
    <3> QED
      BY <3>2 DEF DestroyTargets, Claims
  <2>9. DyingUnclaimed'
    BY <2>1, <2>2, <2>3 DEF DyingUnclaimed, TypeOK
  <2>10. DeletesRemember'
    BY <2>1, <2>2 DEF DeletesRemember, Deleting
  <2> QED
    BY <2>4, <2>5, <2>6, <2>7, <2>8, <2>9, <2>10 DEF Safe
<1>7. ASSUME NEW r \in Requests, DestroyVm(r)
      PROVE  Safe'
  <2>0. PICK v \in Vmids : v = job[r].vmid
    BY <1>7 DEF DestroyVm, FieldsSet
  <2>1. /\ job[r].at = "destroy" /\ job[r] \in Job
        /\ UNCHANGED <<rows, used>>
    BY <1>7 DEF DestroyVm, TypeOK
  <2>2. \A q \in Requests \ {r} : job'[q] = job[q]
    BY <1>7 DEF DestroyVm, Finish, TypeOK
  <2>3. \/ job'[r].at = "idle"
        \/ /\ job'[r].at = "drop" /\ job'[r].vmid = v /\ job'[r].svc = job[r].svc
           /\ job'[r].inst = job[r].inst
    BY <1>7, <2>0, <2>1 DEF DestroyVm, Finish, Idle, At, TypeOK, Job
  <2>4. /\ \A w \in Vmids \ {v} : vm'[w] = vm[w]
        /\ vm'[v] \in {vm[v], NoVm}
        /\ dying' \ {v} = dying \ {v}
        /\ \A w : w \notin marred' => w \notin marred
        /\ v \in dying' => vm'[v] = vm[v] /\ vm[v] # NoVm
        /\ v \notin marred' /\ (vm'[v] # vm[v] \/ v \in dying') => job'[r].at = "drop"
    <3>1. v \notin marred => v \notin dying
      BY <2>0, <2>1 DEF DestroyTargets
    <3>2. v \in dying => vm[v] # NoVm
      BY DEF DyingUnclaimed
    <3> QED
      BY <1>7, <2>0, <2>1, <3>1, <3>2 DEF DestroyVm, AcceptDestroy, TypeOK, Job
  <2>5. /\ \A i \in Instances : Dropping(i) => Dropping(i)'
        /\ job'[r].at = "drop" => Dropping(job[r].inst)'
        /\ \A i \in Instances, q \in Requests :
              Deleting(q, i)' => Deleting(q, i) /\ job'[q].vmid = job[q].vmid
    BY <2>0, <2>1, <2>2, <2>3 DEF Dropping, Deleting
  <2>6. RowsDistinct'
    BY <2>1 DEF RowsDistinct
  <2>7. v \notin marred =>
          /\ vm[v] # NoVm /\ vm[v].svc = job[r].svc
          /\ \A i \in Instances : Claims(i, v) => i = job[r].inst
          /\ \A q \in Requests : job[q].at = "insert" => job[q].vmid # v
          /\ \A q \in Requests \ {r} : job[q].at = "destroy" => job[q].vmid # v
    BY <2>0, <2>1 DEF DestroyTargets
  <2>8. RowsBacked'
    <3> SUFFICES ASSUME NEW i \in Instances, rows[i] # NoRow, ~Dropping(i)',
                        rows[i].vmid \notin marred'
                 PROVE  vm'[rows[i].vmid] # NoVm /\ vm'[rows[i].vmid].svc = rows[i].svc
      BY <2>1 DEF RowsBacked
    <3>1. rows[i].vmid \in Vmids /\ rows[i].vmid \notin marred
      BY <2>4 DEF TypeOK, Row
    <3>2. vm'[rows[i].vmid] = vm[rows[i].vmid]
      <4>1. CASE rows[i].vmid = v
        <5>1. i = job[r].inst
          BY <2>7, <3>1, <4>1 DEF Claims
        <5>2. job'[r].at # "drop"
          <6>1. ~(job'[r].at = "drop" /\ job'[r].inst = i)
            BY DEF Dropping
          <6> QED
            BY <2>3, <5>1, <6>1
        <5> QED
          BY <2>4, <4>1, <5>2
      <4> QED
        BY <2>4, <3>1, <4>1
    <3> QED
      BY <2>5, <3>1, <3>2 DEF RowsBacked
  <2>9. PendingClaims'
    <3> SUFFICES ASSUME NEW p \in Requests, job'[p].at = "insert", job'[p].vmid \notin marred'
                 PROVE  /\ vm'[job'[p].vmid] # NoVm
                        /\ vm'[job'[p].vmid].svc = job'[p].svc
                        /\ \A q \in Requests \ {p} :
                              job'[q].at = "insert" => job'[q].vmid # job'[p].vmid
                        /\ \A i \in Instances : Claims(i, job[p].vmid)' => Dropping(i)'
      BY DEF PendingClaims, Claims
    <3>1. p # r /\ job'[p] = job[p] /\ job[p].at = "insert" /\ job[p].vmid \notin marred
      BY <2>2, <2>3, <2>4
    <3>2. vm'[job[p].vmid] = vm[job[p].vmid]
      BY <2>4, <2>7, <3>1 DEF FieldsSet
    <3> QED
      BY <2>1, <2>2, <2>3, <2>5, <3>1, <3>2 DEF PendingClaims, Claims
  <2>10. DeletesSerial'
    BY <2>4, <2>5 DEF DeletesSerial
  <2>11. DestroyTargets'
    <3> SUFFICES ASSUME NEW p \in Requests, job'[p].at = "destroy", job'[p].vmid \notin marred'
                 PROVE  /\ vm'[job'[p].vmid] # NoVm
                        /\ vm'[job'[p].vmid].svc = job'[p].svc
                        /\ \A i \in Instances : Claims(i, job[p].vmid)' => i = job'[p].inst
                        /\ \A q \in Requests : job'[q].at = "insert" => job'[q].vmid # job'[p].vmid
                        /\ \A q \in Requests \ {p} :
                              job'[q].at = "destroy" => job'[q].vmid # job'[p].vmid
                        /\ job'[p].vmid \notin dying'
      BY DEF DestroyTargets, Claims
    <3>1. p # r /\ job'[p] = job[p] /\ job[p].at = "destroy" /\ job[p].vmid \notin marred
      BY <2>2, <2>3, <2>4
    <3>2. job[p].vmid # v /\ job[p].vmid \in Vmids
      BY <2>7, <3>1 DEF FieldsSet
    <3>3. vm'[job[p].vmid] = vm[job[p].vmid] /\ job[p].vmid \notin dying'
      BY <2>4, <3>1, <3>2 DEF DestroyTargets
    <3> QED
      BY <2>1, <2>2, <2>3, <3>1, <3>3 DEF DestroyTargets, Claims
  <2>12. DyingUnclaimed'
    <3>1. ASSUME NEW w \in dying', w # v
          PROVE  w \in dying /\ w \in Vmids /\ vm'[w] = vm[w]
      BY <2>4, <3>1 DEF TypeOK
    <3>2. \A w \in dying' : vm'[w] # NoVm
      BY <2>4, <3>1 DEF DyingUnclaimed
    <3>3. ASSUME NEW w \in dying', w \notin marred', NEW i \in Instances, Claims(i, w)'
          PROVE  Dropping(i)' /\ vm'[w].svc = rows'[i].svc
      <4>1. Claims(i, w) /\ w \notin marred
        BY <2>1, <2>4, <3>3 DEF Claims
      <4>2. CASE w = v
        <5>1. i = job[r].inst /\ Deleting(r, i) /\ rows[i] # NoRow /\ vm[v].svc = job[r].svc
          BY <2>1, <2>7, <4>1, <4>2 DEF Deleting, Claims
        <5>2. rows[i].svc = job[r].svc
          BY <5>1 DEF DeletesRemember
        <5>3. job'[r].at = "drop" /\ vm'[v] = vm[v]
          BY <2>4, <3>3, <4>2
        <5>4. Dropping(i)'
          BY <2>3, <5>1, <5>3 DEF Dropping
        <5> QED
          BY <2>1, <4>2, <5>1, <5>2, <5>3, <5>4
      <4>3. CASE w # v
        BY <2>1, <2>5, <3>1, <3>3, <4>1, <4>3 DEF DyingUnclaimed
      <4> QED
        BY <4>2, <4>3
    <3>4. ASSUME NEW w \in dying', w \notin marred', NEW q \in Requests, job'[q].at = "insert"
          PROVE  job'[q].vmid # w
      <4>1. q # r /\ job'[q] = job[q] /\ w \notin marred
        BY <2>2, <2>3, <2>4, <3>4
      <4> QED
        BY <2>7, <3>1, <3>4, <4>1 DEF DyingUnclaimed
    <3> QED
      BY <3>2, <3>3, <3>4 DEF DyingUnclaimed
  <2>13. DeletesRemember'
    BY <2>1, <2>2, <2>3, <2>5 DEF DeletesRemember, Deleting
  <2> QED
    BY <2>6, <2>8, <2>9, <2>10, <2>11, <2>12, <2>13
<1>8. ASSUME NEW r \in Requests, DropRow(r)
      PROVE  Safe'
  <2>0. PICK v \in Vmids, k \in Instances : v = job[r].vmid /\ k = job[r].inst
    BY <1>8 DEF DropRow, FieldsSet, TypeOK
  <2>1. /\ UNCHANGED <<vm, dying, used>> /\ job[r].at = "drop" /\ job'[r].at = "idle"
        /\ \A q \in Requests \ {r} : job'[q] = job[q]
        /\ rows'[k] = NoRow /\ \A i \in Instances \ {k} : rows'[i] = rows[i]
    BY <1>8, <2>0 DEF DropRow, Finish, Idle, At, TypeOK
  <2>2. /\ \A i \in Instances \ {k} : Dropping(i) => Dropping(i)'
        /\ \A i \in Instances : Dropping(i)' => Dropping(i)
        /\ \A i \in Instances, q \in Requests :
              Deleting(q, i)' => Deleting(q, i) /\ q # r /\ job'[q] = job[q]
        /\ \A i \in Instances, w \in Vmids : Claims(i, w)' => Claims(i, w) /\ i # k
    BY <2>0, <2>1 DEF Dropping, Deleting, Claims
  <2>3. \A w : w \notin marred' => w \notin marred \/ (w = v /\ LeftAlone(r, v))
    BY <1>8, <2>0 DEF DropRow
  \* What is still at work, or claimed, at a VMID that is not marred now was not
  \* marred before.
  <2>4. /\ \A i \in Instances : rows'[i] # NoRow /\ rows[i].vmid \notin marred'
                => i # k /\ rows[i].vmid \notin marred
        /\ \A q \in Requests :
              job'[q].at \in {"insert", "destroy", "drop"} /\ job'[q].vmid \notin marred'
                => q # r /\ job[q].vmid \notin marred
    BY <2>0, <2>1, <2>3 DEF LeftAlone
  <2>5. RowsDistinct'
    BY <2>1 DEF RowsDistinct
  <2>6. RowsBacked'
    BY <2>1, <2>2, <2>4 DEF RowsBacked
  <2>7. PendingClaims'
    <3> SUFFICES ASSUME NEW p \in Requests, job'[p].at = "insert", job'[p].vmid \notin marred'
                 PROVE  /\ vm'[job'[p].vmid] # NoVm
                        /\ vm'[job'[p].vmid].svc = job'[p].svc
                        /\ \A q \in Requests \ {p} :
                              job'[q].at = "insert" => job'[q].vmid # job'[p].vmid
                        /\ \A i \in Instances : Claims(i, job[p].vmid)' => Dropping(i)'
      BY DEF PendingClaims, Claims
    <3>1. p # r /\ job'[p] = job[p] /\ job[p].vmid \notin marred /\ job[p].vmid \in Vmids
      BY <2>1, <2>4 DEF FieldsSet
    <3>2. \A q \in Requests : job'[q].at = "insert" => job'[q] = job[q]
      BY <2>1
    <3> QED
      BY <2>1, <2>2, <3>1, <3>2 DEF PendingClaims, Claims
  <2>8. DeletesSerial'
    <3> SUFFICES ASSUME NEW p \in Requests, NEW q \in Requests, NEW i \in Instances,
                        Deleting(p, i)', Deleting(q, i)', p # q
                 PROVE  job'[p].vmid = job'[q].vmid /\ job'[p].vmid \in marred'
      BY DEF DeletesSerial
    <3>1. /\ Deleting(p, i) /\ Deleting(q, i) /\ p # r
          /\ job'[p] = job[p] /\ job'[q] = job[q]
      BY <2>2
    <3>2. job[p].vmid = job[q].vmid /\ job[p].vmid \in marred
      BY <3>1 DEF DeletesSerial
    <3> QED
      BY <2>4, <3>1, <3>2 DEF Deleting
  <2>9. DestroyTargets'
    <3> SUFFICES ASSUME NEW p \in Requests, job'[p].at = "destroy", job'[p].vmid \notin marred'
                 PROVE  /\ vm'[job'[p].vmid] # NoVm
                        /\ vm'[job'[p].vmid].svc = job'[p].svc
                        /\ \A i \in Instances : Claims(i, job[p].vmid)' => i = job'[p].inst
                        /\ \A q \in Requests : job'[q].at = "insert" => job'[q].vmid # job'[p].vmid
                        /\ \A q \in Requests \ {p} :
                              job'[q].at = "destroy" => job'[q].vmid # job'[p].vmid
                        /\ job'[p].vmid \notin dying'
      BY DEF DestroyTargets, Claims
    <3>1. p # r /\ job'[p] = job[p] /\ job[p].vmid \notin marred /\ job[p].vmid \in Vmids
      BY <2>1, <2>4 DEF FieldsSet
    <3>2. \A q \in Requests : job'[q].at \in {"insert", "destroy"} => job'[q] = job[q]
      BY <2>1
    <3>3. \A i \in Instances : Claims(i, job[p].vmid)' => Claims(i, job[p].vmid)
      BY <2>1, <2>2, <3>1
    <3> QED
      BY <2>1, <3>1, <3>2, <3>3 DEF DestroyTargets
  <2>10. DyingUnclaimed'
    <3> SUFFICES ASSUME NEW w \in dying'
                 PROVE  /\ vm'[w] # NoVm
                        /\ w \notin marred' =>
                             /\ \A i \in Instances :
                                   Claims(i, w)' => Dropping(i)' /\ vm'[w].svc = rows'[i].svc
                             /\ \A q \in Requests : job'[q].at = "insert" => job'[q].vmid # w
      BY DEF DyingUnclaimed, Claims
    <3>1. w \in dying /\ w \in Vmids
      BY <2>1 DEF TypeOK
    <3>2. w \notin marred' =>
            /\ \A i \in Instances :
                 Claims(i, w)' => Claims(i, w) /\ i # k /\ w \notin marred /\ rows'[i] = rows[i]
            /\ \A q \in Requests :
                 job'[q].at = "insert" /\ job'[q].vmid = w
                   => w \notin marred /\ job'[q] = job[q]
      BY <2>1, <2>2, <2>4, <3>1 DEF Claims
    <3> QED
      BY <2>1, <2>2, <3>1, <3>2 DEF DyingUnclaimed
  <2>11. DeletesRemember'
    BY <2>0, <2>1, <2>2 DEF DeletesRemember
  <2> QED
    BY <2>5, <2>6, <2>7, <2>8, <2>9, <2>10, <2>11 DEF Safe
<1>9. ASSUME NEW r \in Requests, Crash(r)
      PROVE  Safe'
  <2>1. /\ UNCHANGED <<vm, dying, rows, used>> /\ job'[r].at = "idle"
        /\ \A q \in Requests \ {r} : job'[q] = job[q]
        /\ marred' = IF job[r].at = "drop" /\ rows[job[r].inst] # NoRow
                      THEN marred \union {job[r].vmid} ELSE marred
    BY <1>9 DEF Crash, Finish, Idle, At, TypeOK
  <2>2. /\ \A i \in Instances, q \in Requests :
              Deleting(q, i)' => Deleting(q, i) /\ q # r /\ job'[q] = job[q]
        /\ \A i \in Instances, w \in Vmids : Claims(i, w)' <=> Claims(i, w)
        /\ \A w : w \notin marred' => w \notin marred
    BY <2>1 DEF Deleting, Claims
  \* A row that is no longer being dropped has its VMID marred.
  <2>3. \A i \in Instances : rows[i] # NoRow /\ Dropping(i) /\ rows[i].vmid \notin marred' => Dropping(i)'
    <3> SUFFICES ASSUME NEW i \in Instances, rows[i] # NoRow, Dropping(i),
                        rows[i].vmid \notin marred'
                 PROVE  Dropping(i)'
      OBVIOUS
    <3>1. PICK q \in Requests : job[q].at = "drop" /\ job[q].inst = i
      BY DEF Dropping
    <3>2. rows[i].vmid = job[q].vmid
      BY <3>1 DEF DeletesRemember, Deleting
    <3>3. q # r
      BY <2>1, <3>1, <3>2
    <3> QED
      BY <2>1, <3>1, <3>3 DEF Dropping
  <2>4. \A i \in Instances : Dropping(i)' => Dropping(i)
    BY <2>1 DEF Dropping
  <2>5. RowsDistinct' /\ DeletesRemember'
    BY <2>1, <2>2 DEF RowsDistinct, DeletesRemember
  <2>6. RowsBacked'
    BY <2>1, <2>2, <2>3 DEF RowsBacked
  <2>7. PendingClaims'
    <3> SUFFICES ASSUME NEW p \in Requests, job'[p].at = "insert", job'[p].vmid \notin marred'
                 PROVE  /\ vm'[job'[p].vmid] # NoVm
                        /\ vm'[job'[p].vmid].svc = job'[p].svc
                        /\ \A q \in Requests \ {p} :
                              job'[q].at = "insert" => job'[q].vmid # job'[p].vmid
                        /\ \A i \in Instances : Claims(i, job[p].vmid)' => Dropping(i)'
      BY DEF PendingClaims, Claims
    <3>1. p # r /\ job'[p] = job[p] /\ job[p].vmid \notin marred /\ job[p].vmid \in Vmids
      BY <2>1, <2>2 DEF FieldsSet
    <3>2. \A i \in Instances : Claims(i, job[p].vmid)' => Dropping(i)'
      BY <2>1, <2>2, <2>3, <3>1 DEF PendingClaims, Claims
    <3> QED
      BY <2>1, <3>1, <3>2 DEF PendingClaims
  <2>8. DeletesSerial'
    BY <2>2 DEF DeletesSerial
  <2>9. DestroyTargets'
    <3> SUFFICES ASSUME NEW p \in Requests, job'[p].at = "destroy", job'[p].vmid \notin marred'
                 PROVE  /\ vm'[job'[p].vmid] # NoVm
                        /\ vm'[job'[p].vmid].svc = job'[p].svc
                        /\ \A i \in Instances : Claims(i, job[p].vmid)' => i = job'[p].inst
                        /\ \A q \in Requests : job'[q].at = "insert" => job'[q].vmid # job'[p].vmid
                        /\ \A q \in Requests \ {p} :
                              job'[q].at = "destroy" => job'[q].vmid # job'[p].vmid
                        /\ job'[p].vmid \notin dying'
      BY DEF DestroyTargets, Claims
    <3>1. p # r /\ job'[p] = job[p] /\ job[p].vmid \notin marred /\ job[p].vmid \in Vmids
      BY <2>1, <2>2 DEF FieldsSet
    <3>2. \A q \in Requests : job'[q].at \in {"insert", "destroy"} => job'[q] = job[q]
      BY <2>1
    <3>3. \A i \in Instances : Claims(i, job[p].vmid)' => Claims(i, job[p].vmid)
      BY <2>1, <2>2, <3>1
    <3> QED
      BY <2>1, <3>1, <3>2, <3>3 DEF DestroyTargets
  <2>10. DyingUnclaimed'
    <3> SUFFICES ASSUME NEW w \in dying
                 PROVE  /\ vm[w] # NoVm
                        /\ w \notin marred' =>
                             /\ \A i \in Instances :
                                   Claims(i, w)' => Dropping(i)' /\ vm[w].svc = rows[i].svc
                             /\ \A q \in Requests : job'[q].at = "insert" => job'[q].vmid # w
      BY <2>1 DEF DyingUnclaimed, Claims
    <3>1. w \in Vmids
      BY DEF TypeOK
    <3>2. w \notin marred' => \A i \in Instances :
            Claims(i, w)' => Dropping(i)' /\ vm[w].svc = rows[i].svc
      BY <2>2, <2>3, <3>1 DEF DyingUnclaimed, Claims
    <3> QED
      BY <2>1, <2>2, <3>2 DEF DyingUnclaimed
  <2> QED
    BY <2>5, <2>6, <2>7, <2>8, <2>9, <2>10 DEF Safe
<1>10. ASSUME NEW v \in Vmids, DestroyTaskEnds(v)
      PROVE  Safe'
  <2>1. /\ UNCHANGED <<rows, used, job, marred>> /\ v \in dying
        /\ dying' = dying \ {v}
        /\ \A w \in Vmids \ {v} : vm'[w] = vm[w]
    BY <1>10 DEF DestroyTaskEnds, TypeOK
  <2>2. /\ \A i \in Instances : Dropping(i)' <=> Dropping(i)
        /\ \A i \in Instances, q \in Requests : Deleting(q, i)' <=> Deleting(q, i)
        /\ \A i \in Instances, w \in Vmids : Claims(i, w)' <=> Claims(i, w)
    BY <2>1 DEF Dropping, Deleting, Claims
  <2>3. \A i \in Instances : rows[i] # NoRow /\ ~Dropping(i) /\ rows[i].vmid \notin marred
                                => rows[i].vmid \in Vmids \ {v}
    BY <2>1 DEF DyingUnclaimed, Claims, TypeOK, Row
  <2>4. \A q \in Requests : job[q].at \in {"insert", "destroy"} /\ job[q].vmid \notin marred
                               => job[q].vmid \in Vmids \ {v}
    <3>1. \A q \in Requests : job[q].at \in {"insert", "destroy"} => job[q].vmid \in Vmids
      BY DEF FieldsSet
    <3>2. \A q \in Requests : job[q].at = "insert" /\ job[q].vmid \notin marred => job[q].vmid # v
      BY <2>1 DEF DyingUnclaimed
    <3>3. \A q \in Requests : job[q].at = "destroy" /\ job[q].vmid \notin marred => job[q].vmid # v
      BY <2>1 DEF DestroyTargets
    <3> QED
      BY <3>1, <3>2, <3>3
  <2>5. RowsDistinct' /\ RowsBacked' /\ DeletesSerial' /\ DeletesRemember'
    <3>1. RowsDistinct'
      BY <2>1 DEF RowsDistinct
    <3>2. RowsBacked'
      BY <2>1, <2>2, <2>3 DEF RowsBacked
    <3>3. DeletesSerial'
      BY <2>1, <2>2 DEF DeletesSerial
    <3>4. DeletesRemember'
      BY <2>1, <2>2 DEF DeletesRemember
    <3> QED
      BY <3>1, <3>2, <3>3, <3>4
  <2>6. PendingClaims'
    <3>1. \A q \in Requests : job[q].at = "insert" /\ job[q].vmid \notin marred
                                => vm'[job[q].vmid] = vm[job[q].vmid] /\ job[q].vmid \in Vmids
      BY <2>1, <2>4
    <3> QED
      BY <2>1, <2>2, <3>1 DEF PendingClaims
  <2>7. DestroyTargets'
    <3>1. \A q \in Requests : job[q].at = "destroy" /\ job[q].vmid \notin marred
                                => vm'[job[q].vmid] = vm[job[q].vmid]
      BY <2>1, <2>4
    <3>2. job' = job /\ rows' = rows /\ marred' = marred /\ \A w : w \in dying' => w \in dying
      BY <2>1
    <3>3. ASSUME NEW p \in Requests, job[p].at = "destroy", job[p].vmid \notin marred
          PROVE  /\ vm'[job[p].vmid] # NoVm
                 /\ vm'[job[p].vmid].svc = job[p].svc
                 /\ \A i \in Instances :
                       rows[i] # NoRow /\ rows[i].vmid = job[p].vmid => i = job[p].inst
                 /\ \A q \in Requests : job[q].at = "insert" => job[q].vmid # job[p].vmid
                 /\ \A q \in Requests \ {p} :
                       job[q].at = "destroy" => job[q].vmid # job[p].vmid
                 /\ job[p].vmid \notin dying'
      <4>1. vm'[job[p].vmid] = vm[job[p].vmid]
        BY <3>1, <3>3
      <4> QED
        BY <3>2, <3>3, <4>1 DEF DestroyTargets, Claims
    <3> QED
      BY <3>2, <3>3 DEF DestroyTargets, Claims
  <2>8. DyingUnclaimed'
    <3>1. \A w \in dying' : w \in dying /\ w \in Vmids /\ vm'[w] = vm[w]
      BY <2>1 DEF TypeOK
    <3>2. \A w \in dying' : vm'[w] # NoVm
      BY <3>1 DEF DyingUnclaimed
    <3>3. ASSUME NEW w \in dying', w \notin marred', NEW i \in Instances, Claims(i, w)'
          PROVE  Dropping(i)' /\ vm'[w].svc = rows'[i].svc
      <4>1. Claims(i, w)
        BY <2>2, <3>1, <3>3
      <4>2. Dropping(i) /\ vm[w].svc = rows[i].svc
        BY <2>1, <3>1, <3>3, <4>1 DEF DyingUnclaimed
      <4> QED
        BY <2>1, <2>2, <3>1, <4>2
    <3>4. \A w \in dying', q \in Requests :
            w \notin marred' /\ job'[q].at = "insert" => job'[q].vmid # w
      BY <2>1, <3>1 DEF DyingUnclaimed
    <3> QED
      BY <3>2, <3>3, <3>4 DEF DyingUnclaimed
  <2> QED
    BY <2>5, <2>6, <2>7, <2>8
<1>11. ASSUME NEW i \in Instances, NEW n \in Nodes, UpdateInstanceNode(i, n)
      PROVE  Safe'
  <2>1. RowsDistinct'
    BY <1>11 DEF UpdateInstanceNode, TypeOK, FieldsSet, RowsUsed, RowsDistinct
  <2>2. RowsBacked'
    BY <1>11 DEF UpdateInstanceNode, TypeOK, FieldsSet, RowsUsed, RowsBacked, Dropping
  <2>3. PendingClaims'
    BY <1>11 DEF UpdateInstanceNode, TypeOK, FieldsSet, RowsUsed, PendingClaims, RowsBacked, DestroyTargets, DyingUnclaimed, DeletesSerial, Claims, Dropping, Deleting
  <2>4. DeletesSerial'
    BY <1>11 DEF UpdateInstanceNode, TypeOK, FieldsSet, RowsUsed, DeletesSerial, Deleting
  <2>5. DestroyTargets'
    BY <1>11 DEF UpdateInstanceNode, TypeOK, FieldsSet, RowsUsed, DestroyTargets, DeletesSerial, DeletesRemember, RowsBacked, RowsDistinct, PendingClaims, DyingUnclaimed, Claims, Dropping, Deleting
  <2>6. DyingUnclaimed'
    BY <1>11 DEF UpdateInstanceNode, TypeOK, FieldsSet, RowsUsed, DyingUnclaimed, DestroyTargets, Claims, Dropping
  <2>7. DeletesRemember'
    BY <1>11 DEF UpdateInstanceNode, TypeOK, FieldsSet, RowsUsed, DeletesRemember, Deleting
  <2> QED
    BY <2>1, <2>2, <2>3, <2>4, <2>5, <2>6, <2>7 DEF Safe
<1>12. ASSUME NEW r \in Requests, CascadeDelete(r)
      PROVE  Safe'
  <2>1. /\ UNCHANGED <<vm, dying, marred>>
        /\ job'[r].at = "idle" /\ job[r].at = "cascade"
        /\ \A q \in Requests \ {r} : job'[q] = job[q]
        /\ \A i \in Instances : rows'[i] # NoRow => rows'[i] = rows[i]
    BY <1>12 DEF CascadeDelete, Finish, Idle, At, TypeOK
  <2>2. /\ \A i \in Instances : Dropping(i)' <=> Dropping(i)
        /\ \A i \in Instances, q \in Requests : Deleting(q, i)' <=> Deleting(q, i)
        /\ \A i \in Instances, w \in Vmids : Claims(i, w)' => Claims(i, w)
        /\ \A q \in Requests : job'[q].at # "idle" => job'[q] = job[q]
    BY <2>1 DEF Dropping, Deleting, Claims
  <2>3. RowsDistinct' /\ RowsBacked' /\ DeletesSerial' /\ DeletesRemember'
    BY <2>1, <2>2 DEF RowsDistinct, RowsBacked, DeletesSerial, DeletesRemember, Deleting
  <2>4. PendingClaims' /\ DestroyTargets'
    BY <2>1 DEF PendingClaims, DestroyTargets, Claims, Dropping
  <2>5. DyingUnclaimed'
    BY <2>1, <2>2 DEF DyingUnclaimed, Claims, TypeOK
  <2> QED
    BY <2>3, <2>4, <2>5
<1>13. ASSUME NEW r \in Requests, NEW s \in Services, BeginHardDelete(r, s)
      PROVE  Safe'
  <2>1. /\ UNCHANGED <<vm, dying, rows, marred>>
        /\ job'[r].at = "cascade" /\ job[r].at = "idle"
        /\ \A q \in Requests \ {r} : job'[q] = job[q]
    BY <1>13 DEF BeginHardDelete, At, TypeOK
  <2>2. /\ \A i \in Instances : Dropping(i)' <=> Dropping(i)
        /\ \A i \in Instances, q \in Requests : Deleting(q, i)' <=> Deleting(q, i)
    BY <2>1 DEF Dropping, Deleting
  <2>3. RowsDistinct' /\ RowsBacked' /\ DeletesSerial' /\ DeletesRemember'
    BY <2>1, <2>2 DEF RowsDistinct, RowsBacked, DeletesSerial, DeletesRemember, Deleting
  <2>4. PendingClaims' /\ DestroyTargets'
    BY <2>1 DEF PendingClaims, DestroyTargets, Claims, Dropping
  <2>5. DyingUnclaimed'
    BY <2>1, <2>2 DEF DyingUnclaimed, Claims, TypeOK
  <2> QED
    BY <2>3, <2>4, <2>5
<1>14. CASE UNCHANGED vars
  BY <1>14 DEF vars, RowsDistinct, RowsBacked, PendingClaims, DeletesSerial,
       DestroyTargets, DyingUnclaimed, DeletesRemember, Deleting, Claims, Dropping
<1> QED
  BY <1>1, <1>2, <1>3, <1>4, <1>5, <1>6, <1>7, <1>8, <1>9, <1>10, <1>11,
     <1>12, <1>13, <1>14 DEF Next

\* The whole invariant holds in every reachable state, however decommissions
\* overlap and wherever they are cut short.
THEOREM InvariantHolds == Spec => []IInv
<1>1. Init => Typed /\ Safe
  BY TypedInit, SafeInit
<1>2. Typed /\ Safe /\ [Next]_vars => (Typed /\ Safe)'
  BY TypedStep, SafeStep
<1>3. Typed /\ Safe => IInv
  BY DEF Typed, Safe, IInv
<1> QED
  BY <1>1, <1>2, <1>3, PTL DEF Spec

\* Every committed instance row names a VM that exists and was made for the
\* row's service, unless its decommission is between its two deletes, was cut
\* short there or overlapped another one.
THEOREM RowsAreBacked == Spec => []RowsBacked
<1>1. IInv => RowsBacked
  BY DEF IInv
<1> QED
  BY <1>1, InvariantHolds, PTL

\* provision and clone never go on to insert a row for a VM that is missing,
\* another customer's, or about to be claimed by another request, except under
\* a VMID at which a decommission was cut short or overlapped.
THEOREM ClaimsAreExclusive == Spec => []PendingClaims
<1>1. IInv => PendingClaims
  BY DEF IInv
<1> QED
  BY <1>1, InvariantHolds, PTL

-----------------------------------------------------------------------------

\* The formula of DestroysAsked.
DestroysOwn ==
    \A v \in Vmids \ marred :
         vm[v] # NoVm /\ vm'[v] = NoVm =>
            /\ \A i \in Instances : Claims(i, v) =>
                  \E r \in Requests : /\ Deleting(r, i)
                                      /\ job[r].vmid = v
                                      /\ vm[v].svc = job[r].svc
            /\ \A r \in Requests : job[r].at = "insert" => job[r].vmid # v

\* A VM can disappear in two steps only: the destroy call of a decommission,
\* and the end of a destroy task Proxmox accepted earlier.
LEMMA OnlyDestroys ==
    ASSUME Typed, [Next]_vars, NEW v \in Vmids, vm[v] # NoVm, vm'[v] = NoVm
    PROVE  \/ \E r \in Requests : DestroyVm(r) /\ job[r].vmid = v
           \/ v \in dying
<1> USE FleetAssumption DEF Typed, TypeOK
<1>1. ASSUME NEW r \in Requests, CreateVm(r) PROVE FALSE
  <2>1. job[r].svc \in Services /\ job[r].node \in Nodes
    BY <1>1 DEF CreateVm, FieldsSet
  <2> QED
    BY <1>1, <2>1 DEF CreateVm, Vm
<1>2. ASSUME NEW r \in Requests, DestroyVm(r) PROVE job[r].vmid = v
  BY <1>2 DEF DestroyVm, AcceptDestroy
<1>3. ASSUME NEW w \in Vmids, DestroyTaskEnds(w) PROVE v \in dying
  BY <1>3 DEF DestroyTaskEnds
<1>4. vm' # vm
  OBVIOUS
<1> QED
  BY <1>1, <1>2, <1>3, <1>4
     DEF Next, vars, BeginProvision, BeginClone, NextAvailableVmid, InsertRow,
         BeginDecommission, DropRow, Crash, UpdateInstanceNode, BeginHardDelete,
         CascadeDelete

LEMMA DestroyStep == IInv /\ [Next]_vars => DestroysOwn
<1> SUFFICES ASSUME IInv, [Next]_vars, NEW v \in Vmids \ marred, vm[v] # NoVm, vm'[v] = NoVm
             PROVE  /\ \A i \in Instances : Claims(i, v) =>
                          \E r \in Requests : /\ Deleting(r, i)
                                              /\ job[r].vmid = v
                                              /\ vm[v].svc = job[r].svc
                    /\ \A r \in Requests : job[r].at = "insert" => job[r].vmid # v
  BY DEF DestroysOwn
<1>1. CASE \E r \in Requests : DestroyVm(r) /\ job[r].vmid = v
  <2>1. PICK r \in Requests : job[r].at = "destroy" /\ job[r].vmid = v
    BY <1>1 DEF DestroyVm
  <2>2. /\ vm[v].svc = job[r].svc
        /\ \A i \in Instances : Claims(i, v) => i = job[r].inst
        /\ \A q \in Requests : job[q].at = "insert" => job[q].vmid # v
    BY <2>1 DEF IInv, DestroyTargets
  <2> QED
    BY <2>1, <2>2 DEF Deleting
<1>2. CASE v \in dying
  <2>1. \A q \in Requests : job[q].at = "insert" => job[q].vmid # v
    BY <1>2 DEF IInv, DyingUnclaimed
  <2>2. ASSUME NEW i \in Instances, Claims(i, v)
        PROVE  \E r \in Requests : /\ Deleting(r, i)
                                   /\ job[r].vmid = v
                                   /\ vm[v].svc = job[r].svc
    <3>1. PICK r \in Requests : job[r].at = "drop" /\ job[r].inst = i
      BY <1>2, <2>2 DEF IInv, DyingUnclaimed, Dropping
    <3>2. job[r].vmid = v /\ job[r].svc = rows[i].svc
      BY <2>2, <3>1 DEF IInv, DeletesRemember, Deleting, Claims
    <3>3. vm[v].svc = rows[i].svc
      BY <1>2, <2>2 DEF IInv, DyingUnclaimed
    <3> QED
      BY <3>1, <3>2, <3>3 DEF Deleting
  <2> QED
    BY <2>1, <2>2
<1> QED
  BY <1>1, <1>2, OnlyDestroys DEF IInv, Typed

\* No step of any request, task or Proxmox job destroys a VM that a row other
\* than the one being decommissioned claims, or that provision is about to
\* claim, except under a VMID at which a decommission was cut short or
\* overlapped.
THEOREM DestroysAsAsked == Spec => DestroysAsked
<1>1. IInv /\ [Next]_vars => [DestroysOwn]_vars
  BY DestroyStep
<1>2. Spec => []IInv
  BY InvariantHolds
<1>3. [DestroysOwn]_vars <=> [\A v \in Vmids \ marred :
         vm[v] # NoVm /\ vm'[v] = NoVm =>
            /\ \A i \in Instances : Claims(i, v) =>
                  \E r \in Requests : /\ Deleting(r, i)
                                      /\ job[r].vmid = v
                                      /\ vm[v].svc = job[r].svc
            /\ \A r \in Requests : job[r].at = "insert" => job[r].vmid # v
      ]_vars
  BY DEF DestroysOwn
<1> QED
  BY <1>1, <1>2, <1>3, PTL DEF Spec, DestroysAsked

-----------------------------------------------------------------------------
(* The fleet implements VmLease *)

\* The service whose row holds VMID v: lease[v] of the refinement.
LeaseOf(v) ==
    IF \E i \in Instances : Holds(i, v)
    THEN rows[CHOOSE i \in Instances : Holds(i, v)].svc ELSE Nil

\* The service whose machine answers under a held VMID v: serving[v].
ServingOf(v) ==
    IF vm[v] # NoVm /\ \E i \in Instances : Holds(i, v) THEN vm[v].svc ELSE Nil

\* A VMID has one holder, and the VM under it is the holder's.
OneHolder ==
    \A v \in Vmids :
        /\ \A i \in Instances : Holds(i, v) => LeaseOf(v) = rows[i].svc
        /\ ~(\E i \in Instances : Holds(i, v)) => LeaseOf(v) = Nil
        /\ ServingOf(v) = LeaseOf(v)

LEMMA LeaseHolder == IInv => OneHolder
<1> SUFFICES ASSUME IInv, NEW v \in Vmids
             PROVE  /\ \A i \in Instances : Holds(i, v) => LeaseOf(v) = rows[i].svc
                    /\ ~(\E i \in Instances : Holds(i, v)) => LeaseOf(v) = Nil
                    /\ ServingOf(v) = LeaseOf(v)
  BY DEF OneHolder
<1>1. ASSUME NEW i \in Instances, Holds(i, v) PROVE LeaseOf(v) = rows[i].svc
  <2> DEFINE h == CHOOSE j \in Instances : Holds(j, v)
  <2>1. h \in Instances /\ Holds(h, v)
    BY <1>1
  <2>2. h = i
    BY <1>1, <2>1 DEF IInv, RowsDistinct, Holds, Claims
  <2> QED
    BY <1>1, <2>2 DEF LeaseOf
<1>2. ~(\E i \in Instances : Holds(i, v)) => LeaseOf(v) = Nil /\ ServingOf(v) = Nil
  BY DEF LeaseOf, ServingOf
<1>3. ASSUME NEW i \in Instances, Holds(i, v) PROVE ServingOf(v) = rows[i].svc
  BY <1>3 DEF IInv, RowsBacked, Holds, Claims, ServingOf
<1> QED
  BY <1>1, <1>2, <1>3

LEMMA LeaseHolderNext == IInv' => OneHolder'
BY LeaseHolder, PTL

\* Rows that keep their holder's service and VMID leave the lease alone.
LEMMA LeaseKept ==
    ASSUME IInv, IInv', NEW v \in Vmids,
           \A i \in Instances : Holds(i, v)' <=> Holds(i, v),
           \A i \in Instances : Holds(i, v) => rows'[i].svc = rows[i].svc
    PROVE  LeaseOf(v)' = LeaseOf(v)
<1> USE LeaseHolder, LeaseHolderNext DEF OneHolder
<1>1. CASE \E i \in Instances : Holds(i, v)
  BY <1>1
<1>2. CASE ~(\E i \in Instances : Holds(i, v))
  BY <1>2
<1> QED
  BY <1>1, <1>2

\* Steps of the abstract specification, said of LeaseOf.
LEMMA LeaseMoves ==
    ASSUME IInv, IInv', NEW v \in Vmids, LeaseOf(v)' # LeaseOf(v),
           \A w \in Vmids \ {v} : LeaseOf(w)' = LeaseOf(w),
           \/ LeaseOf(v) # Nil /\ LeaseOf(v)' = Nil
           \/ /\ LeaseOf(v) = Nil /\ LeaseOf(v)' \in Services
              /\ \A w \in Vmids : LeaseOf(w) # LeaseOf(v)'
    PROVE  Lease!Next
<1> DEFINE lease == [w \in Vmids |-> LeaseOf(w)]
           serving == [w \in Vmids |-> ServingOf(w)]
<1>1. \A w \in Vmids : ServingOf(w) = LeaseOf(w) /\ ServingOf(w)' = LeaseOf(w)'
  BY LeaseHolder, LeaseHolderNext DEF OneHolder
<1>2. /\ lease' = [lease EXCEPT ![v] = LeaseOf(v)']
      /\ serving' = [serving EXCEPT ![v] = LeaseOf(v)']
      /\ lease[v] = LeaseOf(v) /\ lease'[v] = LeaseOf(v)'
  BY <1>1
<1>3. \A w \in Vmids : lease[w] = LeaseOf(w)
  OBVIOUS
<1>4. CASE lease[v] # Nil /\ lease'[v] = Nil
  BY <1>2, <1>4 DEF Lease!Next, Lease!Release, LeaseOf, ServingOf
<1>5. CASE /\ lease[v] = Nil /\ lease'[v] \in Services
           /\ \A w \in Vmids : lease[w] # lease'[v]
  <2> DEFINE s == lease'[v]
  <2>1. s \in Services /\ lease'[v] # lease[v] /\ lease[v] = Nil
        /\ (\A w \in Vmids : lease[w] # s)
        /\ lease' = [lease EXCEPT ![v] = s] /\ serving' = [serving EXCEPT ![v] = s]
    BY <1>2, <1>5
  <2> QED
    BY <2>1 DEF Lease!Next, Lease!Claim, LeaseOf, ServingOf
<1> QED
  BY <1>2, <1>3, <1>4, <1>5

LEMMA LeaseStutters ==
    ASSUME IInv, IInv', \A v \in Vmids : LeaseOf(v)' = LeaseOf(v)
    PROVE  UNCHANGED Lease!vars
<1>1. \A v \in Vmids : ServingOf(v)' = ServingOf(v)
  BY LeaseHolder, LeaseHolderNext DEF OneHolder
<1> QED
  BY <1>1 DEF Lease!vars, LeaseOf, ServingOf

\* When one instance stops holding its VMID, and the rest keep theirs, the
\* lease is released or there was none.
LEMMA OneReleased ==
    ASSUME IInv, IInv', NEW i \in Instances,
           \A v \in Vmids : ~Holds(i, v)',
           \A j \in Instances \ {i}, v \in Vmids : Holds(j, v)' <=> Holds(j, v),
           \A j \in Instances \ {i}, v \in Vmids :
                Holds(j, v) => rows'[j].svc = rows[j].svc
    PROVE  [Lease!Next]_(Lease!vars)
<1>1. CASE \A v \in Vmids : ~Holds(i, v)
  BY <1>1, LeaseKept, LeaseStutters
<1>2. CASE \E v \in Vmids : Holds(i, v)
  <2>1. PICK v \in Vmids : Holds(i, v)
    BY <1>2
  <2>2. \A w \in Vmids \ {v} : ~Holds(i, w)
    BY <2>1 DEF Holds, Claims
  <2>3. \A w \in Vmids \ {v} : LeaseOf(w)' = LeaseOf(w)
    BY <2>2, LeaseKept
  <2>4. LeaseOf(v) # Nil
    BY <2>1, LeaseHolder, FleetAssumption DEF IInv, TypeOK, Row, OneHolder, Holds, Claims
  <2>5. \A j \in Instances \ {i} : ~Holds(j, v)
    BY <2>1 DEF IInv, RowsDistinct, Holds, Claims
  <2>6. LeaseOf(v)' = Nil
    BY <2>5, LeaseHolderNext DEF OneHolder
  <2> QED
    BY <2>3, <2>4, <2>6, LeaseMoves
<1> QED
  BY <1>1, <1>2

LEMMA LeaseStep ==
    ASSUME IInv, IInv', [Next]_vars
    PROVE  [Lease!Next]_(Lease!vars)
<1> DEFINE Quiet == \A i \in Instances, v \in Vmids :
        /\ Holds(i, v)' <=> Holds(i, v)
        /\ Holds(i, v) => rows'[i].svc = rows[i].svc
<1> USE FleetAssumption
<1>1. Quiet => UNCHANGED Lease!vars
  BY LeaseKept, LeaseStutters
<1>2. ASSUME NEW r \in Requests, InsertRow(r) PROVE [Lease!Next]_(Lease!vars)
  <2>0. PICK s \in Services, v \in Vmids : s = job[r].svc /\ v = job[r].vmid
    BY <1>2 DEF InsertRow, IInv, FieldsSet
  <2>1. /\ s = job[r].svc /\ v = job[r].vmid /\ job[r].at = "insert"
        /\ marred' = marred /\ \A i \in Instances : Dropping(i)' <=> Dropping(i)
    BY <1>2, <2>0 DEF InsertRow, Finish, Idle, At, IInv, TypeOK, Dropping
  <2>2. CASE ~Insertable(s, v)
    <3>1. Quiet
      BY <1>2, <2>1, <2>2 DEF InsertRow, Holds, Claims
    <3> QED
      BY <1>1, <3>1
  <2>3. CASE Insertable(s, v)
    <3>1. PICK i \in Instances \ used :
            rows' = [rows EXCEPT ![i] = [svc |-> s, node |-> job[r].node, vmid |-> v]]
      BY <1>2, <2>1, <2>3 DEF InsertRow
    <3>2. [svc |-> s, node |-> job[r].node, vmid |-> v] \in Row
      BY <2>1 DEF IInv, FieldsSet, Row
    <3>3. rows[i] = NoRow /\ ~Dropping(i)
      BY <3>1 DEF IInv, RowsUsed, FieldsSet, Dropping
    <3>4. (Holds(i, v)' <=> v \notin marred) /\ rows'[i].svc = s
      BY <2>1, <3>1, <3>2, <3>3 DEF Holds, Claims, IInv, TypeOK
    <3>5. \A j \in Instances, w \in Vmids :
            j # i \/ w # v => (Holds(j, w)' <=> Holds(j, w))
      BY <2>1, <3>1, <3>2, <3>3 DEF Holds, Claims, IInv, TypeOK
    <3>6. \A j \in Instances, w \in Vmids : Holds(j, w) => rows'[j].svc = rows[j].svc
      BY <3>1, <3>3 DEF Holds, Claims, IInv, TypeOK
    <3>7. \A w \in Vmids \ {v} : LeaseOf(w)' = LeaseOf(w)
      BY <3>5, <3>6, LeaseKept
    <3>8. LeaseOf(v) = Nil /\ \A w \in Vmids : LeaseOf(w) # s
      <4>1. \A j \in Instances : ~Holds(j, v)
        BY <2>3 DEF Insertable, Holds, Claims
      <4>2. \A j \in Instances, w \in Vmids : Holds(j, w) => rows[j].svc # s
        BY <2>3 DEF Insertable, Holds, Claims
      <4> QED
        BY <2>1, <4>1, <4>2, LeaseHolder DEF OneHolder
    <3>9. CASE v \notin marred
      <4>1. LeaseOf(v)' = s
        BY <3>4, <3>9, LeaseHolderNext DEF OneHolder
      <4> QED
        BY <2>1, <3>7, <3>8, <4>1, LeaseMoves
    <3>10. CASE v \in marred
      <4>1. Quiet
        BY <2>1, <3>3, <3>4, <3>5, <3>6, <3>10 DEF Holds, Claims
      <4> QED
        BY <1>1, <4>1
    <3> QED
      BY <3>9, <3>10
  <2> QED
    BY <2>2, <2>3
<1>3. ASSUME NEW r \in Requests, DestroyVm(r) PROVE [Lease!Next]_(Lease!vars)
  <2>0. PICK i \in Instances, v \in Vmids : i = job[r].inst /\ v = job[r].vmid
    BY <1>3 DEF DestroyVm, IInv, FieldsSet, TypeOK
  <2>1. /\ job[r].at = "destroy" /\ i = job[r].inst /\ rows' = rows
        /\ \A q \in Requests \ {r} : job'[q] = job[q]
        /\ \/ job'[r] = Idle /\ (marred' = marred \/ marred' = marred \union {v})
           \/ job'[r].at = "drop" /\ job'[r].inst = i /\ marred' = marred
    BY <1>3, <2>0 DEF DestroyVm, Finish, IInv, TypeOK, Job
  <2>2. \A j \in Instances \ {i} : Dropping(j)' <=> Dropping(j)
    BY <2>1 DEF Dropping, Idle, At
  <2>3. /\ v \notin marred => \A j \in Instances : Claims(j, v) => j = i
        /\ rows[i] # NoRow => rows[i].vmid = v
    BY <2>0, <2>1 DEF IInv, DestroyTargets, DeletesRemember, Deleting
  <2>4. CASE job'[r] = Idle /\ marred' = marred
    <3>1. Dropping(i)' <=> Dropping(i)
      BY <2>1, <2>4 DEF Dropping, Idle, At
    <3>2. Quiet
      BY <2>1, <2>2, <2>4, <3>1 DEF Holds, Claims
    <3> QED
      BY <1>1, <3>2
  <2>5. CASE job'[r] = Idle /\ marred' = marred \union {v}
    <3>1. \A j \in Instances \ {i}, w \in Vmids : Holds(j, w)' <=> Holds(j, w)
      BY <2>1, <2>2, <2>3, <2>5 DEF Holds, Claims
    <3>2. \A w \in Vmids : ~Holds(i, w)'
      BY <2>1, <2>3, <2>5 DEF Holds, Claims
    <3> QED
      BY <2>1, <3>1, <3>2, OneReleased
  <2>6. CASE job'[r].at = "drop" /\ job'[r].inst = i /\ marred' = marred
    <3>1. Dropping(i)'
      BY <2>6 DEF Dropping
    <3>2. \A j \in Instances \ {i}, w \in Vmids : Holds(j, w)' <=> Holds(j, w)
      BY <2>1, <2>2, <2>6 DEF Holds, Claims
    <3>3. \A w \in Vmids : ~Holds(i, w)'
      BY <3>1 DEF Holds
    <3> QED
      BY <2>1, <3>2, <3>3, OneReleased
  <2> QED
    BY <2>1, <2>4, <2>5, <2>6
<1>4. ASSUME NEW r \in Requests, CascadeDelete(r) PROVE [Lease!Next]_(Lease!vars)
  <2>1. /\ job[r].at = "cascade" /\ job[r].svc \in Services
        /\ \A j \in Instances :
             rows'[j] = IF rows[j] # NoRow /\ rows[j].svc = job[r].svc THEN NoRow ELSE rows[j]
        /\ marred' = marred /\ \A j \in Instances : Dropping(j)' <=> Dropping(j)
    BY <1>4 DEF CascadeDelete, Finish, Idle, At, IInv, TypeOK, FieldsSet, Dropping
  <2>2. CASE \E i \in Instances : rows[i] # NoRow /\ rows[i].svc = job[r].svc
    <3>1. PICK i \in Instances : rows[i] # NoRow /\ rows[i].svc = job[r].svc
      BY <2>2
    <3>2. \A j \in Instances \ {i} : rows'[j] = rows[j]
      BY <2>1, <3>1 DEF IInv, RowsDistinct
    <3>3. \A w \in Vmids : ~Holds(i, w)'
      BY <2>1, <3>1 DEF Holds, Claims
    <3>4. \A j \in Instances \ {i}, w \in Vmids : Holds(j, w)' <=> Holds(j, w)
      BY <2>1, <3>2 DEF Holds, Claims
    <3> QED
      BY <3>2, <3>3, <3>4, OneReleased
  <2>3. CASE ~\E i \in Instances : rows[i] # NoRow /\ rows[i].svc = job[r].svc
    <3>1. Quiet
      BY <2>1, <2>3 DEF Holds, Claims
    <3> QED
      BY <1>1, <3>1
  <2> QED
    BY <2>2, <2>3
<1>5. ASSUME NEW r \in Requests, DropRow(r) PROVE Quiet
  <2>0. PICK i \in Instances, v \in Vmids : i = job[r].inst /\ v = job[r].vmid
    BY <1>5 DEF DropRow, IInv, FieldsSet, TypeOK
  <2>1. /\ job[r].at = "drop" /\ Dropping(i)
        /\ rows'[i] = NoRow /\ \A j \in Instances \ {i} : rows'[j] = rows[j]
        /\ \A j \in Instances \ {i} : Dropping(j)' <=> Dropping(j)
    BY <1>5, <2>0 DEF DropRow, Finish, Idle, At, IInv, TypeOK, Dropping
  <2>2. \/ marred' = marred
        \/ /\ marred' = marred \ {v} /\ v \in marred
           /\ \A j \in Instances \ {i} : ~Claims(j, v)
    BY <1>5, <2>0 DEF DropRow, LeftAlone, Claims
  <2> QED
    BY <2>1, <2>2 DEF Holds, Claims
<1>6. ASSUME NEW i \in Instances, NEW n \in Nodes, UpdateInstanceNode(i, n) PROVE Quiet
  <2>1. /\ job' = job /\ marred' = marred
        /\ \A j \in Instances : (rows'[j] # NoRow <=> rows[j] # NoRow)
        /\ \A j \in Instances : rows[j] # NoRow =>
              rows'[j].svc = rows[j].svc /\ rows'[j].vmid = rows[j].vmid
    BY <1>6 DEF UpdateInstanceNode, IInv, TypeOK, Row
  <2> QED
    BY <2>1 DEF Holds, Claims, Dropping
<1>7. ASSUME NEW r \in Requests, rows' = rows, marred' = marred,
             job[r].at # "drop", job'[r].at # "drop",
             \A q \in Requests \ {r} : job'[q] = job[q]
      PROVE  Quiet
  <2>1. \A i \in Instances : Dropping(i)' <=> Dropping(i)
    BY <1>7 DEF Dropping
  <2> QED
    BY <1>7, <2>1 DEF Holds, Claims
<1>8. ASSUME NEW r \in Requests,
             \/ \E s \in Services, n \in Nodes : BeginProvision(r, s, n)
             \/ \E i \in Instances, s \in Services : BeginClone(r, i, s)
             \/ NextAvailableVmid(r)
             \/ CreateVm(r)
             \/ \E s \in Services : BeginHardDelete(r, s)
      PROVE  Quiet
  <2>1. /\ rows' = rows /\ marred' = marred /\ job[r].at # "drop" /\ job'[r].at # "drop"
        /\ \A q \in Requests \ {r} : job'[q] = job[q]
    BY <1>8 DEF BeginProvision, BeginClone, NextAvailableVmid, CreateVm,
                BeginHardDelete, Finish, Idle, At, IInv, TypeOK, Job
  <2> QED
    BY <1>7, <2>1
<1>9. ASSUME \/ \E v \in Vmids : DestroyTaskEnds(v)
             \/ UNCHANGED vars
      PROVE  Quiet
  <2>1. rows' = rows /\ job' = job /\ marred' = marred
    BY <1>9 DEF DestroyTaskEnds, vars
  <2> QED
    BY <2>1 DEF Holds, Claims, Dropping
<1>10. ASSUME NEW r \in Requests, NEW i \in Instances, BeginDecommission(r, i)
       PROVE  [Lease!Next]_(Lease!vars)
  <2>1. /\ rows' = rows /\ rows[i] # NoRow /\ job[r].at # "drop" /\ job'[r].at # "drop"
        /\ \A q \in Requests \ {r} : job'[q] = job[q]
        /\ marred' = marred \/ marred' = marred \union {rows[i].vmid}
    BY <1>10 DEF BeginDecommission, Idle, At, IInv, TypeOK, Job
  <2>2. CASE marred' = marred
    BY <1>1, <1>7, <2>1, <2>2
  <2>3. CASE marred' = marred \union {rows[i].vmid}
    <3>1. \A j \in Instances : Dropping(j)' <=> Dropping(j)
      BY <2>1 DEF Dropping
    <3>2. \A j \in Instances \ {i}, w \in Vmids : Holds(j, w)' <=> Holds(j, w)
      BY <2>1, <2>3, <3>1 DEF Holds, Claims, IInv, RowsDistinct
    <3>3. \A w \in Vmids : ~Holds(i, w)'
      BY <2>1, <2>3 DEF Holds, Claims
    <3> QED
      BY <2>1, <3>2, <3>3, OneReleased
  <2> QED
    BY <2>1, <2>2, <2>3
<1>11. ASSUME NEW r \in Requests, Crash(r) PROVE Quiet
  <2>1. /\ rows' = rows /\ job'[r].at # "drop"
        /\ \A q \in Requests \ {r} : job'[q] = job[q]
        /\ marred' = IF job[r].at = "drop" /\ rows[job[r].inst] # NoRow
                      THEN marred \union {job[r].vmid} ELSE marred
    BY <1>11 DEF Crash, Finish, Idle, At, IInv, TypeOK
  <2>2. CASE job[r].at # "drop"
    BY <1>7, <2>1, <2>2
  <2>3. CASE job[r].at = "drop"
    <3>0. PICK i \in Instances : i = job[r].inst
      BY <2>3 DEF IInv, FieldsSet, TypeOK
    <3>1. \A j \in Instances \ {i} : Dropping(j)' <=> Dropping(j)
      BY <2>1, <3>0 DEF Dropping
    <3>2. Dropping(i) /\ (rows[i] # NoRow => rows[i].vmid = job[r].vmid)
      BY <2>3, <3>0 DEF Dropping, IInv, DeletesRemember, Deleting
    <3>3. \A j \in Instances \ {i}, w \in Vmids : Holds(j, w)' <=> Holds(j, w)
      BY <2>1, <3>0, <3>1, <3>2 DEF Holds, Claims, IInv, RowsDistinct
    <3>4. \A w \in Vmids : ~Holds(i, w)' /\ ~Holds(i, w)
      BY <2>1, <2>3, <3>0, <3>2 DEF Holds, Claims
    <3> QED
      BY <2>1, <3>3, <3>4
  <2> QED
    BY <2>2, <2>3
<1> HIDE DEF Quiet
<1> QED
  BY <1>1, <1>2, <1>3, <1>4, <1>5, <1>6, <1>8, <1>9, <1>10, <1>11 DEF Next

LEMMA LeaseInit == Init => Lease!Init
<1> SUFFICES ASSUME Init PROVE Lease!Init
  OBVIOUS
<1>1. \A i \in Instances, v \in Vmids : ~Holds(i, v)
  BY DEF Init, Holds, Claims
<1> QED
  BY <1>1 DEF Lease!Init

\* provision, clone and decommission implement VmLease, whatever else the
\* fleet does: a service holds one VMID at most, a VMID serves its holder until
\* its decommission releases it, by its end, by being cut short or by meeting
\* another one.
THEOREM FleetIsLease == Spec => ImplementsLease
<1>1. IInv /\ IInv' /\ [Next]_vars => [Lease!Next]_(Lease!vars)
  BY LeaseStep
<1> QED
  BY <1>1, LeaseInit, InvariantHolds, PTL DEF Spec, ImplementsLease, Lease!Spec

-----------------------------------------------------------------------------
(* The size of one machine *)

LEMMA SpecsTypeStep ==
    ASSUME Specs!TypeOK, Specs!CallsAsked, [Specs!Next]_specVars
    PROVE  Specs!TypeOK' /\ Specs!CallsAsked'
<1> USE SpecsAssumption DEF Specs!TypeOK, Specs!CallsAsked, Specs!Specs
<1> DEFINE SpecsTyped == Specs!TypeOK' /\ Specs!CallsAsked'
<1>1. ASSUME NEW F \in SUBSET Fields, resize' = Specs!Meet(F)
      PROVE  resize' \in [Resizes -> Specs!Job \union {Nil}] /\ Specs!CallsAsked'
  BY <1>1 DEF Specs!Meet, Specs!Job, Specs!Calls, Specs!FieldOf
<1>2. ASSUME NEW r \in Resizes, NEW c \in {"live"} \union Fields, resize[r] # Nil,
             Specs!Called(r, c)
      PROVE  resize' \in [Resizes -> Specs!Job \union {Nil}] /\ Specs!CallsAsked'
  BY <1>2 DEF Specs!Called, Specs!Job, Specs!Calls, Specs!FieldOf
<1>3. ASSUME NEW r \in Resizes, resize' = [resize EXCEPT ![r] = Nil]
      PROVE  resize' \in [Resizes -> Specs!Job \union {Nil}] /\ Specs!CallsAsked'
  BY <1>3 DEF Specs!Calls, Specs!FieldOf
<1>14. ASSUME NEW F \in SUBSET Fields, sync' = Specs!MeetSyncs(F)
       PROVE  sync' \in [Syncs -> Specs!Sync \union {Nil}]
  BY <1>14 DEF Specs!MeetSyncs, Specs!Sync
<1>4. ASSUME NEW r \in Resizes, Specs!Begin(r) PROVE SpecsTyped
  <2>1. PICK asked \in Specs!Wish :
          /\ resize' = [Specs!Meet({f \in Fields : asked[f] # Nil}) EXCEPT ![r] =
                        [asked |-> asked, calls |-> Specs!Calls(asked),
                         loaded |-> [f \in Fields |-> IF asked[f] # Nil THEN specs[f] ELSE Nil],
                         met |-> {f \in {g \in Fields : asked[g] # Nil} :
                                    \E q \in Resizes : Specs!Works(q, f)}]]
          /\ sync' = Specs!MeetSyncs({f \in Fields : asked[f] # Nil})
    BY <1>4 DEF Specs!Begin
  <2>4. /\ Specs!Meet({f \in Fields : asked[f] # Nil}) \in [Resizes -> Specs!Job \union {Nil}]
        /\ \A q \in Resizes \ {r} : resize'[q] # Nil =>
             resize[q] # Nil /\ resize'[q].calls = resize[q].calls
                /\ resize'[q].asked = resize[q].asked
    BY <2>1 DEF Specs!Meet, Specs!Job
  <2>5. resize'[r] \in Specs!Job /\ resize'[r].calls = Specs!Calls(resize'[r].asked)
    BY <2>1, <2>4 DEF Specs!Job, Specs!Wish, Specs!Calls, Specs!FieldOf, Specs!Rank
  <2>6. resize' \in [Resizes -> Specs!Job \union {Nil}]
    BY <2>1, <2>4, <2>5
  <2>7. Specs!CallsAsked'
    BY <2>4, <2>5 DEF Specs!Calls, Specs!FieldOf
  <2>2. resize' \in [Resizes -> Specs!Job \union {Nil}] /\ Specs!CallsAsked'
    BY <2>6, <2>7
  <2>3. sync' \in [Syncs -> Specs!Sync \union {Nil}]
    BY <1>14, <2>1
  <2> QED
    BY <1>4, <2>2, <2>3 DEF Specs!Begin
<1>5. ASSUME NEW r \in Resizes, Specs!SetLive(r) PROVE SpecsTyped
  BY <1>2, <1>5 DEF Specs!SetLive, Specs!Calling, Specs!Job, Specs!Wish, Specs!Calls, Specs!FieldOf, Specs!Rank
<1>6. ASSUME NEW r \in Resizes, NEW f \in Fields, Specs!SetConfig(r, f) PROVE SpecsTyped
  BY <1>2, <1>6 DEF Specs!SetConfig, Specs!Calling, Specs!Job, Specs!Wish, Specs!Calls, Specs!FieldOf, Specs!Rank
<1>7. ASSUME NEW r \in Resizes, Specs!ResizeDisk(r) PROVE SpecsTyped
  BY <1>2, <1>7 DEF Specs!ResizeDisk, Specs!Calling, Specs!Job, Specs!Wish, Specs!Calls, Specs!FieldOf, Specs!Rank
<1>8. ASSUME NEW r \in Resizes, Specs!Fail(r) PROVE SpecsTyped
  BY <1>3, <1>8 DEF Specs!Fail, Specs!Touched
<1>9. ASSUME NEW r \in Resizes, Specs!Commit(r) PROVE SpecsTyped
  BY <1>3, <1>9 DEF Specs!Commit, Specs!Written, Specs!Job, Specs!Wish
<1>10. CASE Specs!UpdateInstance
  <2>1. PICK f \in Fields, n \in Sizes :
          /\ specs' = [specs EXCEPT ![f] = n]
          /\ drift' = drift \union {f}
          /\ resize' = Specs!Meet({f})
    BY <1>10 DEF Specs!UpdateInstance
  <2>2. resize' \in [Resizes -> Specs!Job \union {Nil}] /\ Specs!CallsAsked'
    BY <1>1, <2>1
  <2> QED
    BY <1>10, <2>1, <2>2 DEF Specs!UpdateInstance
<1>11. CASE Specs!DiskTaskEnds
  BY <1>1, <1>11 DEF Specs!DiskTaskEnds
<1>12. CASE Specs!Reboot
  BY <1>1, <1>12 DEF Specs!Reboot
<1>13. CASE UNCHANGED specVars
  BY <1>13 DEF specVars, Specs!Calls, Specs!FieldOf
<1>15. ASSUME NEW q \in Syncs, Specs!SyncLoad(q) PROVE SpecsTyped
  <2>1. UNCHANGED <<specs, config, memory, growing, resize, drift>>
    BY <1>15 DEF Specs!SyncLoad
  <2>2. sync' \in [Syncs -> Specs!Sync \union {Nil}]
    BY <1>15 DEF Specs!SyncLoad, Specs!Sync, Specs!Synced
  <2> QED
    BY <2>1, <2>2 DEF Specs!Calls, Specs!FieldOf
<1>16. ASSUME NEW q \in Syncs, Specs!SyncRead(q) PROVE SpecsTyped
  <2>1. UNCHANGED <<specs, config, memory, growing, resize, drift>>
    BY <1>16 DEF Specs!SyncRead
  <2>2. PICK read \in [Specs!Synced -> Sizes] : sync' = [sync EXCEPT ![q].read = read]
    BY <1>16 DEF Specs!SyncRead
  <2>3. sync' \in [Syncs -> Specs!Sync \union {Nil}]
    BY <1>16, <2>2 DEF Specs!SyncRead, Specs!Sync
  <2> QED
    BY <2>1, <2>3 DEF Specs!Calls, Specs!FieldOf
<1>17. ASSUME NEW q \in Syncs, Specs!SyncEnd(q) PROVE SpecsTyped
  <2>1. /\ UNCHANGED <<config, memory, growing>> /\ sync' = [sync EXCEPT ![q] = Nil]
        /\ sync[q] \in Specs!Sync
    BY <1>17 DEF Specs!SyncEnd
  <2>2. CASE UNCHANGED <<specs, drift, resize>>
    BY <2>1, <2>2 DEF Specs!Calls, Specs!FieldOf
  <2>3. CASE resize' = Specs!Meet(Specs!Differing(q)) /\ ~UNCHANGED <<specs, drift, resize>>
    <3>1. Specs!Differing(q) \subseteq Fields
      BY DEF Specs!Differing, Specs!Synced
    <3>2. resize' \in [Resizes -> Specs!Job \union {Nil}] /\ Specs!CallsAsked'
      BY <1>1, <2>3, <3>1
    <3>3. \A f \in Specs!Differing(q) : sync[q].read[f] \in Sizes
      BY <2>1 DEF Specs!Differing, Specs!Sync, Specs!Unread
    <3>4. specs' = [f \in Fields |-> IF f \in Specs!Differing(q) THEN sync[q].read[f] ELSE specs[f]]
          /\ drift' = drift \union (Specs!Differing(q) \intersect (sync[q].met \union {"cores"}))
      BY <1>17, <2>3 DEF Specs!SyncEnd
    <3>5. specs' \in [Fields -> Sizes] /\ drift' \subseteq Fields
      BY <3>1, <3>3, <3>4
    <3> QED
      BY <2>1, <3>2, <3>5
  <2> QED
    BY <1>17, <2>2, <2>3 DEF Specs!SyncEnd
<1> QED
  BY <1>4, <1>5, <1>6, <1>7, <1>8, <1>9, <1>10, <1>11, <1>12, <1>13, <1>15, <1>16, <1>17
     DEF Specs!Next

LEMMA SpecsInit == Specs!Init => Specs!IInv
<1> SUFFICES ASSUME Specs!Init PROVE Specs!IInv
  OBVIOUS
<1> USE SpecsAssumption DEF Specs!Init
<1>1. Specs!TypeOK
  BY DEF Specs!TypeOK, Specs!Specs
<1>2. Specs!UntouchedSettled
  BY DEF Specs!UntouchedSettled, Specs!Settled, Specs!Agree
<1>3. Specs!CallsAsked /\ Specs!UnmetAlone /\ Specs!UnmetDone /\ Specs!UnmetSyncs
  BY DEF Specs!CallsAsked, Specs!UnmetAlone, Specs!UnmetDone, Specs!UnmetSyncs, Specs!Works
<1> QED
  BY <1>1, <1>2, <1>3 DEF Specs!IInv

LEMMA SpecsStep == Specs!IInv /\ [Specs!Next]_specVars => Specs!IInv'
<1> SUFFICES ASSUME Specs!IInv, [Specs!Next]_specVars PROVE Specs!IInv'
  OBVIOUS
<1>0. Specs!TypeOK' /\ Specs!CallsAsked'
  BY SpecsTypeStep DEF Specs!IInv
<1> USE SpecsAssumption, <1>0 DEF Specs!IInv, Specs!TypeOK, Specs!Specs, Specs!CallsAsked
<1>3. \A r \in Resizes, f \in Fields : Specs!Works(r, f) => resize[r] # Nil
  BY DEF Specs!Works
<1> DEFINE Rest ==
      Specs!UntouchedSettled' /\ Specs!UnmetAlone' /\ Specs!UnmetDone' /\ Specs!UnmetSyncs'
\* A step that only meets some fields of the requests that work on them.
<1>1. ASSUME NEW F \in SUBSET Fields, resize' = Specs!Meet(F)
      PROVE  /\ \A r \in Resizes, f \in Fields : Specs!Works(r, f)' <=> Specs!Works(r, f)
             /\ \A r \in Resizes : Specs!Touched(r)' = Specs!Touched(r)
             /\ \A r \in Resizes : resize[r] # Nil =>
                  /\ resize'[r].asked = resize[r].asked
                  /\ resize'[r].calls = resize[r].calls
                  /\ resize'[r].loaded = resize[r].loaded
             /\ \A r \in Resizes, f \in Fields : Specs!Works(r, f) =>
                  (f \in resize'[r].met <=> f \in resize[r].met \union F)
  BY <1>1 DEF Specs!Meet, Specs!Works, Specs!Touched, Specs!Job
\* A step that makes the next call of request r.
<1>2. ASSUME NEW r \in Resizes, NEW c \in {"live"} \union Fields,
             Specs!Calling(r, c), Specs!Called(r, c)
      PROVE  /\ \A q \in Resizes, f \in Fields : Specs!Works(q, f)' <=> Specs!Works(q, f)
             /\ \A q \in Resizes : resize[q] # Nil =>
                  /\ resize'[q].asked = resize[q].asked
                  /\ resize'[q].loaded = resize[q].loaded
                  /\ resize'[q].met = resize[q].met
             /\ \A q \in Resizes \ {r} : resize'[q] = resize[q]
             /\ resize'[r].calls = resize[r].calls \ {c}
             /\ Specs!Works(r, Specs!FieldOf(c))
             /\ \A q \in Resizes : Specs!Touched(q) \subseteq Specs!Touched(q)'
             /\ Specs!FieldOf(c) \in Specs!Touched(r)'
  <2>1. /\ resize[r] \in Specs!Job /\ resize[r] # Nil /\ c \in resize[r].calls
        /\ resize' = [resize EXCEPT ![r] = [resize[r] EXCEPT !.calls = resize[r].calls \ {c}]]
    BY <1>2 DEF Specs!Calling, Specs!Called
  <2>2. [resize[r] EXCEPT !.calls = resize[r].calls \ {c}] \in Specs!Job
    BY <2>1 DEF Specs!Job
  <2>3. /\ resize'[r].asked = resize[r].asked
        /\ resize'[r].loaded = resize[r].loaded
        /\ resize'[r].met = resize[r].met
        /\ resize'[r].calls = resize[r].calls \ {c}
        /\ resize'[r] # Nil
        /\ \A q \in Resizes \ {r} : resize'[q] = resize[q]
    BY <2>1, <2>2 DEF Specs!Job
  <2>4. \A q \in Resizes, f \in Fields : Specs!Works(q, f)' <=> Specs!Works(q, f)
    BY <2>1, <2>3 DEF Specs!Works
  <2>5. Specs!FieldOf(c) \in Fields /\ Specs!Works(r, Specs!FieldOf(c)) /\ c \in DOMAIN Specs!Rank
    BY <2>1 DEF Specs!Works, Specs!Calls
  <2>6. \A q \in Resizes : Specs!Touched(q) \subseteq Specs!Touched(q)'
    BY <2>3, <2>4 DEF Specs!Touched
  <2>7. Specs!FieldOf(c) \in Specs!Touched(r)'
    BY <2>3, <2>4, <2>5 DEF Specs!Touched
  <2> QED
    BY <2>3, <2>4, <2>5, <2>6, <2>7
\* A step that neither syncs nor writes the row nor brings somebody to a field.
<1>14. ASSUME UNCHANGED <<specs, sync>>, drift \subseteq drift',
              \A r \in Resizes, f \in Fields : Specs!Works(r, f)' => Specs!Works(r, f)
       PROVE  Specs!UnmetSyncs'
  BY <1>14 DEF Specs!UnmetSyncs, Specs!Synced
\* A step that writes the row alone, and marks what it writes as drifted.
<1>15. ASSUME NEW F \in SUBSET Fields, resize' = Specs!Meet(F),
              UNCHANGED <<config, memory, growing>>,
              F \subseteq drift', drift \subseteq drift',
              \A f \in Fields \ F : specs'[f] = specs[f],
              \A q \in Syncs : sync'[q] # Nil => sync'[q] = sync[q]
       PROVE  Rest
  <2>1. /\ \A r \in Resizes, g \in Fields : Specs!Works(r, g)' <=> Specs!Works(r, g)
        /\ \A r \in Resizes : Specs!Touched(r)' = Specs!Touched(r)
        /\ \A r \in Resizes : resize[r] # Nil =>
             /\ resize'[r].asked = resize[r].asked
             /\ resize'[r].calls = resize[r].calls
             /\ resize'[r].loaded = resize[r].loaded
        /\ \A r \in Resizes, g \in Fields : Specs!Works(r, g) =>
             (g \in resize'[r].met <=> g \in resize[r].met \/ g \in F)
    BY <1>1, <1>15
  <2>2. Specs!UntouchedSettled'
    <3> SUFFICES ASSUME NEW g \in Fields \ drift', \A q \in Resizes : g \notin Specs!Touched(q)'
                 PROVE  Specs!Settled(g)'
      BY DEF Specs!UntouchedSettled
    <3>1. g \notin drift /\ g \notin F /\ \A q \in Resizes : g \notin Specs!Touched(q)
      BY <1>15, <2>1
    <3>2. Specs!Settled(g)
      BY <3>1 DEF Specs!UntouchedSettled
    <3> QED
      BY <1>15, <3>1, <3>2 DEF Specs!Settled, Specs!Agree
  <2>3. Specs!UnmetAlone'
    <3>1. ASSUME NEW r \in Resizes, NEW g \in Fields,
                 Specs!Works(r, g)', g \notin resize'[r].met
          PROVE  /\ \A q \in Resizes \ {r} : ~Specs!Works(q, g)'
                 /\ resize'[r].loaded[g] = specs'[g]
      <4>1. Specs!Works(r, g) /\ g \notin resize[r].met /\ g \notin F
        BY <2>1, <3>1
      <4>2. /\ \A q \in Resizes \ {r} : ~Specs!Works(q, g)
            /\ resize[r].loaded[g] = specs[g]
        BY <4>1 DEF Specs!UnmetAlone
      <4> QED
        BY <1>3, <1>15, <2>1, <4>1, <4>2
    <3> QED
      BY <3>1 DEF Specs!UnmetAlone
  <2>4. Specs!UnmetDone'
    BY <1>3, <1>15, <2>1 DEF Specs!UnmetDone
  <2>5. Specs!UnmetSyncs'
    <3>1. ASSUME NEW q \in Syncs, NEW f \in Specs!Synced, sync'[q] # Nil, f \notin sync'[q].met
          PROVE  /\ \A r \in Resizes : ~Specs!Works(r, f)'
                 /\ f \notin drift' => sync'[q].loaded[f] = specs'[f]
                 /\ f \notin drift' /\ f # "cores" => sync'[q].read[f] \in {Nil, specs'[f]}
      <4>1. f \in Fields /\ sync'[q] = sync[q]
        BY <1>15, <3>1 DEF Specs!Synced
      <4>2. /\ \A r \in Resizes : ~Specs!Works(r, f)
            /\ f \notin drift => sync[q].loaded[f] = specs[f]
            /\ f \notin drift /\ f # "cores" => sync[q].read[f] \in {Nil, specs[f]}
        BY <3>1, <4>1 DEF Specs!UnmetSyncs
      <4> QED
        BY <1>15, <2>1, <4>1, <4>2
    <3> QED
      BY <3>1 DEF Specs!UnmetSyncs
  <2> QED
    BY <2>2, <2>3, <2>4, <2>5
<1>4. ASSUME NEW r \in Resizes, Specs!Begin(r) PROVE Rest
  <2>1. PICK asked \in Specs!Wish :
          /\ resize' = [Specs!Meet({f \in Fields : asked[f] # Nil}) EXCEPT ![r] =
                        [asked |-> asked, calls |-> Specs!Calls(asked),
                         loaded |-> [f \in Fields |-> IF asked[f] # Nil THEN specs[f] ELSE Nil],
                         met |-> {f \in {g \in Fields : asked[g] # Nil} :
                                    \E q \in Resizes : Specs!Works(q, f)}]]
          /\ sync' = Specs!MeetSyncs({f \in Fields : asked[f] # Nil})
    <3> HIDE <1>0 DEF Specs!IInv, Specs!TypeOK, Specs!Specs, Specs!CallsAsked
    <3> QED
      BY <1>4 DEF Specs!Begin
  <2>2. /\ resize[r] = Nil
        /\ UNCHANGED <<specs, config, memory, growing, drift>>
    BY <1>4 DEF Specs!Begin
  <2>3. /\ resize'[r].asked = asked
        /\ resize'[r].calls = Specs!Calls(asked)
        /\ \A f \in Fields : asked[f] # Nil => resize'[r].loaded[f] = specs[f]
        /\ \A f \in Fields : asked[f] # Nil =>
             (f \in resize'[r].met <=> \E q \in Resizes : Specs!Works(q, f))
    BY <2>1 DEF Specs!Meet
  <2>4. \A q \in Resizes \ {r} :
          /\ resize'[q] = Nil <=> resize[q] = Nil
          /\ resize[q] # Nil =>
               /\ resize'[q].asked = resize[q].asked
               /\ resize'[q].calls = resize[q].calls
               /\ resize'[q].loaded = resize[q].loaded
               /\ \A f \in Fields : Specs!Works(q, f) =>
                    (f \in resize'[q].met <=> f \in resize[q].met \/ asked[f] # Nil)
    BY <2>1 DEF Specs!Meet, Specs!Job
  <2>5. \A q \in Resizes \ {r}, f \in Fields : Specs!Works(q, f)' <=> Specs!Works(q, f)
    BY <2>4 DEF Specs!Works
  <2>6. \A f \in Fields : ~Specs!Works(r, f)
    BY <2>2 DEF Specs!Works
  <2>7. \A f \in Fields : Specs!Works(r, f)' => asked[f] # Nil
    BY <2>3 DEF Specs!Works
  <2>8. \A q \in Resizes \ {r} : Specs!Touched(q)' = Specs!Touched(q)
    BY <2>4, <2>5 DEF Specs!Touched
  <2>9. Specs!Touched(r) = {}
    BY <2>6 DEF Specs!Touched
  <2>10. Specs!UntouchedSettled'
    <3> SUFFICES ASSUME NEW g \in Fields \ drift', \A q \in Resizes : g \notin Specs!Touched(q)'
                 PROVE  Specs!Settled(g)'
      BY DEF Specs!UntouchedSettled
    <3>1. g \notin drift /\ \A q \in Resizes : g \notin Specs!Touched(q)
      BY <2>2, <2>8, <2>9
    <3>2. Specs!Settled(g)
      BY <3>1 DEF Specs!UntouchedSettled
    <3> QED
      BY <2>2, <3>2 DEF Specs!Settled, Specs!Agree
  <2>11. Specs!UnmetAlone'
    BY <1>3, <2>2, <2>3, <2>4, <2>5, <2>6, <2>7 DEF Specs!UnmetAlone
  <2>12. Specs!UnmetDone'
    <3>1. ASSUME NEW f \in Fields, Specs!Works(r, f)'
          PROVE  f \in resize'[r].calls /\ (f = "memory" => "live" \in resize'[r].calls)
      BY <2>3, <2>7, <3>1 DEF Specs!Calls, Specs!FieldOf, Specs!Rank
    <3> QED
      BY <2>2, <2>3, <2>4, <2>5, <3>1 DEF Specs!UnmetDone
  <2>13. Specs!UnmetSyncs'
    <3>1. \A q \in Syncs : sync'[q] # Nil =>
            /\ sync[q] # Nil
            /\ sync'[q].loaded = sync[q].loaded
            /\ sync'[q].read = sync[q].read
            /\ \A f \in Specs!Synced : f \notin sync'[q].met => f \notin sync[q].met /\ asked[f] = Nil
      BY <2>1 DEF Specs!MeetSyncs, Specs!Sync, Specs!Synced
    <3> SUFFICES ASSUME NEW q \in Syncs, NEW f \in Specs!Synced, sync'[q] # Nil,
                        f \notin sync'[q].met
                 PROVE  /\ \A p \in Resizes : ~Specs!Works(p, f)'
                        /\ f \notin drift' => sync'[q].loaded[f] = specs'[f]
                        /\ f \notin drift' /\ f # "cores" => sync'[q].read[f] \in {Nil, specs'[f]}
      BY DEF Specs!UnmetSyncs
    <3>2. f \in Fields /\ f \notin sync[q].met /\ asked[f] = Nil /\ sync[q] # Nil
      BY <3>1 DEF Specs!Synced
    <3>3. /\ \A p \in Resizes : ~Specs!Works(p, f)
          /\ f \notin drift => sync[q].loaded[f] = specs[f]
          /\ f \notin drift /\ f # "cores" => sync[q].read[f] \in {Nil, specs[f]}
      BY <3>2 DEF Specs!UnmetSyncs
    <3> QED
      BY <2>2, <2>5, <2>7, <3>1, <3>2, <3>3
  <2> QED
    BY <2>10, <2>11, <2>12, <2>13
<1>5. ASSUME NEW r \in Resizes, Specs!SetLive(r) PROVE Rest
  <2>1. /\ Specs!Calling(r, "live") /\ Specs!Called(r, "live")
        /\ memory' = resize[r].asked["memory"]
        /\ UNCHANGED <<specs, config, growing, sync, drift>>
    BY <1>5 DEF Specs!SetLive
  <2>2. Specs!FieldOf("live") = "memory"
    BY DEF Specs!FieldOf
  <2>3. Specs!UntouchedSettled'
    BY <1>2, <2>1, <2>2 DEF Specs!UntouchedSettled, Specs!Settled, Specs!Agree
  <2>4. Specs!UnmetAlone'
    BY <1>2, <1>3, <2>1, <2>2 DEF Specs!UnmetAlone
  <2>5. Specs!UnmetDone'
    BY <1>2, <1>3, <2>1, <2>2 DEF Specs!UnmetDone, Specs!UnmetAlone
  <2>6. Specs!UnmetSyncs'
    BY <1>2, <1>14, <2>1, <2>2
  <2> QED
    BY <2>3, <2>4, <2>5, <2>6
<1>6. ASSUME NEW r \in Resizes, NEW f \in Fields, Specs!SetConfig(r, f) PROVE Rest
  <2>1. /\ Specs!Calling(r, f) /\ Specs!Called(r, f) /\ f # "disk"
        /\ config' = [config EXCEPT ![f] = resize[r].asked[f]]
        /\ UNCHANGED <<specs, memory, growing, sync, drift>>
    BY <1>6 DEF Specs!SetConfig
  <2>2. Specs!FieldOf(f) = f
    BY DEF Specs!FieldOf
  <2>3. Specs!UntouchedSettled'
    <3> SUFFICES ASSUME NEW g \in Fields \ drift', \A q \in Resizes : g \notin Specs!Touched(q)'
                 PROVE  Specs!Settled(g)'
      BY DEF Specs!UntouchedSettled
    <3>1. g \notin drift /\ g # f /\ \A q \in Resizes : g \notin Specs!Touched(q)
      BY <1>2, <2>1, <2>2
    <3>2. Specs!Settled(g)
      BY <3>1 DEF Specs!UntouchedSettled
    <3> QED
      BY <2>1, <3>1, <3>2 DEF Specs!Settled, Specs!Agree
  <2>4. Specs!UnmetAlone'
    BY <1>2, <1>3, <2>1, <2>2 DEF Specs!UnmetAlone
  <2>5. Specs!UnmetDone'
    BY <1>2, <1>3, <2>1, <2>2 DEF Specs!UnmetDone, Specs!UnmetAlone
  <2>6. Specs!UnmetSyncs'
    BY <1>2, <1>14, <2>1, <2>2
  <2> QED
    BY <2>3, <2>4, <2>5, <2>6
<1>7. ASSUME NEW r \in Resizes, Specs!ResizeDisk(r) PROVE Rest
  <2>1. /\ Specs!Calling(r, "disk") /\ Specs!Called(r, "disk")
        /\ growing = Nil /\ growing' = resize[r].asked["disk"]
        /\ UNCHANGED <<specs, config, memory, sync, drift>>
    BY <1>7 DEF Specs!ResizeDisk
  <2>2. Specs!FieldOf("disk") = "disk"
    BY DEF Specs!FieldOf
  <2>3. Specs!UntouchedSettled'
    BY <1>2, <2>1, <2>2 DEF Specs!UntouchedSettled, Specs!Settled, Specs!Agree
  <2>4. Specs!UnmetAlone'
    BY <1>2, <1>3, <2>1, <2>2 DEF Specs!UnmetAlone
  <2>5. Specs!UnmetDone'
    <3>1. growing' # Nil
      BY <1>2, <2>1, <2>2 DEF Specs!Works
    <3> QED
      BY <1>2, <1>3, <2>1, <2>2, <3>1 DEF Specs!UnmetDone, Specs!UnmetAlone
  <2>6. Specs!UnmetSyncs'
    BY <1>2, <1>14, <2>1, <2>2
  <2> QED
    BY <2>3, <2>4, <2>5, <2>6
<1>8. ASSUME NEW r \in Resizes, Specs!Fail(r) PROVE Rest
  <2>1. Specs!UntouchedSettled' /\ Specs!UnmetAlone' /\ Specs!UnmetDone'
    BY <1>8 DEF Specs!Fail, Specs!UntouchedSettled, Specs!UnmetAlone, Specs!UnmetDone, Specs!Works, Specs!Touched, Specs!Settled, Specs!Agree
  <2>2. Specs!UnmetSyncs'
    BY <1>8, <1>14 DEF Specs!Fail, Specs!Works
  <2> QED
    BY <2>1, <2>2
<1>9. ASSUME NEW r \in Resizes, Specs!Commit(r) PROVE Rest
  <2>1. /\ resize[r] \in Specs!Job /\ resize[r].calls = {}
        /\ UNCHANGED <<config, memory, growing, sync>>
        /\ resize' = [resize EXCEPT ![r] = Nil]
        /\ \A f \in Fields :
             /\ specs'[f] = IF resize[r].asked[f] \in {Nil, resize[r].loaded[f]}
                           THEN specs[f] ELSE resize[r].asked[f]
             /\ f \in drift' <=> (f \in drift /\ ~Specs!Works(r, f)) \/ f \in resize[r].met
    BY <1>9 DEF Specs!Commit, Specs!Written
  <2>2. \A f \in Fields : ~Specs!Works(r, f) =>
          specs'[f] = specs[f] /\ (f \in drift => f \in drift')
    BY <2>1 DEF Specs!Works
  <2>3. \A q \in Resizes : resize'[q] # Nil => q # r /\ resize'[q] = resize[q]
    BY <2>1
  <2>4. /\ \A q \in Resizes, f \in Fields :
             Specs!Works(q, f)' <=> q # r /\ Specs!Works(q, f)
        /\ \A q \in Resizes \ {r} : Specs!Touched(q)' = Specs!Touched(q)
    BY <2>1 DEF Specs!Works, Specs!Touched
  <2>5. Specs!UntouchedSettled'
    <3> SUFFICES ASSUME NEW g \in Fields \ drift', \A q \in Resizes : g \notin Specs!Touched(q)'
                 PROVE  Specs!Settled(g)'
      BY DEF Specs!UntouchedSettled
    <3>1. \A q \in Resizes \ {r} : g \notin Specs!Touched(q)
      BY <2>4
    <3>2. CASE Specs!Works(r, g)
      <4>1. g \notin resize[r].met /\ resize[r].asked[g] # Nil
        BY <2>1, <3>2 DEF Specs!Works
      <4>2. specs'[g] = resize[r].asked[g]
        BY <2>1, <3>2, <4>1 DEF Specs!UnmetAlone
      <4> QED
        BY <2>1, <3>2, <4>1, <4>2 DEF Specs!UnmetDone, Specs!Settled, Specs!Agree
    <3>3. CASE ~Specs!Works(r, g)
      <4>1. g \notin drift /\ specs'[g] = specs[g] /\ g \notin Specs!Touched(r)
        BY <2>1, <2>2, <3>3 DEF Specs!Touched
      <4>2. Specs!Settled(g)
        BY <3>1, <4>1 DEF Specs!UntouchedSettled
      <4> QED
        BY <2>1, <4>1, <4>2 DEF Specs!Settled, Specs!Agree
    <3> QED
      BY <3>2, <3>3
  <2>6. Specs!UnmetAlone'
    <3> SUFFICES ASSUME NEW q \in Resizes, NEW g \in Fields,
                        Specs!Works(q, g)', g \notin resize'[q].met
                 PROVE  /\ \A p \in Resizes \ {q} : ~Specs!Works(p, g)'
                        /\ resize'[q].loaded[g] = specs'[g]
      BY DEF Specs!UnmetAlone
    <3>1. q # r /\ Specs!Works(q, g) /\ resize'[q] = resize[q]
      BY <1>3, <2>3, <2>4 DEF Specs!Works
    <3>2. /\ \A p \in Resizes \ {q} : ~Specs!Works(p, g)
          /\ resize[q].loaded[g] = specs[g]
      BY <3>1 DEF Specs!UnmetAlone
    <3> QED
      BY <2>2, <2>4, <3>1, <3>2
  <2>7. Specs!UnmetDone'
    <3>1. \A q \in Resizes, g \in Fields :
            Specs!Works(q, g)' => Specs!Works(q, g) /\ resize'[q] = resize[q]
      BY <2>3, <2>4 DEF Specs!Works
    <3> QED
      BY <2>1, <3>1 DEF Specs!UnmetDone
  <2>8. Specs!UnmetSyncs'
    BY <2>1, <2>2, <2>4 DEF Specs!UnmetSyncs, Specs!Synced
  <2> QED
    BY <2>5, <2>6, <2>7, <2>8
<1>10. CASE Specs!UpdateInstance
  <2>1. PICK f \in Fields, n \in Sizes :
          /\ specs' = [specs EXCEPT ![f] = n]
          /\ drift' = drift \union {f}
          /\ resize' = Specs!Meet({f})
    BY <1>10 DEF Specs!UpdateInstance
  <2>2. UNCHANGED <<config, memory, growing, sync>>
    BY <1>10 DEF Specs!UpdateInstance
  <2>3. {f} \in SUBSET Fields
    OBVIOUS
  <2> QED
    BY <1>15, <2>1, <2>2, <2>3
<1>11. CASE Specs!DiskTaskEnds
  <2>1. Specs!UntouchedSettled' /\ Specs!UnmetAlone' /\ Specs!UnmetDone'
    BY <1>1, <1>11 DEF Specs!DiskTaskEnds, Specs!UntouchedSettled, Specs!UnmetAlone, Specs!UnmetDone, Specs!Works, Specs!Touched, Specs!Settled, Specs!Agree
  <2>2. resize' = resize \/ resize' = Specs!Meet({"disk"})
    BY <1>11 DEF Specs!DiskTaskEnds
  <2>3. \A r \in Resizes, f \in Fields : Specs!Works(r, f)' => Specs!Works(r, f)
    <3>1. {"disk"} \in SUBSET Fields
      OBVIOUS
    <3> QED
      BY <1>1, <2>2, <3>1 DEF Specs!Works
  <2>4. Specs!UnmetSyncs'
    BY <1>11, <1>14, <2>3 DEF Specs!DiskTaskEnds
  <2> QED
    BY <2>1, <2>4
<1>12. CASE Specs!Reboot
  <2>1. {"memory"} \in SUBSET Fields
    OBVIOUS
  <2>2. Specs!UntouchedSettled' /\ Specs!UnmetAlone' /\ Specs!UnmetDone'
    BY <1>1, <1>12, <2>1 DEF Specs!Reboot, Specs!UntouchedSettled, Specs!UnmetAlone, Specs!UnmetDone, Specs!Works, Specs!Touched, Specs!Settled, Specs!Agree
  <2>3. Specs!UnmetSyncs'
    BY <1>1, <1>12, <1>14, <2>1 DEF Specs!Reboot
  <2> QED
    BY <2>2, <2>3
<1>13. CASE UNCHANGED specVars
  BY <1>13 DEF specVars, Specs!UntouchedSettled, Specs!UnmetAlone, Specs!UnmetDone, Specs!UnmetSyncs, Specs!Works, Specs!Touched, Specs!Settled, Specs!Agree
<1>16. ASSUME UNCHANGED <<specs, config, memory, growing, resize, drift>>
       PROVE  Specs!UntouchedSettled' /\ Specs!UnmetAlone' /\ Specs!UnmetDone'
  BY <1>16 DEF Specs!UntouchedSettled, Specs!UnmetAlone, Specs!UnmetDone, Specs!Works, Specs!Touched, Specs!Settled, Specs!Agree
<1>17. ASSUME NEW q \in Syncs, Specs!SyncLoad(q) PROVE Rest
  <2>1. /\ UNCHANGED <<specs, config, memory, growing, resize, drift>>
        /\ \A p \in Syncs \ {q} : sync'[p] = sync[p]
        /\ \A f \in Specs!Synced :
             /\ sync'[q].loaded[f] = specs[f]
             /\ sync'[q].read[f] = Nil
             /\ f \notin sync'[q].met => \A r \in Resizes : ~Specs!Works(r, f)
    BY <1>17 DEF Specs!SyncLoad, Specs!Unread
  <2>2. Specs!UnmetSyncs'
    BY <2>1 DEF Specs!UnmetSyncs, Specs!Works
  <2> QED
    BY <1>16, <2>1, <2>2
<1>18. ASSUME NEW q \in Syncs, Specs!SyncRead(q) PROVE Rest
  <2>1. /\ UNCHANGED <<specs, config, memory, growing, resize, drift>>
        /\ sync[q] \in Specs!Sync
    BY <1>18 DEF Specs!SyncRead
  <2>2. PICK read \in [Specs!Synced -> Sizes] :
          /\ \A f \in Specs!Synced : read[f] \in Specs!Reported(f)
          /\ sync' = [sync EXCEPT ![q].read = read]
    BY <1>18 DEF Specs!SyncRead
  <2>3. /\ \A p \in Syncs \ {q} : sync'[p] = sync[p]
        /\ sync'[q].loaded = sync[q].loaded /\ sync'[q].met = sync[q].met
        /\ sync'[q].read = read /\ sync[q] # Nil
    BY <1>18, <2>1, <2>2 DEF Specs!Sync, Specs!SyncRead
  <2>4. ASSUME NEW f \in Specs!Synced, \A r \in Resizes : ~Specs!Works(r, f),
               f \notin drift, f # "cores"
        PROVE  read[f] = specs[f]
    <3>1. f = "memory"
      BY <2>4 DEF Specs!Synced
    <3>2. \A r \in Resizes : f \notin Specs!Touched(r)
      BY <2>4 DEF Specs!Touched
    <3>3. Specs!Agree(f)
      BY <2>4, <3>1, <3>2 DEF Specs!UntouchedSettled, Specs!Settled
    <3> QED
      BY <2>2, <3>1, <3>3 DEF Specs!Agree, Specs!Reported
  <2>5. Specs!UnmetSyncs'
    <3>1. ASSUME NEW p \in Syncs, NEW f \in Specs!Synced, sync'[p] # Nil, f \notin sync'[p].met
          PROVE  /\ \A r \in Resizes : ~Specs!Works(r, f)
                 /\ f \notin drift => sync'[p].loaded[f] = specs[f]
                 /\ f \notin drift /\ f # "cores" => sync'[p].read[f] \in {Nil, specs[f]}
      BY <2>3, <2>4, <3>1 DEF Specs!UnmetSyncs
    <3> QED
      BY <2>1, <3>1 DEF Specs!UnmetSyncs, Specs!Works
  <2> QED
    BY <1>16, <2>1, <2>5
<1>19. ASSUME NEW q \in Syncs, Specs!SyncEnd(q) PROVE Rest
  <2>1. /\ UNCHANGED <<config, memory, growing>> /\ sync[q] \in Specs!Sync
        /\ \A p \in Syncs : sync'[p] # Nil => sync'[p] = sync[p]
    BY <1>19 DEF Specs!SyncEnd
  <2>2. CASE UNCHANGED <<specs, drift, resize>>
    <3>1. Specs!UnmetSyncs'
      BY <2>1, <2>2 DEF Specs!UnmetSyncs, Specs!Works
    <3> QED
      BY <1>16, <2>1, <2>2, <3>1
  <2>3. CASE ~UNCHANGED <<specs, drift, resize>>
    <3>1. /\ specs' = [f \in Fields |-> IF f \in Specs!Differing(q) THEN sync[q].read[f] ELSE specs[f]]
          /\ drift' = drift \union (Specs!Differing(q) \intersect (sync[q].met \union {"cores"}))
          /\ resize' = Specs!Meet(Specs!Differing(q))
      BY <1>19, <2>3 DEF Specs!SyncEnd
    <3>2. Specs!Differing(q) \in SUBSET Fields
      BY DEF Specs!Differing, Specs!Synced
    <3>3. Specs!Differing(q) \subseteq drift'
      <4> SUFFICES ASSUME NEW f \in Specs!Differing(q), f \notin sync[q].met, f # "cores"
                   PROVE  f \in drift
        BY <3>1
      <4>1. f \in Specs!Synced /\ sync[q].read[f] \notin {Nil, sync[q].loaded[f]}
        BY DEF Specs!Differing
      <4> QED
        BY <1>19, <4>1 DEF Specs!UnmetSyncs, Specs!SyncEnd
    <3>4. \A f \in Fields \ Specs!Differing(q) : specs'[f] = specs[f]
      BY <3>1
    <3> QED
      BY <1>15, <2>1, <3>1, <3>2, <3>3, <3>4
  <2> QED
    BY <2>2, <2>3
<1> QED
  BY <1>4, <1>5, <1>6, <1>7, <1>8, <1>9, <1>10, <1>11, <1>12, <1>13, <1>17, <1>18, <1>19
     DEF Specs!Next

\* Row and machine agree on every size that only clean resizes have touched,
\* however resizes, edits, disk tasks, reboots and status syncs interleave.
THEOREM SizesAgree == MCSpec => []SpecsAgree
<1>1. MCInit => Specs!IInv
  BY SpecsInit DEF MCInit
<1>2. Specs!IInv /\ [MCNext]_<<part, vars, specVars>> => Specs!IInv'
  BY SpecsStep DEF MCNext, specVars
<1>3. Specs!IInv => SpecsAgree
  BY DEF Specs!IInv, Specs!UntouchedSettled, Specs!Settled, Specs!Touched,
         SpecsAgree, Specs!SpecsAgree
<1> QED
  BY <1>1, <1>2, <1>3, PTL DEF MCSpec
=============================================================================
