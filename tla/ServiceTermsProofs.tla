------------------------- MODULE ServiceTermsProofs -------------------------
(***************************************************************************)
(* Theorems about what Celery's beat starts.  ServiceTerms: retried        *)
(* renewals extend a service once, and a suspended VPS is overdue as long  *)
(* as renewal and suspension runs stay apart.  VpsSnapshots: clean-ups     *)
(* that fail half way heal, and stale lists delete no more than is known.  *)
(***************************************************************************)
EXTENDS MCServiceTerms, FiniteSetTheorems, TLAPS

Renewal == "auto_renew_vps"
Suspension == "suspend_expired_vps"

LEMMA InitInv == Init => IInv
<1> SUFFICES ASSUME Init PROVE IInv
  OBVIOUS
<1> USE TermsAssumption DEF Init, Off
<1>1. TypeOK
  BY DEF TypeOK, Job, Services
<1>2. RenewedOnce /\ SelectedWereDue
  BY DEF RenewedOnce, SelectedWereDue, Tasks
<1>3. Apart
  BY DEF Apart, SuspendedIsOverdue, Tasks, Services
<1> QED
  BY <1>1, <1>2, <1>3 DEF IInv

\* Every step keeps the types.
LEMMA StepType == TypeOK /\ [Next]_vars => TypeOK'
<1> SUFFICES ASSUME TypeOK, [Next]_vars PROVE TypeOK'
  OBVIOUS
<1> USE TermsAssumption DEF TypeOK
<1>1. CASE UNCHANGED vars
  BY <1>1 DEF vars
<1>2. CASE Tick
  BY <1>2 DEF Tick
<1>3. ASSUME NEW k \in Tasks, NEW due \in SUBSET Services, Select(k, due) PROVE TypeOK'
  BY <1>3 DEF Select, Job
<1>4. CASE SelectForRenewal
  BY <1>4, <1>3 DEF SelectForRenewal, DueForRenewal, Services, Tasks
<1>5. CASE AutoRenewVps
  <2>1. job[Renewal] \in Job
    BY DEF Tasks, Renewal
  <2>2. expires' \in [Services -> Nat]
    BY <1>5, <2>1 DEF AutoRenewVps, Job, Renewal
  <2> QED
    BY <1>5, <2>2 DEF AutoRenewVps, Job, Off
<1>6. CASE SelectForSuspension
  BY <1>6, <1>3 DEF SelectForSuspension, Services, Tasks
<1>7. ASSUME NEW s \in Vps, StopForSuspension(s) PROVE TypeOK'
  <2>1. job[Suspension] \in Job /\ s \in Services
    BY DEF Tasks, Services, Suspension
  <2>2. running' \in [Services -> BOOLEAN]
    BY <1>7 DEF StopForSuspension
  <2>3. status' \in [Services -> {"ACTIVE", "SUSPENDED"}]
        /\ reason' \in [Services -> {"none", "expired", "bandwidth"}]
    BY <1>7 DEF StopForSuspension, Suspend
  <2>4. job' \in [Tasks -> Job]
    <3> DEFINE j == job[Suspension]
               rest == [j EXCEPT !.todo = @ \ {s}, !.dirty = @ \union {s}]
    <3>1. rest \in Job /\ [rest EXCEPT !.dirty = {}] \in Job
      BY <2>1 DEF Job
    <3>2. \/ job' = [job EXCEPT ![Suspension] = [rest EXCEPT !.dirty = {}]]
          \/ job' = [job EXCEPT ![Suspension] = rest]
      BY <1>7 DEF StopForSuspension, Suspension
    <3> QED
      BY <3>1, <3>2
  <2> QED
    BY <1>7, <2>2, <2>3, <2>4 DEF StopForSuspension
<1>8. CASE SuspendExpiredVps
  BY <1>8 DEF SuspendExpiredVps, Suspend, Job, Off
<1>9. CASE SyncVpsTraffic
  BY <1>9 DEF SyncVpsTraffic
<1>10. CASE CheckExceededBandwidth
  <2>1. CASE \E seen \in SUBSET Vps :
               Select("check_exceeded_bandwidth", {s \in seen : Active(s) /\ used[s]})
    BY <2>1, <1>3 DEF Services, Tasks
  <2>2. CASE ~\E seen \in SUBSET Vps :
               Select("check_exceeded_bandwidth", {s \in seen : Active(s) /\ used[s]})
    <3>1. /\ Suspend(job["check_exceeded_bandwidth"].todo, "bandwidth")
          /\ job' = [job EXCEPT !["check_exceeded_bandwidth"] = Off]
          /\ UNCHANGED <<now, expires, used, running>>
      BY <2>2, <1>10 DEF CheckExceededBandwidth
    <3>2. Off \in Job
      BY DEF Off, Job
    <3>3. status' \in [Services -> {"ACTIVE", "SUSPENDED"}]
          /\ reason' \in [Services -> {"none", "expired", "bandwidth"}]
      BY <3>1 DEF Suspend
    <3> QED
      BY <3>1, <3>2, <3>3
  <2> QED
    BY <2>1, <2>2
<1>11. CASE AutoRenewVpn
  BY <1>11, <1>3 DEF AutoRenewVpn, Services, Tasks
<1>12. CASE SuspendAccounts
  <2>1. \E due \in SUBSET Services : Select("vpn", due)
    BY <1>12 DEF SuspendAccounts, Services
  <2> QED
    BY <2>1, <1>3 DEF Tasks
<1>13. ASSUME NEW k \in Tasks, End(k) PROVE TypeOK'
  BY <1>13 DEF End, Job, Off
<1> QED
  BY <1>1, <1>2, <1>4, <1>5, <1>6, <1>7, <1>8, <1>9, <1>10, <1>11, <1>12, <1>13 DEF Next

\* What a run selects, and what becomes of the other runs.
LEMMA Selected ==
  ASSUME TypeOK, NEW k \in Tasks, NEW due \in SUBSET Services, Select(k, due)
  PROVE  /\ ~job[k].on
         /\ job'[k].on /\ job'[k].todo = due /\ job'[k].dirty = {}
         /\ \A s \in due : job'[k].exp[s] = expires[s]
         /\ \A l \in Tasks \ {k} : job'[l] = job[l]
         /\ UNCHANGED <<now, status, reason, expires>>
BY DEF TypeOK, Select

\* What a run that is over leaves.
LEMMA Over ==
  ASSUME TypeOK, NEW k \in Tasks, job' = [job EXCEPT ![k] = Off]
  PROVE  /\ ~job'[k].on /\ job'[k].todo = {} /\ job'[k].dirty = {}
         /\ \A l \in Tasks \ {k} : job'[l] = job[l]
BY DEF TypeOK, Off

\* A run that takes up one more service.
LEMMA TakesUp ==
  ASSUME TypeOK, NEW s \in Vps, StopForSuspension(s)
  PROVE  /\ job[Suspension].on /\ s \in job[Suspension].todo
         /\ job'[Suspension].on
         /\ job'[Suspension].todo \union job'[Suspension].dirty
              \subseteq job[Suspension].todo \union job[Suspension].dirty
         /\ \A l \in Tasks \ {Suspension} : job'[l] = job[l]
         /\ UNCHANGED <<now, expires>>
         /\ \A v \in Services :
              \/ status'[v] = status[v] /\ reason'[v] = reason[v]
              \/ /\ v \in job[Suspension].todo \union job[Suspension].dirty
                 /\ status'[v] = "SUSPENDED" /\ reason'[v] = "expired"
<1> DEFINE j == job[Suspension]
           rest == [j EXCEPT !.todo = @ \ {s}, !.dirty = @ \union {s}]
<1>1. j \in Job /\ Suspension \in Tasks /\ job \in [Tasks -> Job]
  BY DEF TypeOK, Tasks, Suspension
<1>2. /\ rest.on = j.on /\ rest.todo = j.todo \ {s} /\ rest.dirty = j.dirty \union {s}
      /\ [rest EXCEPT !.dirty = {}].on = j.on
      /\ [rest EXCEPT !.dirty = {}].todo = j.todo \ {s}
      /\ [rest EXCEPT !.dirty = {}].dirty = {}
  BY <1>1 DEF Job
<1>3. j.on /\ s \in j.todo /\ UNCHANGED <<now, expires>>
  BY DEF StopForSuspension, Suspension
<1>4. CASE /\ Suspend(rest.dirty, "expired")
           /\ job' = [job EXCEPT ![Suspension] = [rest EXCEPT !.dirty = {}]]
  <2> HIDE DEF rest, j
  <2>1. job'[Suspension] = [rest EXCEPT !.dirty = {}]
        /\ \A l \in Tasks \ {Suspension} : job'[l] = job[l]
    BY <1>1, <1>4
  <2>2. \A v \in Services :
           \/ status'[v] = status[v] /\ reason'[v] = reason[v]
           \/ v \in rest.dirty /\ status'[v] = "SUSPENDED" /\ reason'[v] = "expired"
    BY <1>4 DEF Suspend
  <2> QED
    BY <1>2, <1>3, <2>1, <2>2 DEF j
<1>5. CASE job' = [job EXCEPT ![Suspension] = rest] /\ UNCHANGED <<status, reason>>
  <2> HIDE DEF rest, j
  <2>1. job'[Suspension] = rest /\ \A l \in Tasks \ {Suspension} : job'[l] = job[l]
    BY <1>1, <1>5
  <2> QED
    BY <1>2, <1>3, <1>5, <2>1 DEF j
<1> QED
  BY <1>4, <1>5 DEF StopForSuspension, Suspension

\* Every step keeps what is due and what was renewed.
LEMMA StepRenewed ==
  TypeOK /\ RenewedOnce /\ SelectedWereDue /\ [Next]_vars
    => RenewedOnce' /\ SelectedWereDue'
<1> SUFFICES ASSUME TypeOK, RenewedOnce, SelectedWereDue, [Next]_vars
             PROVE  RenewedOnce' /\ SelectedWereDue'
  OBVIOUS
<1>a. Renewal \in Tasks /\ Suspension \in Tasks /\ "vpn" \in Tasks
      /\ "check_exceeded_bandwidth" \in Tasks
  BY DEF Tasks, Renewal, Suspension
<1>b. job[Renewal] \in Job /\ now \in Nat /\ Period \in Nat
  BY <1>a, TermsAssumption DEF TypeOK
<1> DEFINE Kept == RenewedOnce' /\ SelectedWereDue'
<1>1. CASE UNCHANGED vars
  BY <1>1 DEF vars, RenewedOnce, SelectedWereDue
<1>2. CASE Tick
  <2>1. \A s \in Services : expires[s] \in Nat
    BY DEF TypeOK
  <2>2. \A s \in job[Renewal].todo : job[Renewal].exp[s] \in Nat
    BY <1>b DEF Job
  <2> QED
    BY <1>2, <1>b, <2>1, <2>2 DEF Tick, RenewedOnce, SelectedWereDue, Renewal
<1>3. ASSUME NEW k \in Tasks \ {Renewal}, NEW due \in SUBSET Services, Select(k, due)
      PROVE  Kept
  BY <1>3, <1>a, Selected DEF RenewedOnce, SelectedWereDue, Renewal
<1>4. CASE SelectForRenewal
  <2>1. Select(Renewal, DueForRenewal) /\ DueForRenewal \in SUBSET Services
    BY <1>4 DEF SelectForRenewal, DueForRenewal, Services, Renewal
  <2> QED
    BY <2>1, <1>a, Selected DEF RenewedOnce, SelectedWereDue, DueForRenewal, Renewal
<1>5. CASE AutoRenewVps
  <2>1. job' = [job EXCEPT ![Renewal] = Off] /\ now' = now
    BY <1>5 DEF AutoRenewVps, Renewal
  <2>2. SelectedWereDue'
    BY <2>1, <1>a, Over DEF SelectedWereDue, Renewal
  <2>3. ASSUME NEW s \in Services
        PROVE  expires'[s] = Start \/ (s \in Vps /\ expires'[s] <= now' + Period)
    <3>1. CASE s \in job[Renewal].todo
      <4>1. s \in Vps /\ job[Renewal].exp[s] <= now /\ job[Renewal].exp[s] \in Nat
        BY <3>1, <1>b DEF SelectedWereDue, Renewal, Job
      <4>2. expires'[s] = job[Renewal].exp[s] + Period
        BY <1>5, <3>1 DEF AutoRenewVps, Renewal
      <4> QED
        BY <4>1, <4>2, <2>1, <1>b
    <3>2. CASE s \notin job[Renewal].todo
      BY <1>5, <3>2, <2>1 DEF AutoRenewVps, Renewal, RenewedOnce
    <3> QED
      BY <3>1, <3>2
  <2> QED
    BY <2>2, <2>3 DEF RenewedOnce
<1>6. CASE SelectForSuspension
  BY <1>6, <1>3, <1>a DEF SelectForSuspension, Services, Renewal, Suspension
<1>7. ASSUME NEW s \in Vps, StopForSuspension(s) PROVE Kept
  BY <1>7, <1>a, TakesUp DEF RenewedOnce, SelectedWereDue, Renewal, Suspension
<1>8. CASE SuspendExpiredVps
  BY <1>8, <1>a, Over DEF SuspendExpiredVps, RenewedOnce, SelectedWereDue, Renewal, Suspension
<1>9. CASE SyncVpsTraffic
  BY <1>9 DEF SyncVpsTraffic, RenewedOnce, SelectedWereDue
<1>10. CASE CheckExceededBandwidth
  <2>1. CASE \E seen \in SUBSET Vps :
               Select("check_exceeded_bandwidth", {s \in seen : Active(s) /\ used[s]})
    BY <2>1, <1>3, <1>a DEF Services, Renewal
  <2>2. CASE ~\E seen \in SUBSET Vps :
               Select("check_exceeded_bandwidth", {s \in seen : Active(s) /\ used[s]})
    BY <2>2, <1>10, <1>a, Over
       DEF CheckExceededBandwidth, RenewedOnce, SelectedWereDue, Renewal
  <2> QED
    BY <2>1, <2>2
<1>11. CASE AutoRenewVpn
  BY <1>11, <1>3, <1>a DEF AutoRenewVpn, Services, Renewal
<1>12. CASE SuspendAccounts
  <2>1. \E due \in SUBSET Services : Select("vpn", due)
    BY <1>12 DEF SuspendAccounts, Services
  <2> QED
    BY <2>1, <1>3, <1>a DEF Renewal
<1>13. ASSUME NEW k \in Tasks, End(k) PROVE Kept
  <2>1. job' = [job EXCEPT ![k] = Off] /\ UNCHANGED <<now, expires>>
    BY <1>13 DEF End
  <2> QED
    BY <2>1, <1>a, Over DEF RenewedOnce, SelectedWereDue, Renewal
<1> QED
  BY <1>1, <1>2, <1>4, <1>5, <1>6, <1>7, <1>8, <1>9, <1>10, <1>11, <1>12, <1>13 DEF Next

\* Every step keeps the two runs and what they have in hand apart.
LEMMA StepApart == TypeOK /\ Apart /\ [Next]_vars => Apart'
<1> SUFFICES ASSUME TypeOK, Apart, [Next]_vars, ~Overlap PROVE Apart'
  BY DEF Apart
<1>a. Renewal \in Tasks /\ Suspension \in Tasks /\ "vpn" \in Tasks
      /\ "check_exceeded_bandwidth" \in Tasks /\ Vps \subseteq Services
  BY DEF Tasks, Renewal, Suspension, Services
<1>b. /\ now \in Nat /\ Period \in Nat /\ Grace \in Nat
      /\ \A s \in Services : expires[s] \in Nat
  BY <1>a, TermsAssumption DEF TypeOK
<1>c. /\ ~(job[Renewal].on /\ job[Suspension].on)
      /\ \A k \in Tasks : job[k].on \/ job[k].todo \union job[k].dirty = {}
      /\ \A s \in job[Suspension].todo \union job[Suspension].dirty :
           s \in Vps /\ expires[s] + Grace <= now
      /\ \A s \in job[Renewal].todo : reason[s] # "expired"
      /\ \A s \in Vps : reason[s] = "expired" => ~Active(s)
      /\ \A s \in Vps : reason[s] = "expired" => expires[s] + Grace <= now
  BY DEF Apart, SuspendedIsOverdue, Renewal, Suspension
<1>d. ASSUME /\ ~(job'[Renewal].on /\ job'[Suspension].on)
             /\ \A k \in Tasks : job'[k].on \/ job'[k].todo \union job'[k].dirty = {},
             \A s \in job'[Suspension].todo \union job'[Suspension].dirty :
               s \in Vps /\ expires'[s] + Grace <= now',
             \A s \in job'[Renewal].todo : reason'[s] # "expired",
             \A s \in Vps : reason'[s] = "expired" =>
               status'[s] # "ACTIVE" /\ expires'[s] + Grace <= now'
      PROVE  Apart'
  BY <1>d DEF Apart, SuspendedIsOverdue, Renewal, Suspension, Active
<1>1. CASE UNCHANGED vars
  BY <1>1, <1>c, <1>d DEF vars, Active
<1>2. CASE Tick
  BY <1>2, <1>b, <1>c, <1>d, <1>a DEF Tick, Active
<1>3. ASSUME NEW k \in Tasks \ {Renewal, Suspension}, NEW due \in SUBSET Services,
             Select(k, due)
      PROVE  Apart'
  BY <1>3, <1>a, <1>c, <1>d, Selected DEF Active
<1>4. CASE SelectForRenewal
  <2>1. Select(Renewal, DueForRenewal) /\ DueForRenewal \in SUBSET Services
        /\ ~job[Suspension].on
    BY <1>4 DEF SelectForRenewal, DueForRenewal, Services, Renewal, Suspension
  <2>2. \A s \in DueForRenewal : reason[s] # "expired"
    BY <1>c DEF DueForRenewal
  <2>3. Renewal # Suspension
    BY DEF Renewal, Suspension
  <2> QED
    BY <2>1, <2>2, <2>3, <1>a, <1>c, <1>d, Selected DEF Active
<1>5. CASE AutoRenewVps
  <2>1. /\ job' = [job EXCEPT ![Renewal] = Off] /\ job[Renewal].on
        /\ UNCHANGED <<now, status, reason>>
        /\ \A s \in Services \ job[Renewal].todo : expires'[s] = expires[s]
    BY <1>5 DEF AutoRenewVps, Renewal
  <2>2. job[Suspension].todo \union job[Suspension].dirty = {}
    BY <2>1, <1>a, <1>c
  <2>3. Renewal # Suspension
    BY DEF Renewal, Suspension
  <2>4. /\ ~job'[Renewal].on /\ job'[Renewal].todo = {}
        /\ job'[Suspension] = job[Suspension]
        /\ \A k \in Tasks : job'[k].on \/ job'[k].todo \union job'[k].dirty = {}
    <3>1. Renewal \in Tasks /\ Suspension \in Tasks /\ job' = [job EXCEPT ![Renewal] = Off]
      BY <2>1, <1>a DEF Tasks, Renewal, Suspension
    <3>2. /\ ~job'[Renewal].on /\ job'[Renewal].todo = {} /\ job'[Renewal].dirty = {}
          /\ \A l \in Tasks \ {Renewal} : job'[l] = job[l]
      BY <3>1, <1>a, Over
    <3> QED
      BY <2>3, <3>1, <3>2, <1>a, <1>c
  <2>5. \A s \in Vps : reason'[s] = "expired" =>
          status'[s] # "ACTIVE" /\ expires'[s] + Grace <= now'
    <3> SUFFICES ASSUME NEW s \in Vps, reason'[s] = "expired"
                 PROVE  status'[s] # "ACTIVE" /\ expires'[s] + Grace <= now'
      OBVIOUS
    <3>1. s \in Services \ job[Renewal].todo
      BY <2>1, <1>a, <1>c
    <3> QED
      BY <2>1, <3>1, <1>c DEF Active
  <2> QED
    BY <2>2, <2>4, <2>5, <1>d
<1>6. CASE SelectForSuspension
  <2> DEFINE due == {s \in Vps : Active(s) /\ expires[s] + Grace <= now}
  <2>1. Select(Suspension, due) /\ due \in SUBSET Services /\ ~job[Renewal].on
    BY <1>6 DEF SelectForSuspension, Services, Renewal, Suspension
  <2>2. \A s \in due : s \in Vps /\ expires[s] + Grace <= now
    OBVIOUS
  <2>3. Renewal # Suspension
    BY DEF Renewal, Suspension
  <2> HIDE DEF due
  <2> QED
    BY <2>1, <2>2, <2>3, <1>a, <1>c, <1>d, Selected DEF Active
<1>7. ASSUME NEW s \in Vps, StopForSuspension(s) PROVE Apart'
  <2>1. ~job[Renewal].on /\ job[Renewal].todo = {} /\ Renewal # Suspension
    BY <1>7, <1>a, <1>c, TakesUp DEF Renewal, Suspension
  <2>2. \A k \in Tasks : job'[k].on \/ job'[k].todo \union job'[k].dirty = {}
    BY <1>7, <1>a, <1>c, TakesUp
  <2>3. job'[Renewal].todo = {} /\ ~job'[Renewal].on
    BY <1>7, <1>a, <2>1, TakesUp
  <2>4. \A v \in job'[Suspension].todo \union job'[Suspension].dirty :
          v \in Vps /\ expires'[v] + Grace <= now'
    BY <1>7, <1>c, TakesUp
  <2>5. \A v \in Vps : reason'[v] = "expired" =>
          status'[v] # "ACTIVE" /\ expires'[v] + Grace <= now'
    BY <1>7, <1>a, <1>c, TakesUp DEF Active
  <2> QED
    BY <2>2, <2>3, <2>4, <2>5, <1>d
<1>8. CASE SuspendExpiredVps
  <2>1. /\ job' = [job EXCEPT ![Suspension] = Off] /\ UNCHANGED <<now, expires>>
        /\ Suspend(job[Suspension].dirty, "expired") /\ job[Suspension].on
    BY <1>8 DEF SuspendExpiredVps, Suspension
  <2>2. \A v \in Vps : reason'[v] = "expired" =>
          status'[v] # "ACTIVE" /\ expires'[v] + Grace <= now'
    BY <2>1, <1>a, <1>c DEF Suspend, Active
  <2>3. job[Renewal].todo = {} /\ ~job[Renewal].on /\ Renewal # Suspension
    BY <2>1, <1>a, <1>c DEF Renewal, Suspension
  <2> QED
    BY <2>1, <2>2, <2>3, <1>a, <1>c, <1>d, Over
<1>9. CASE SyncVpsTraffic
  BY <1>9, <1>c, <1>d DEF SyncVpsTraffic, Active
<1>10. CASE CheckExceededBandwidth
  <2>1. CASE \E seen \in SUBSET Vps :
               Select("check_exceeded_bandwidth", {s \in seen : Active(s) /\ used[s]})
    BY <2>1, <1>3, <1>a DEF Services, Renewal, Suspension
  <2>2. CASE ~\E seen \in SUBSET Vps :
               Select("check_exceeded_bandwidth", {s \in seen : Active(s) /\ used[s]})
    <3>1. /\ Suspend(job["check_exceeded_bandwidth"].todo, "bandwidth")
          /\ job' = [job EXCEPT !["check_exceeded_bandwidth"] = Off]
          /\ UNCHANGED <<now, expires>>
      BY <2>2, <1>10 DEF CheckExceededBandwidth
    <3>2. \A v \in Services : reason'[v] = "expired" =>
            reason[v] = "expired" /\ status'[v] = status[v]
      BY <3>1 DEF Suspend
    <3>3. /\ job'[Renewal] = job[Renewal] /\ job'[Suspension] = job[Suspension]
          /\ \A k \in Tasks : job'[k].on \/ job'[k].todo \union job'[k].dirty = {}
      BY <3>1, <1>a, <1>c, Over DEF Renewal, Suspension
    <3>4. job[Renewal].todo \subseteq Services
      BY <1>a DEF TypeOK, Job
    <3> QED
      BY <3>1, <3>2, <3>3, <3>4, <1>a, <1>c, <1>d DEF Active
  <2> QED
    BY <2>1, <2>2
<1>11. CASE AutoRenewVpn
  BY <1>11, <1>3, <1>a DEF AutoRenewVpn, Services, Renewal, Suspension
<1>12. CASE SuspendAccounts
  <2>1. \E due \in SUBSET Services : Select("vpn", due)
    BY <1>12 DEF SuspendAccounts, Services
  <2> QED
    BY <2>1, <1>3, <1>a DEF Renewal, Suspension
<1>13. ASSUME NEW k \in Tasks, End(k) PROVE Apart'
  <2>1. job' = [job EXCEPT ![k] = Off] /\ UNCHANGED <<now, status, reason, expires>>
    BY <1>13 DEF End
  <2> QED
    BY <2>1, <1>a, <1>c, <1>d, Over DEF Active
<1> QED
  BY <1>1, <1>2, <1>4, <1>5, <1>6, <1>7, <1>8, <1>9, <1>10, <1>11, <1>12, <1>13 DEF Next

LEMMA Inductive == Spec => []IInv
<1>1. IInv /\ [Next]_vars => IInv'
  BY StepType, StepRenewed, StepApart DEF IInv
<1> QED
  BY InitInv, <1>1, PTL DEF Spec

\* auto_renew_vps commits before its audit entry is refused, so Celery runs it
\* again: whatever it has loaded, a service is extended once for each expiry.
THEOREM RenewedOnceHolds == Spec => []RenewedOnce
<1>1. IInv => RenewedOnce
  BY DEF IInv
<1> QED
  BY Inductive, <1>1, PTL

\* With renewal and suspension runs kept apart, a VPS suspended because it
\* expired has not been renewed.
THEOREM SuspendedIsOverdueHolds ==
  ASSUME ~Overlap
  PROVE  Spec => []SuspendedIsOverdue
<1>1. IInv => SuspendedIsOverdue
  BY DEF IInv, Apart
<1> QED
  BY Inductive, <1>1, PTL

-----------------------------------------------------------------------------
(* The snapshots of a machine *)

LEMMA SnapConstants ==
    /\ Keep \in Nat /\ MaxRows \in Nat /\ AutoRun \notin Admins
    /\ AutoRun \in Snapshots!Workers /\ Admins \subseteq Snapshots!Workers
    /\ Snapshots!AutoNames \subseteq Snapshots!Names
<1>1. Snapshots!SnapshotsAssumption
  BY SnapshotsAssumption
<1>2. Keep \in Nat /\ MaxRows \in Nat /\ AutoRun \notin Admins
  BY <1>1 DEF Snapshots!SnapshotsAssumption
<1> QED
  BY <1>2 DEF Snapshots!Workers, Snapshots!Names

\* Sets of creations are finite, and the smaller of two counts less.
LEMMA SnapCounts ==
    ASSUME NEW S, S \subseteq Snapshots!Stamps, NEW T, T \subseteq S
    PROVE  /\ IsFiniteSet(S) /\ Cardinality(S) \in Nat /\ Cardinality(T) \in Nat
           /\ Cardinality(T) <= Cardinality(S)
<1>1. IsFiniteSet(Snapshots!Stamps)
  BY SnapConstants, FS_Interval DEF Snapshots!Stamps
<1>2. IsFiniteSet(S) /\ IsFiniteSet(T) /\ Cardinality(T) <= Cardinality(S)
  BY <1>1, FS_Subset
<1> QED
  BY <1>2, FS_CardinalityType

\* A set with one element more counts one more.
LEMMA SnapOne ==
    ASSUME NEW S, S \subseteq Snapshots!Stamps, NEW k \in S
    PROVE  /\ Cardinality(S) \in Nat /\ Cardinality(S \ {k}) \in Nat
           /\ Cardinality(S) = Cardinality(S \ {k}) + 1
<1>1. IsFiniteSet(S) /\ Cardinality(S) \in Nat /\ Cardinality(S \ {k}) \in Nat
  BY SnapCounts
<1>2. Cardinality(S \ {k}) = Cardinality(S) - 1
  BY <1>1, FS_RemoveElement
<1> QED
  BY <1>1, <1>2

\* A set that counts no more than one has at most one element.
LEMMA SnapFew ==
    ASSUME NEW S, S \subseteq Snapshots!Stamps, Cardinality(S) <= 1, NEW k \in S
    PROVE  S = {k}
<1>1. Cardinality(S \ {k}) = 0 /\ IsFiniteSet(S \ {k})
  BY SnapOne, SnapCounts
<1>2. S \ {k} = {}
  BY <1>1, FS_EmptySet
<1> QED
  BY <1>2

LEMMA SnapTypes ==
    ASSUME Snapshots!TypeOK
    PROVE  /\ Snapshots!AutoRows \subseteq Snapshots!Stamps
           /\ Cardinality(Snapshots!AutoRows) \in Nat
           /\ \A w \in Snapshots!Workers :
                /\ worker[w] \in Snapshots!Job
                /\ worker[w].todo \subseteq Snapshots!Stamps
                /\ worker[w].name \in Snapshots!Names \union {Nil}
                /\ worker[w].at \in {"idle", "create", "record", "list", "delete", "drop"}
<1>1. Snapshots!AutoRows \subseteq Snapshots!Stamps
  BY DEF Snapshots!AutoRows, Snapshots!TypeOK
<1> QED
  BY <1>1, SnapCounts DEF Snapshots!TypeOK, Snapshots!Job

LEMMA SnapCardinality == \A S : Snapshots!Cardinality(S) = Cardinality(S)
  BY DEF Snapshots!Cardinality, Cardinality

\* What a step does to the job of the one who takes it.
LEMMA SnapJob ==
    ASSUME Snapshots!TypeOK, NEW w \in Snapshots!Workers,
           NEW at \in {"idle", "create", "record", "list", "delete", "drop"},
           NEW name \in Snapshots!Names \union {Nil}, NEW todo \in SUBSET Snapshots!Stamps,
           Snapshots!To(w, at, name, todo)
    PROVE  /\ worker' \in [Snapshots!Workers -> Snapshots!Job]
           /\ worker'[w].at = at /\ worker'[w].name = name /\ worker'[w].todo = todo
           /\ \A v \in Snapshots!Workers \ {w} : worker'[v] = worker[v]
<1>1. PICK j : j = [at |-> at, name |-> name, todo |-> todo]
  OBVIOUS
<1>2. j \in Snapshots!Job /\ j.at = at /\ j.name = name /\ j.todo = todo
  BY <1>1 DEF Snapshots!Job
<1>3. worker' = [worker EXCEPT ![w] = j]
  BY <1>1 DEF Snapshots!To
<1> QED
  BY <1>2, <1>3 DEF Snapshots!TypeOK

LEMMA SnapFinish ==
    ASSUME Snapshots!TypeOK, NEW w \in Snapshots!Workers, Snapshots!Finish(w)
    PROVE  /\ worker' \in [Snapshots!Workers -> Snapshots!Job]
           /\ worker'[w].at = "idle" /\ worker'[w].todo = {}
           /\ \A v \in Snapshots!Workers \ {w} : worker'[v] = worker[v]
<1>1. Snapshots!To(w, "idle", Nil, {})
  BY DEF Snapshots!To, Snapshots!Finish, Snapshots!Idle
<1>2. {} \in SUBSET Snapshots!Stamps /\ Nil \in Snapshots!Names \union {Nil}
  OBVIOUS
<1> QED
  BY <1>1, <1>2, SnapJob

LEMMA SnapInit == Snapshots!Init => Snapshots!IInv
<1> SUFFICES ASSUME Snapshots!Init PROVE Snapshots!IInv
  OBVIOUS
<1>1. Snapshots!TypeOK
  BY SnapConstants DEF Snapshots!Init, Snapshots!TypeOK, Snapshots!Idle, Snapshots!Job
<1>2. \A w \in Snapshots!Workers : worker[w].at = "idle" /\ worker[w].todo = {}
  BY DEF Snapshots!Init, Snapshots!Idle
<1>3. Snapshots!Shape
  BY <1>1, <1>2, SnapConstants
     DEF Snapshots!Shape, Snapshots!CreatesApart, Snapshots!CleansAuto, Snapshots!ClockAhead,
         Snapshots!OthersIdle, Snapshots!Cleaning, Snapshots!At, Snapshots!Init
<1>4. Snapshots!AutoRows = {} /\ lost = 0 /\ fresh = 0
  BY DEF Snapshots!Init, Snapshots!AutoRows
<1>5. Snapshots!Cardinality(Snapshots!AutoRows) = 0
  BY <1>4, SnapCardinality, FS_EmptySet
<1>6. Snapshots!RetentionHeals
  BY <1>4, <1>5, SnapConstants DEF Snapshots!RetentionHeals
<1> QED
  BY <1>2, <1>3, <1>6, SnapConstants DEF Snapshots!IInv, Snapshots!Leaves, Snapshots!Cleaning

\* The invariant, where the rows stay as they are and nothing but w moves: it is
\* an administrator, or a run that goes on with its clean-up, is not in one, or
\* gives up.
LEMMA SnapQuiet ==
    ASSUME Snapshots!IInv, Snapshots!Shape', NEW w \in Snapshots!Workers,
           \A v \in Snapshots!Workers \ {w} : worker'[v] = worker[v],
           Snapshots!AutoRows' = Snapshots!AutoRows,
           UNCHANGED <<snapshots, taken, fresh>>,
           \/ w # AutoRun /\ lost' = lost
           \/ /\ w = AutoRun /\ lost' = lost
              /\ worker'[w].at \in {"delete", "drop"} /\ worker[w].at \in {"delete", "drop"}
              /\ worker'[w].todo = worker[w].todo
           \/ /\ w = AutoRun /\ lost' = lost
              /\ worker'[w].at \in {"idle", "create", "record"}
              /\ worker[w].at \in {"idle", "create", "record"}
           \/ w = AutoRun /\ worker'[w].at = "idle" /\ lost' = lost + 1
    PROVE  Snapshots!IInv'
<1>1. /\ lost \in Nat /\ fresh \in Nat /\ Keep \in Nat /\ AutoRun \in Snapshots!Workers
      /\ Snapshots!Cardinality(Snapshots!AutoRows) \in Nat
  BY SnapConstants, SnapTypes, SnapCardinality
     DEF Snapshots!IInv, Snapshots!Shape, Snapshots!TypeOK
<1>2. Snapshots!RetentionHeals'
  BY <1>1 DEF Snapshots!IInv, Snapshots!RetentionHeals, Snapshots!Cleaning, Snapshots!At
<1>3. Snapshots!Leaves'
  BY <1>1 DEF Snapshots!IInv, Snapshots!Leaves, Snapshots!Cleaning
<1> QED
  BY <1>2, <1>3 DEF Snapshots!IInv

LEMMA SnapCreates ==
    ASSUME Snapshots!IInv, NEW w \in Snapshots!Workers, NEW n \in Snapshots!Names,
           Snapshots!Creates(w, n)
    PROVE  Snapshots!IInv'
<1> USE DEF Snapshots!IInv, Snapshots!Shape
<1>1. /\ worker[w].at = "idle" /\ clock < MaxRows /\ clock' = clock + 1
      /\ named' = [named EXCEPT ![clock + 1] = n]
      /\ Snapshots!To(w, "create", n, {clock + 1})
      /\ UNCHANGED <<images, snapshots, lost, fresh, taken>>
  BY DEF Snapshots!Creates, Snapshots!At
<1>2. /\ clock \in Nat /\ clock + 1 \in 0..MaxRows /\ clock + 1 \in Snapshots!Stamps
      /\ {clock + 1} \in SUBSET Snapshots!Stamps
  BY <1>1, SnapConstants DEF Snapshots!TypeOK, Snapshots!Stamps
<1>3. /\ worker' \in [Snapshots!Workers -> Snapshots!Job]
      /\ worker'[w].at = "create" /\ worker'[w].name = n /\ worker'[w].todo = {clock + 1}
      /\ \A v \in Snapshots!Workers \ {w} : worker'[v] = worker[v]
  BY <1>1, <1>2, SnapJob
<1>4. /\ named' \in [Snapshots!Stamps -> Snapshots!Names \union {Nil}]
      /\ named'[clock + 1] = n
      /\ \A k \in Snapshots!Stamps \ {clock + 1} : named'[k] = named[k]
  BY <1>1, <1>2 DEF Snapshots!TypeOK
<1>5. /\ clock + 1 \notin snapshots
      /\ \A v \in Snapshots!Workers : clock + 1 \notin worker[v].todo
      /\ \A k \in Snapshots!Stamps : k > clock + 1 => k > clock
  BY <1>2 DEF Snapshots!ClockAhead, Snapshots!Stamps
<1>6. Snapshots!TypeOK'
  BY <1>1, <1>2, <1>3, <1>4 DEF Snapshots!TypeOK
<1>7. Snapshots!AutoRows' = Snapshots!AutoRows
  BY <1>1, <1>4, <1>5 DEF Snapshots!AutoRows, Snapshots!TypeOK
<1>8. Snapshots!CreatesApart'
  <2> SUFFICES ASSUME NEW v \in Snapshots!Workers, worker'[v].at \in {"create", "record"}
               PROVE  \E k \in 1..clock' :
                        /\ worker'[v].todo = {k} /\ worker'[v].name = named'[k]
                        /\ named'[k] \in Snapshots!Names /\ k \notin snapshots'
                        /\ \A u \in Snapshots!Workers \ {v} : k \notin worker'[u].todo
    BY DEF Snapshots!CreatesApart, Snapshots!At
  <2>1. CASE v = w
    <3>1. clock + 1 \in 1..clock'
      BY <1>1, <1>2
    <3> QED
      BY <1>1, <1>3, <1>4, <1>5, <2>1, <3>1
  <2>2. CASE v # w
    <3>1. PICK k \in 1..clock :
            /\ worker[v].todo = {k} /\ worker[v].name = named[k]
            /\ named[k] \in Snapshots!Names /\ k \notin snapshots
            /\ \A u \in Snapshots!Workers \ {v} : k \notin worker[u].todo
      BY <1>3, <2>2 DEF Snapshots!CreatesApart, Snapshots!At
    <3>2. k \in 1..clock' /\ k \in Snapshots!Stamps /\ k # clock + 1
      BY <1>1, <1>2, SnapConstants DEF Snapshots!Stamps
    <3> QED
      BY <1>1, <1>3, <1>4, <2>2, <3>1, <3>2
  <2> QED
    BY <2>1, <2>2
<1>9. Snapshots!ClockAhead'
  BY <1>1, <1>2, <1>3, <1>5 DEF Snapshots!ClockAhead, Snapshots!Stamps
<1>10. Snapshots!OthersIdle'
  BY <1>3, SnapConstants DEF Snapshots!OthersIdle, Snapshots!Cleaning, Snapshots!At
<1>11. Snapshots!CleansAuto'
  <2> SUFFICES ASSUME Snapshots!Cleaning'
               PROVE  /\ \A k \in worker'[AutoRun].todo :
                           k <= clock' /\ named'[k] \in Snapshots!AutoNames
                      /\ \E k \in worker'[AutoRun].todo :
                           /\ Snapshots!Oldest(k, worker'[AutoRun].todo)
                           /\ worker'[AutoRun].name = named'[k]
    BY DEF Snapshots!CleansAuto, Snapshots!Oldest
  <2>1. worker'[AutoRun] = worker[AutoRun] /\ Snapshots!Cleaning
    BY <1>3, SnapConstants DEF Snapshots!Cleaning
  <2>2. \A k \in worker[AutoRun].todo :
          k \in Snapshots!Stamps /\ k <= clock' /\ named'[k] = named[k]
    BY <1>1, <1>2, <1>4, <1>5, <2>1, SnapTypes, SnapConstants
       DEF Snapshots!CleansAuto, Snapshots!Stamps
  <2> QED
    BY <2>1, <2>2 DEF Snapshots!CleansAuto
<1>12. Snapshots!Shape'
  BY <1>6, <1>8, <1>9, <1>10, <1>11
<1> QED
  BY <1>1, <1>3, <1>7, <1>12, SnapQuiet

\* Administrators move on, and neither names nor rows change.
LEMMA SnapShape ==
    ASSUME Snapshots!Shape, NEW w \in Snapshots!Workers, Snapshots!TypeOK',
           \A v \in Snapshots!Workers \ {w} : worker'[v] = worker[v],
           UNCHANGED <<named, clock>>, snapshots' \subseteq snapshots,
           \/ worker'[w].at \in {"idle", "list"} /\ worker'[w].todo = {}
           \/ w # AutoRun /\ worker'[w].at \in {"delete", "drop"} /\ worker'[w].todo = {}
           \/ /\ worker[w].at = "create" /\ worker'[w].at = "record"
              /\ worker'[w].todo = worker[w].todo /\ worker'[w].name = worker[w].name
           \/ /\ worker[w].at = "delete" /\ worker'[w].at = "drop"
              /\ worker'[w].todo = worker[w].todo /\ worker'[w].name = worker[w].name
    PROVE  Snapshots!Shape'
<1> USE DEF Snapshots!Shape
<1>1. worker'[w].todo \subseteq worker[w].todo
  OBVIOUS
<1>2. AutoRun \in Snapshots!Workers
  BY SnapConstants
<1>3. Snapshots!CreatesApart'
  <2> SUFFICES ASSUME NEW v \in Snapshots!Workers, worker'[v].at \in {"create", "record"}
               PROVE  \E k \in 1..clock' :
                        /\ worker'[v].todo = {k} /\ worker'[v].name = named'[k]
                        /\ named'[k] \in Snapshots!Names /\ k \notin snapshots'
                        /\ \A u \in Snapshots!Workers \ {v} : k \notin worker'[u].todo
    BY DEF Snapshots!CreatesApart, Snapshots!At
  <2>1. /\ worker[v].at \in {"create", "record"}
        /\ worker'[v].todo = worker[v].todo /\ worker'[v].name = worker[v].name
    OBVIOUS
  <2>2. PICK k \in 1..clock :
          /\ worker[v].todo = {k} /\ worker[v].name = named[k]
          /\ named[k] \in Snapshots!Names /\ k \notin snapshots
          /\ \A u \in Snapshots!Workers \ {v} : k \notin worker[u].todo
    BY <2>1 DEF Snapshots!CreatesApart, Snapshots!At
  <2>3. \A u \in Snapshots!Workers \ {v} : k \notin worker'[u].todo
    BY <1>1, <2>2
  <2> QED
    BY <2>1, <2>2, <2>3
<1>4. Snapshots!CleansAuto'
  <2> SUFFICES ASSUME Snapshots!Cleaning'
               PROVE  /\ \A k \in worker'[AutoRun].todo :
                           k <= clock' /\ named'[k] \in Snapshots!AutoNames
                      /\ \E k \in worker'[AutoRun].todo :
                           /\ Snapshots!Oldest(k, worker'[AutoRun].todo)
                           /\ worker'[AutoRun].name = named'[k]
    BY DEF Snapshots!CleansAuto, Snapshots!Oldest
  <2>1. /\ Snapshots!Cleaning
        /\ worker'[AutoRun].todo = worker[AutoRun].todo
        /\ worker'[AutoRun].name = worker[AutoRun].name
    BY <1>2 DEF Snapshots!Cleaning
  <2> QED
    BY <2>1 DEF Snapshots!CleansAuto
<1>5. Snapshots!ClockAhead'
  BY <1>1 DEF Snapshots!ClockAhead
<1>6. Snapshots!OthersIdle'
  <2> SUFFICES ASSUME NEW v \in Snapshots!Workers,
                      ~(worker'[v].at \in {"create", "record"} \/ (v = AutoRun /\ Snapshots!Cleaning'))
               PROVE  worker'[v].todo = {}
    BY DEF Snapshots!OthersIdle, Snapshots!At
  <2>1. CASE v = w
    BY <1>2, <2>1 DEF Snapshots!OthersIdle, Snapshots!At, Snapshots!Cleaning
  <2>2. CASE v # w
    BY <1>2, <2>2 DEF Snapshots!OthersIdle, Snapshots!At, Snapshots!Cleaning
  <2> QED
    BY <2>1, <2>2
<1> QED
  BY <1>3, <1>4, <1>5, <1>6

LEMMA SnapBegin ==
    ASSUME Snapshots!IInv,
           \/ Snapshots!AutoSnapshotVps
           \/ \E w \in Admins : Snapshots!CreateSnapshot(w) \/ Snapshots!DeleteSnapshot(w)
    PROVE  Snapshots!IInv'
<1> USE DEF Snapshots!IInv, Snapshots!Shape
<1>1. CASE Snapshots!AutoSnapshotVps
  <2>1. clock + 1 \in Snapshots!Names /\ Snapshots!Creates(AutoRun, clock + 1)
    BY <1>1, SnapConstants
       DEF Snapshots!AutoSnapshotVps, Snapshots!Creates, Snapshots!TypeOK, Snapshots!AutoNames
  <2> QED
    BY <2>1, SnapCreates, SnapConstants
<1>2. ASSUME NEW w \in Admins, Snapshots!CreateSnapshot(w) PROVE Snapshots!IInv'
  BY <1>2, SnapCreates, SnapConstants DEF Snapshots!CreateSnapshot
<1>3. ASSUME NEW w \in Admins, Snapshots!DeleteSnapshot(w) PROVE Snapshots!IInv'
  <2>1. PICK n \in Snapshots!Names :
          /\ Snapshots!To(w, "delete", n, {})
          /\ UNCHANGED <<images, snapshots, named, clock, lost, fresh, taken>>
    BY <1>3 DEF Snapshots!DeleteSnapshot
  <2>2. w \in Snapshots!Workers /\ w # AutoRun /\ {} \in SUBSET Snapshots!Stamps
    BY SnapConstants
  <2>3. /\ worker' \in [Snapshots!Workers -> Snapshots!Job]
        /\ worker'[w].at = "delete" /\ worker'[w].todo = {}
        /\ \A v \in Snapshots!Workers \ {w} : worker'[v] = worker[v]
    BY <2>1, <2>2, SnapJob
  <2>4. Snapshots!TypeOK'
    BY <2>1, <2>3 DEF Snapshots!TypeOK
  <2>5. Snapshots!Shape'
    BY <2>1, <2>2, <2>3, <2>4, SnapShape
  <2>6. Snapshots!AutoRows' = Snapshots!AutoRows
    BY <2>1 DEF Snapshots!AutoRows
  <2> QED
    BY <2>1, <2>2, <2>3, <2>5, <2>6, SnapQuiet
<1> QED
  BY <1>1, <1>2, <1>3

\* An operation raises: the run's counts if it had added its row.
LEMMA SnapEnds ==
    ASSUME Snapshots!IInv, NEW w \in Snapshots!Workers, Snapshots!Ends(w),
           UNCHANGED <<snapshots, named, clock, fresh, taken>>, images' \subseteq Snapshots!Names
    PROVE  Snapshots!IInv'
<1> USE DEF Snapshots!IInv, Snapshots!Shape
<1>1. /\ Snapshots!Finish(w)
      /\ lost' = IF w = AutoRun /\ worker[w].at \in {"list", "delete", "drop"}
                   THEN lost + 1 ELSE lost
  BY DEF Snapshots!Ends
<1>2. /\ worker' \in [Snapshots!Workers -> Snapshots!Job]
      /\ worker'[w].at = "idle" /\ worker'[w].todo = {}
      /\ \A v \in Snapshots!Workers \ {w} : worker'[v] = worker[v]
  BY <1>1, SnapFinish
<1>3. Snapshots!TypeOK'
  BY <1>1, <1>2 DEF Snapshots!TypeOK
<1>4. Snapshots!Shape'
  BY <1>2, <1>3, SnapShape
<1>5. worker[w].at \in {"idle", "create", "record", "list", "delete", "drop"}
  BY SnapTypes
<1>6. Snapshots!AutoRows' = Snapshots!AutoRows
  BY DEF Snapshots!AutoRows
<1>7. \/ w # AutoRun /\ lost' = lost
      \/ /\ w = AutoRun /\ lost' = lost
         /\ worker'[w].at \in {"idle", "create", "record"}
         /\ worker[w].at \in {"idle", "create", "record"}
      \/ w = AutoRun /\ worker'[w].at = "idle" /\ lost' = lost + 1
  BY <1>1, <1>2, <1>5
<1> QED
  BY <1>2, <1>4, <1>6, <1>7, SnapQuiet

LEMMA SnapProxmox ==
    ASSUME Snapshots!IInv, NEW w \in Snapshots!Workers,
           Snapshots!ProxmoxCreate(w) \/ Snapshots!ProxmoxDelete(w) \/ Snapshots!Fail(w)
    PROVE  Snapshots!IInv'
<1> USE DEF Snapshots!IInv, Snapshots!Shape
<1>1. /\ worker[w].todo \in SUBSET Snapshots!Stamps
      /\ worker[w].name \in Snapshots!Names \union {Nil}
  BY SnapTypes
<1>2. CASE Snapshots!ProxmoxCreate(w)
  <2>1. /\ worker[w].at = "create" /\ images' = images \union {worker[w].name}
        /\ Snapshots!To(w, "record", worker[w].name, worker[w].todo) \/ Snapshots!Finish(w)
        /\ UNCHANGED <<snapshots, named, clock, lost, fresh, taken>>
    BY <1>2 DEF Snapshots!ProxmoxCreate, Snapshots!At
  <2>2. worker[w].name \in Snapshots!Names
    BY <2>1 DEF Snapshots!CreatesApart, Snapshots!At
  <2>3. /\ worker' \in [Snapshots!Workers -> Snapshots!Job]
        /\ \A v \in Snapshots!Workers \ {w} : worker'[v] = worker[v]
        /\ \/ worker'[w].at = "idle" /\ worker'[w].todo = {}
           \/ /\ worker'[w].at = "record"
              /\ worker'[w].todo = worker[w].todo /\ worker'[w].name = worker[w].name
    BY <1>1, <2>1, SnapJob, SnapFinish
  <2>4. Snapshots!TypeOK'
    BY <2>1, <2>2, <2>3 DEF Snapshots!TypeOK
  <2>5. Snapshots!Shape'
    BY <2>1, <2>3, <2>4, SnapShape
  <2>6. Snapshots!AutoRows' = Snapshots!AutoRows
    BY <2>1 DEF Snapshots!AutoRows
  <2> QED
    BY <2>1, <2>3, <2>5, <2>6, SnapQuiet
<1>3. CASE Snapshots!ProxmoxDelete(w)
  <2>1. /\ worker[w].at = "delete" /\ images' \subseteq images
        /\ Snapshots!To(w, "drop", worker[w].name, worker[w].todo)
        /\ UNCHANGED <<snapshots, named, clock, lost, fresh, taken>>
    BY <1>3 DEF Snapshots!ProxmoxDelete, Snapshots!At
  <2>2. /\ worker' \in [Snapshots!Workers -> Snapshots!Job]
        /\ worker'[w].at = "drop" /\ worker'[w].todo = worker[w].todo
        /\ worker'[w].name = worker[w].name
        /\ \A v \in Snapshots!Workers \ {w} : worker'[v] = worker[v]
    BY <1>1, <2>1, SnapJob
  <2>3. Snapshots!TypeOK'
    BY <2>1, <2>2 DEF Snapshots!TypeOK
  <2>4. Snapshots!Shape'
    BY <2>1, <2>2, <2>3, SnapShape
  <2>5. Snapshots!AutoRows' = Snapshots!AutoRows
    BY <2>1 DEF Snapshots!AutoRows
  <2>6. worker'[w].at \in {"delete", "drop"} /\ worker[w].at \in {"delete", "drop"}
    BY <2>1, <2>2
  <2> QED
    BY <2>1, <2>2, <2>4, <2>5, <2>6, SnapQuiet
<1>4. CASE Snapshots!Fail(w)
  BY <1>4, SnapEnds DEF Snapshots!Fail, Snapshots!TypeOK
<1> QED
  BY <1>2, <1>3, <1>4

LEMMA SnapRecord ==
    ASSUME Snapshots!IInv, NEW w \in Snapshots!Workers, Snapshots!RecordSnapshot(w)
    PROVE  /\ Snapshots!IInv'
           /\ Snapshots!AutoRows \subseteq Snapshots!AutoRows'
<1> USE DEF Snapshots!IInv, Snapshots!Shape
<1>1. /\ worker[w].at = "record" /\ snapshots' = snapshots \union worker[w].todo
      /\ fresh' = IF w # AutoRun /\ worker[w].name \in Snapshots!AutoNames
                    THEN fresh + 1 ELSE fresh
      /\ IF w = AutoRun THEN Snapshots!To(w, "list", Nil, {}) ELSE Snapshots!Finish(w)
      /\ UNCHANGED <<images, named, clock, lost, taken>>
  BY DEF Snapshots!RecordSnapshot, Snapshots!At
<1>2. PICK k \in 1..clock :
        /\ worker[w].todo = {k} /\ worker[w].name = named[k] /\ k \notin snapshots
        /\ \A v \in Snapshots!Workers \ {w} : k \notin worker[v].todo
  BY <1>1 DEF Snapshots!CreatesApart, Snapshots!At
<1>3. {} \in SUBSET Snapshots!Stamps /\ Nil \in Snapshots!Names \union {Nil}
  OBVIOUS
<1>4. /\ worker' \in [Snapshots!Workers -> Snapshots!Job]
      /\ worker'[w].at = (IF w = AutoRun THEN "list" ELSE "idle") /\ worker'[w].todo = {}
      /\ \A v \in Snapshots!Workers \ {w} : worker'[v] = worker[v]
  BY <1>1, <1>3, SnapJob, SnapFinish
<1>5. /\ k \in Snapshots!Stamps /\ k <= clock /\ snapshots' = snapshots \union {k}
      /\ snapshots \subseteq Snapshots!Stamps
      /\ lost \in Nat /\ fresh \in Nat /\ taken \in Nat /\ Keep \in Nat
      /\ AutoRun \in Snapshots!Workers
  BY <1>1, <1>2, SnapConstants DEF Snapshots!TypeOK, Snapshots!Stamps
<1>6. Snapshots!TypeOK'
  <2>1. fresh' \in Nat /\ lost' \in Nat /\ taken' \in Nat /\ snapshots' \subseteq Snapshots!Stamps
    <3>1. fresh' = fresh \/ fresh' = fresh + 1
      BY <1>1
    <3>2. lost' = lost /\ taken' = taken
      BY <1>1
    <3>3. snapshots' \subseteq Snapshots!Stamps
      BY <1>5
    <3> QED
      BY <1>5, <3>1, <3>2, <3>3
  <2>2. UNCHANGED <<images, named, clock>>
    BY <1>1
  <2> QED
    BY <1>4, <2>1, <2>2 DEF Snapshots!TypeOK
<1>7. Snapshots!Shape'
  <2>1. Snapshots!CreatesApart'
    <3> SUFFICES ASSUME NEW v \in Snapshots!Workers, worker'[v].at \in {"create", "record"}
                 PROVE  \E l \in 1..clock' :
                          /\ worker'[v].todo = {l} /\ worker'[v].name = named'[l]
                          /\ named'[l] \in Snapshots!Names /\ l \notin snapshots'
                          /\ \A u \in Snapshots!Workers \ {v} : l \notin worker'[u].todo
      BY DEF Snapshots!CreatesApart, Snapshots!At
    <3>1. v # w /\ worker'[v] = worker[v]
      BY <1>4
    <3>2. PICK l \in 1..clock :
            /\ worker[v].todo = {l} /\ worker[v].name = named[l]
            /\ named[l] \in Snapshots!Names /\ l \notin snapshots
            /\ \A u \in Snapshots!Workers \ {v} : l \notin worker[u].todo
      BY <3>1 DEF Snapshots!CreatesApart, Snapshots!At
    <3>3. l # k
      BY <1>2, <3>1, <3>2
    <3>4. \A u \in Snapshots!Workers \ {v} : l \notin worker'[u].todo
      BY <1>4, <3>2
    <3> QED
      BY <1>1, <1>5, <3>1, <3>2, <3>3, <3>4
  <2>2. Snapshots!CleansAuto'
    <3> SUFFICES ASSUME Snapshots!Cleaning'
                 PROVE  /\ \A l \in worker'[AutoRun].todo :
                             l <= clock' /\ named'[l] \in Snapshots!AutoNames
                        /\ \E l \in worker'[AutoRun].todo :
                             /\ Snapshots!Oldest(l, worker'[AutoRun].todo)
                             /\ worker'[AutoRun].name = named'[l]
      BY DEF Snapshots!CleansAuto, Snapshots!Oldest
    <3>1. w # AutoRun /\ worker'[AutoRun] = worker[AutoRun] /\ Snapshots!Cleaning
      BY <1>4, <1>5 DEF Snapshots!Cleaning
    <3> QED
      BY <1>1, <3>1 DEF Snapshots!CleansAuto
  <2>3. Snapshots!ClockAhead'
    BY <1>1, <1>4, <1>5 DEF Snapshots!ClockAhead, Snapshots!Stamps, Snapshots!TypeOK
  <2>4. Snapshots!OthersIdle'
    BY <1>4, <1>5 DEF Snapshots!OthersIdle, Snapshots!Cleaning, Snapshots!At
  <2> QED
    BY <1>6, <2>1, <2>2, <2>3, <2>4
<1>8. Snapshots!AutoRows' =
        IF named[k] \in Snapshots!AutoNames THEN Snapshots!AutoRows \union {k} ELSE Snapshots!AutoRows
  BY <1>1, <1>5 DEF Snapshots!AutoRows
<1>9. k \notin Snapshots!AutoRows /\ Snapshots!AutoRows \subseteq Snapshots!Stamps
  BY <1>2, <1>5 DEF Snapshots!AutoRows
<1>10. PICK a, b \in Nat :
         /\ a = Cardinality(Snapshots!AutoRows) /\ b = Cardinality(Snapshots!AutoRows')
         /\ b <= IF named[k] \in Snapshots!AutoNames THEN a + 1 ELSE a
  <2>1. Cardinality(Snapshots!AutoRows) \in Nat
    BY SnapTypes
  <2>2. CASE named[k] \in Snapshots!AutoNames
    <3>1. /\ Snapshots!AutoRows' \subseteq Snapshots!Stamps /\ k \in Snapshots!AutoRows'
          /\ Snapshots!AutoRows' \ {k} = Snapshots!AutoRows
      BY <1>5, <1>8, <1>9, <2>2
    <3>2. /\ Cardinality(Snapshots!AutoRows') \in Nat
          /\ Cardinality(Snapshots!AutoRows')
               = Cardinality(Snapshots!AutoRows' \ {k}) + 1
      BY <3>1, SnapOne
    <3>3. Cardinality(Snapshots!AutoRows') = Cardinality(Snapshots!AutoRows) + 1
      BY <3>1, <3>2
    <3> QED
      BY <2>1, <2>2, <3>2, <3>3
  <2>3. CASE named[k] \notin Snapshots!AutoNames
    BY <1>8, <2>1, <2>3
  <2> QED
    BY <2>2, <2>3
<1>11. /\ Snapshots!Cardinality(Snapshots!AutoRows) = a
       /\ Snapshots!Cardinality(Snapshots!AutoRows)' = b
  BY <1>10, SnapCardinality
<1>12. CASE w = AutoRun
  <2>1. worker'[AutoRun].at = "list" /\ worker[AutoRun].at = "record"
        /\ fresh' = fresh /\ lost' = lost
    BY <1>1, <1>4, <1>12
  <2>2. Snapshots!RetentionHeals'
    BY <1>5, <1>10, <1>11, <2>1
       DEF Snapshots!RetentionHeals, Snapshots!Cleaning, Snapshots!At
  <2>3. Snapshots!Leaves'
    BY <2>1 DEF Snapshots!Leaves, Snapshots!Cleaning
  <2> QED
    BY <1>7, <1>8, <2>2, <2>3
<1>13. CASE w # AutoRun
  <2>1. /\ worker'[AutoRun] = worker[AutoRun] /\ lost' = lost /\ taken' = taken
        /\ fresh' = IF named[k] \in Snapshots!AutoNames THEN fresh + 1 ELSE fresh
    BY <1>1, <1>2, <1>4, <1>5, <1>13
  <2>2. Snapshots!RetentionHeals'
    BY <1>5, <1>10, <1>11, <2>1
       DEF Snapshots!RetentionHeals, Snapshots!Cleaning, Snapshots!At
  <2>3. PICK todo : todo = worker[AutoRun].todo
    OBVIOUS
  <2>4. PICK S, T, D : /\ S = Snapshots!AutoRows \ todo /\ T = Snapshots!AutoRows' \ todo
                       /\ D = todo \ snapshots
    OBVIOUS
  <2>5. /\ k \notin todo /\ todo \subseteq Snapshots!Stamps /\ D = todo \ snapshots'
        /\ T = IF named[k] \in Snapshots!AutoNames THEN S \union {k} ELSE S
        /\ S \subseteq Snapshots!Stamps /\ k \notin S
    BY <1>2, <1>5, <1>8, <1>9, <1>13, <2>3, <2>4, SnapTypes
  <2>6. PICK s, t, d \in Nat :
          /\ s = Cardinality(S) /\ t = Cardinality(T) /\ d = Cardinality(D)
          /\ s <= t /\ t <= IF named[k] \in Snapshots!AutoNames THEN s + 1 ELSE s
    <3>1. Cardinality(S) \in Nat /\ Cardinality(D) \in Nat
      BY <2>4, <2>5, SnapCounts
    <3>2. CASE named[k] \in Snapshots!AutoNames
      <4>1. T \subseteq Snapshots!Stamps /\ k \in T /\ T \ {k} = S
        BY <1>5, <2>5, <3>2
      <4>2. Cardinality(T) \in Nat /\ Cardinality(T) = Cardinality(T \ {k}) + 1
        BY <4>1, SnapOne
      <4>3. Cardinality(T) = Cardinality(S) + 1
        BY <4>1, <4>2
      <4> QED
        BY <3>1, <3>2, <4>2, <4>3
    <3>3. CASE named[k] \notin Snapshots!AutoNames
      BY <2>5, <3>1, <3>3
    <3> QED
      BY <3>2, <3>3
  <2>7. Snapshots!Cleaning => s <= Keep + fresh /\ s + taken >= Keep + d
    BY <2>3, <2>4, <2>6, SnapCardinality DEF Snapshots!Leaves
  <2>8. Snapshots!Cleaning => t <= Keep + fresh' /\ t + taken' >= Keep + d
    BY <1>5, <2>1, <2>6, <2>7
  <2>9. Snapshots!Leaves'
    BY <2>1, <2>3, <2>4, <2>5, <2>6, <2>8, SnapCardinality
       DEF Snapshots!Leaves, Snapshots!Cleaning
  <2> QED
    BY <1>7, <1>8, <2>2, <2>9
<1> QED
  BY <1>12, <1>13

LEMMA SnapList ==
    ASSUME Snapshots!IInv, Snapshots!ListSnapshots
    PROVE  Snapshots!IInv' /\ Snapshots!AutoRows' = Snapshots!AutoRows
<1> USE DEF Snapshots!IInv, Snapshots!Shape
<1>1. /\ worker[AutoRun].at = "list" /\ taken' = 0 /\ fresh' = 0
      /\ UNCHANGED <<images, snapshots, named, clock>>
      /\ IF Snapshots!Cardinality(Snapshots!AutoRows) > Keep
           THEN /\ \E old \in SUBSET Snapshots!AutoRows :
                     /\ Snapshots!Cardinality(Snapshots!AutoRows \ old) = Keep
                     /\ Snapshots!CleanNext(old)
                /\ lost' = lost + fresh
           ELSE Snapshots!Finish(AutoRun) /\ lost' = 0
  BY DEF Snapshots!ListSnapshots, Snapshots!Clean, Snapshots!At
<1>2. /\ lost \in Nat /\ fresh \in Nat /\ Keep \in Nat /\ AutoRun \in Snapshots!Workers
      /\ Snapshots!AutoRows \subseteq Snapshots!Stamps
      /\ Cardinality(Snapshots!AutoRows) \in Nat
      /\ Snapshots!Cardinality(Snapshots!AutoRows) = Cardinality(Snapshots!AutoRows)
  BY SnapConstants, SnapTypes, SnapCardinality DEF Snapshots!TypeOK
<1>3. Snapshots!AutoRows' = Snapshots!AutoRows
  BY <1>1 DEF Snapshots!AutoRows
<1>4. Snapshots!Cardinality(Snapshots!AutoRows)' = Cardinality(Snapshots!AutoRows)
  BY <1>3, SnapCardinality
<1>5. Cardinality(Snapshots!AutoRows) <= Keep + lost + fresh + 1
  BY <1>1, <1>2 DEF Snapshots!RetentionHeals, Snapshots!At
<1>6. CASE Cardinality(Snapshots!AutoRows) > Keep
  <2>1. PICK old \in SUBSET Snapshots!AutoRows :
          /\ Snapshots!Cardinality(Snapshots!AutoRows \ old) = Keep
          /\ Snapshots!CleanNext(old)
    BY <1>1, <1>2, <1>6
  <2>2. PICK k \in old :
          Snapshots!Oldest(k, old) /\ Snapshots!To(AutoRun, "delete", named[k], old)
    BY <2>1 DEF Snapshots!CleanNext
  <2>3. /\ old \in SUBSET Snapshots!Stamps /\ old \subseteq snapshots
        /\ \A l \in old : named[l] \in Snapshots!AutoNames /\ l <= clock
    BY <1>2, SnapConstants
       DEF Snapshots!AutoRows, Snapshots!ClockAhead, Snapshots!Stamps, Snapshots!TypeOK
  <2>4. named[k] \in Snapshots!Names \union {Nil}
    BY <2>3, SnapConstants
  <2>5. /\ worker' \in [Snapshots!Workers -> Snapshots!Job]
        /\ worker'[AutoRun].at = "delete" /\ worker'[AutoRun].name = named[k]
        /\ worker'[AutoRun].todo = old
        /\ \A v \in Snapshots!Workers \ {AutoRun} : worker'[v] = worker[v]
    BY <1>2, <2>2, <2>3, <2>4, SnapJob
  <2>6. Snapshots!TypeOK'
    BY <1>1, <1>2, <1>6, <2>5 DEF Snapshots!TypeOK
  <2>7. Snapshots!CreatesApart'
    <3> SUFFICES ASSUME NEW v \in Snapshots!Workers, worker'[v].at \in {"create", "record"}
                 PROVE  \E l \in 1..clock' :
                          /\ worker'[v].todo = {l} /\ worker'[v].name = named'[l]
                          /\ named'[l] \in Snapshots!Names /\ l \notin snapshots'
                          /\ \A u \in Snapshots!Workers \ {v} : l \notin worker'[u].todo
      BY DEF Snapshots!CreatesApart, Snapshots!At
    <3>1. v # AutoRun /\ worker'[v] = worker[v]
      BY <2>5
    <3>2. PICK l \in 1..clock :
            /\ worker[v].todo = {l} /\ worker[v].name = named[l]
            /\ named[l] \in Snapshots!Names /\ l \notin snapshots
            /\ \A u \in Snapshots!Workers \ {v} : l \notin worker[u].todo
      BY <3>1 DEF Snapshots!CreatesApart, Snapshots!At
    <3>3. \A u \in Snapshots!Workers \ {v} : l \notin worker'[u].todo
      BY <2>3, <2>5, <3>2
    <3> QED
      BY <1>1, <3>1, <3>2, <3>3
  <2>8. Snapshots!CleansAuto'
    BY <1>1, <2>2, <2>3, <2>5 DEF Snapshots!CleansAuto, Snapshots!Cleaning, Snapshots!Oldest
  <2>9. Snapshots!ClockAhead'
    BY <1>1, <2>3, <2>5 DEF Snapshots!ClockAhead
  <2>10. Snapshots!OthersIdle'
    BY <2>5 DEF Snapshots!OthersIdle, Snapshots!Cleaning, Snapshots!At
  <2>11. Snapshots!RetentionHeals'
    BY <1>1, <1>2, <1>4, <1>5, <1>6, <2>5
       DEF Snapshots!RetentionHeals, Snapshots!Cleaning, Snapshots!At
  <2>12. old \ snapshots' = {} /\ Snapshots!Cardinality({}) = 0
    BY <1>1, <2>3, SnapCardinality, FS_EmptySet
  <2>13. Snapshots!Leaves'
    <3>1. /\ Snapshots!Cardinality(Snapshots!AutoRows \ worker[AutoRun].todo)' = Keep
          /\ Snapshots!Cardinality(worker[AutoRun].todo \ snapshots)' = 0
      BY <1>3, <2>1, <2>5, <2>12, SnapCardinality
    <3> QED
      BY <1>1, <1>2, <3>1 DEF Snapshots!Leaves
  <2> QED
    BY <1>3, <2>6, <2>7, <2>8, <2>9, <2>10, <2>11, <2>13
<1>7. CASE ~(Cardinality(Snapshots!AutoRows) > Keep)
  <2>1. Snapshots!Finish(AutoRun) /\ lost' = 0
    BY <1>1, <1>2, <1>7
  <2>2. /\ worker' \in [Snapshots!Workers -> Snapshots!Job]
        /\ worker'[AutoRun].at = "idle" /\ worker'[AutoRun].todo = {}
        /\ \A v \in Snapshots!Workers \ {AutoRun} : worker'[v] = worker[v]
    BY <1>2, <2>1, SnapFinish
  <2>3. Snapshots!TypeOK'
    BY <1>1, <2>1, <2>2 DEF Snapshots!TypeOK
  <2>4. Snapshots!Shape'
    BY <1>1, <1>2, <2>2, <2>3, SnapShape
  <2>5. Snapshots!RetentionHeals'
    BY <1>1, <1>2, <1>4, <1>7, <2>1, <2>2
       DEF Snapshots!RetentionHeals, Snapshots!Cleaning, Snapshots!At
  <2>6. Snapshots!Leaves'
    BY <2>2 DEF Snapshots!Leaves, Snapshots!Cleaning
  <2> QED
    BY <1>3, <2>4, <2>5, <2>6
<1> QED
  BY <1>6, <1>7

\* A row is dropped by an administrator: the clean-up leaves the same rows, or one
\* less.
LEMMA SnapAdminDrop ==
    ASSUME Snapshots!IInv, NEW w \in Snapshots!Workers, w # AutoRun,
           worker[w].at = "drop", Snapshots!Finish(w),
           NEW same, same = Snapshots!RowsOf(worker[w].name),
           Snapshots!Cardinality(same) <= 1, snapshots' = snapshots \ same,
           taken' = IF same \intersect Snapshots!AutoRows # {} THEN taken + 1 ELSE taken,
           UNCHANGED <<images, named, clock, lost, fresh>>
    PROVE  Snapshots!IInv'
<1> USE DEF Snapshots!IInv, Snapshots!Shape
<1>1. /\ worker' \in [Snapshots!Workers -> Snapshots!Job]
      /\ worker'[w].at = "idle" /\ worker'[w].todo = {}
      /\ \A v \in Snapshots!Workers \ {w} : worker'[v] = worker[v]
  BY SnapFinish
<1>2. /\ lost \in Nat /\ fresh \in Nat /\ taken \in Nat /\ Keep \in Nat
      /\ AutoRun \in Snapshots!Workers /\ worker'[AutoRun] = worker[AutoRun]
      /\ snapshots \subseteq Snapshots!Stamps
  BY <1>1, SnapConstants DEF Snapshots!TypeOK
<1>3. Snapshots!TypeOK'
  BY <1>1, <1>2 DEF Snapshots!TypeOK
<1>4. Snapshots!Shape'
  BY <1>1, <1>3, SnapShape
<1>5. /\ same \subseteq snapshots /\ Snapshots!AutoRows' = Snapshots!AutoRows \ same
      /\ \A k \in snapshots : named[k] \in Snapshots!AutoNames => k \in Snapshots!AutoRows
      /\ Snapshots!AutoRows \subseteq snapshots
  BY DEF Snapshots!RowsOf, Snapshots!AutoRows
<1>6. \A k \in same : same = {k}
  BY <1>2, <1>5, SnapFew, SnapCardinality
<1>7. PICK todo : todo = worker[AutoRun].todo
  OBVIOUS
<1>8. todo \subseteq Snapshots!Stamps
  BY <1>2, <1>7, SnapTypes
<1>9. PICK S, T, D, E : /\ S = Snapshots!AutoRows \ todo /\ T = Snapshots!AutoRows' \ todo
                        /\ D = todo \ snapshots /\ E = todo \ snapshots'
  OBVIOUS
<1>10. PICK a, b \in Nat : /\ a = Cardinality(Snapshots!AutoRows) /\ b = Cardinality(Snapshots!AutoRows')
                           /\ b <= a
  <2>1. Snapshots!AutoRows \subseteq Snapshots!Stamps /\ Snapshots!AutoRows' \subseteq Snapshots!AutoRows
    BY <1>2, <1>5
  <2> QED
    BY <2>1, SnapCounts
<1>11. Snapshots!RetentionHeals'
  <2>1. Snapshots!Cardinality(Snapshots!AutoRows)' = b /\ Snapshots!Cardinality(Snapshots!AutoRows) = a
    BY <1>10, SnapCardinality
  <2> QED
    BY <1>2, <1>10, <2>1 DEF Snapshots!RetentionHeals, Snapshots!Cleaning, Snapshots!At
<1>12. ASSUME Snapshots!Cleaning
       PROVE  /\ Cardinality(T) <= Keep + fresh
              /\ Cardinality(T) + taken' >= Keep + Cardinality(E)
  <2>1. /\ Cardinality(S) \in Nat /\ Cardinality(T) \in Nat /\ Cardinality(T) <= Cardinality(S)
        /\ Cardinality(D) \in Nat /\ Cardinality(E) \in Nat
    <3>1. S \subseteq Snapshots!Stamps /\ T \subseteq S /\ D \subseteq Snapshots!Stamps
          /\ E \subseteq Snapshots!Stamps
      BY <1>2, <1>5, <1>8, <1>9
    <3> QED
      BY <3>1, SnapCounts
  <2>2. Cardinality(S) <= Keep + fresh /\ Cardinality(S) + taken >= Keep + Cardinality(D)
    BY <1>7, <1>9, <1>12, SnapCardinality DEF Snapshots!Leaves
  <2>3. CASE same \intersect Snapshots!AutoRows = {}
    <3>1. T = S
      BY <1>5, <1>9, <2>3
    <3>2. E = D
      <4>1. \A k \in todo : named[k] \in Snapshots!AutoNames
        BY <1>7, <1>12 DEF Snapshots!CleansAuto
      <4>2. \A k \in todo : k \notin same
        BY <1>5, <2>3, <4>1
      <4> QED
        BY <1>9, <4>2
    <3> QED
      BY <2>2, <2>3, <3>1, <3>2
  <2>4. CASE same \intersect Snapshots!AutoRows # {}
    <3>1. PICK k \in Snapshots!AutoRows : same = {k}
      BY <1>6, <2>4
    <3>2. taken' = taken + 1 /\ k \in snapshots
      BY <1>5, <2>4, <3>1
    <3>3. CASE k \in todo
      <4>1. T = S /\ k \in E /\ E \ {k} = D /\ E \subseteq Snapshots!Stamps
        BY <1>5, <1>8, <1>9, <3>1, <3>2, <3>3
      <4>2. Cardinality(E) = Cardinality(D) + 1
        BY <4>1, SnapOne
      <4> QED
        BY <1>2, <2>1, <2>2, <3>2, <4>1, <4>2
    <3>4. CASE k \notin todo
      <4>1. E = D /\ k \in S /\ T = S \ {k} /\ S \subseteq Snapshots!Stamps
        BY <1>2, <1>5, <1>9, <3>1, <3>2, <3>4
      <4>2. Cardinality(S) = Cardinality(T) + 1
        BY <4>1, SnapOne
      <4> QED
        BY <1>2, <2>1, <2>2, <3>2, <4>1, <4>2
    <3> QED
      BY <3>3, <3>4
  <2> QED
    BY <2>3, <2>4
<1>13. Snapshots!Leaves'
  BY <1>2, <1>7, <1>9, <1>12, SnapCardinality DEF Snapshots!Leaves, Snapshots!Cleaning
<1> QED
  BY <1>4, <1>11, <1>13

\* The clean-up deletes the oldest row of its list, no row, or another one that has
\* got its name since: what it leaves counts as many as before, or one less if
\* the oldest row was gone.
LEMMA SnapOwnDrop ==
    ASSUME Snapshots!IInv, worker[AutoRun].at = "drop",
           NEW same, same = Snapshots!RowsOf(worker[AutoRun].name),
           Snapshots!Cardinality(same) <= 1, snapshots' = snapshots \ same,
           UNCHANGED named,
           NEW k, NEW todo, todo = worker[AutoRun].todo, Snapshots!Oldest(k, todo)
    PROVE  /\ Snapshots!AutoRows' = Snapshots!AutoRows \ same
           /\ todo \subseteq Snapshots!Stamps
           /\ Cardinality(Snapshots!AutoRows') \in Nat
           /\ Cardinality(Snapshots!AutoRows') <= Cardinality(Snapshots!AutoRows)
           /\ Cardinality(Snapshots!AutoRows' \ (todo \ {k})) \in Nat
           /\ Cardinality((todo \ {k}) \ snapshots') \in Nat
           /\ Cardinality(Snapshots!AutoRows' \ (todo \ {k})) <= Cardinality(Snapshots!AutoRows')
           /\ Cardinality(Snapshots!AutoRows' \ (todo \ {k})) <= Keep + fresh
           /\ Cardinality(Snapshots!AutoRows' \ (todo \ {k})) + taken
                >= Keep + Cardinality((todo \ {k}) \ snapshots')
<1> USE DEF Snapshots!IInv, Snapshots!Shape
<1>1. /\ fresh \in Nat /\ taken \in Nat /\ Keep \in Nat
      /\ AutoRun \in Snapshots!Workers /\ snapshots \subseteq Snapshots!Stamps
  BY SnapConstants DEF Snapshots!TypeOK
<1>2. todo \subseteq Snapshots!Stamps /\ k \in todo /\ k \in Snapshots!Stamps
  BY <1>1, SnapTypes DEF Snapshots!Oldest
<1>3. \A l \in todo : named[l] \in Snapshots!AutoNames
  BY DEF Snapshots!CleansAuto, Snapshots!Cleaning
<1>4. worker[AutoRun].name = named[k]
  <2>1. PICK l \in todo : Snapshots!Oldest(l, todo) /\ worker[AutoRun].name = named[l]
    BY DEF Snapshots!CleansAuto, Snapshots!Cleaning
  <2>2. l = k
    BY <1>2, <2>1, SnapConstants DEF Snapshots!Oldest, Snapshots!Stamps
  <2> QED
    BY <2>1, <2>2
<1>5. /\ same \subseteq Snapshots!AutoRows /\ Snapshots!AutoRows' = Snapshots!AutoRows \ same
      /\ Snapshots!AutoRows \subseteq snapshots /\ (k \in snapshots => k \in same)
      /\ \A l \in todo : l \in snapshots => l \in Snapshots!AutoRows
  BY <1>2, <1>3, <1>4 DEF Snapshots!RowsOf, Snapshots!AutoRows
<1>6. \A l \in same : same = {l}
  BY <1>1, <1>5, SnapFew, SnapCardinality
<1>7. PICK S, T, D, E : /\ S = Snapshots!AutoRows \ todo /\ T = Snapshots!AutoRows' \ (todo \ {k})
                        /\ D = todo \ snapshots /\ E = (todo \ {k}) \ snapshots'
  OBVIOUS
<1>8. /\ S \subseteq Snapshots!Stamps /\ T \subseteq S /\ D \subseteq Snapshots!Stamps
      /\ E \subseteq Snapshots!Stamps /\ T \subseteq Snapshots!AutoRows'
      /\ Snapshots!AutoRows' \subseteq Snapshots!AutoRows
      /\ Snapshots!AutoRows \subseteq Snapshots!Stamps
  BY <1>1, <1>2, <1>5, <1>7
<1>9. PICK s, t, d, e \in Nat :
        /\ s = Cardinality(S) /\ t = Cardinality(T) /\ d = Cardinality(D) /\ e = Cardinality(E)
        /\ t <= s
  BY <1>8, SnapCounts
<1>10. s <= Keep + fresh /\ s + taken >= Keep + d
  BY <1>7, <1>9, SnapCardinality DEF Snapshots!Leaves, Snapshots!Cleaning
<1>11. t + taken >= Keep + e
  <2>1. CASE k \in snapshots
    <3>1. same = {k}
      BY <1>5, <1>6, <2>1
    <3>2. T = S /\ E = D
      BY <1>2, <1>5, <1>7, <2>1, <3>1
    <3> QED
      BY <1>9, <1>10, <3>2
  <2>2. CASE k \notin snapshots
    <3>1. k \in D /\ d = Cardinality(D \ {k}) + 1 /\ Cardinality(D \ {k}) \in Nat
      BY <1>2, <1>7, <1>8, <1>9, <2>2, SnapOne
    <3>2. CASE same = {}
      <4>1. T = S /\ E = D \ {k}
        BY <1>5, <1>7, <2>2, <3>2
      <4> QED
        BY <1>1, <1>9, <1>10, <3>1, <4>1
    <3>3. CASE same # {}
      <4>1. PICK l : same = {l} /\ l \in Snapshots!AutoRows /\ l \in snapshots /\ l # k
        BY <1>5, <1>6, <2>2, <3>3
      <4>2. CASE l \in todo
        <5>1. T = S /\ l \in E /\ E \ {l} = D \ {k}
          BY <1>5, <1>7, <2>2, <4>1, <4>2
        <5>2. e = Cardinality(E \ {l}) + 1
          BY <1>8, <1>9, <5>1, SnapOne
        <5> QED
          BY <1>1, <1>9, <1>10, <3>1, <5>1, <5>2
      <4>3. CASE l \notin todo
        <5>1. l \in S /\ T = S \ {l} /\ E = D \ {k}
          BY <1>5, <1>7, <2>2, <4>1, <4>3
        <5>2. s = t + 1
          BY <1>8, <1>9, <5>1, SnapOne
        <5> QED
          BY <1>1, <1>9, <1>10, <3>1, <5>1, <5>2
      <4> QED
        BY <4>2, <4>3
    <3> QED
      BY <3>2, <3>3
  <2> QED
    BY <2>1, <2>2
<1>12. /\ Cardinality(Snapshots!AutoRows') \in Nat
       /\ Cardinality(Snapshots!AutoRows') <= Cardinality(Snapshots!AutoRows)
       /\ Cardinality(T) <= Cardinality(Snapshots!AutoRows')
  <2>1. Snapshots!AutoRows' \subseteq Snapshots!Stamps
    BY <1>8
  <2> QED
    BY <1>8, <2>1, SnapCounts
<1> QED
  BY <1>1, <1>2, <1>5, <1>7, <1>9, <1>10, <1>11, <1>12

LEMMA SnapDrop ==
    ASSUME Snapshots!IInv, NEW w \in Snapshots!Workers, Snapshots!DropRow(w)
    PROVE  /\ Snapshots!IInv'
           /\ w = AutoRun /\ Snapshots!AutoRows' # Snapshots!AutoRows =>
                Cardinality(Snapshots!AutoRows') + taken' >= Keep
<1> USE DEF Snapshots!IInv, Snapshots!Shape
<1>1. PICK same : same = Snapshots!RowsOf(worker[w].name)
  OBVIOUS
<1>2. /\ worker[w].at = "drop" /\ UNCHANGED <<images, named, clock, fresh>>
      /\ \/ /\ Snapshots!Cardinality(same) <= 1 /\ snapshots' = snapshots \ same
            /\ taken' = IF w # AutoRun /\ same \intersect Snapshots!AutoRows # {}
                          THEN taken + 1 ELSE taken
            /\ \/ w # AutoRun /\ Snapshots!Finish(w) /\ lost' = lost
               \/ /\ w = AutoRun
                  /\ \E k \in worker[w].todo :
                       /\ Snapshots!Oldest(k, worker[w].todo)
                       /\ IF worker[w].todo = {k}
                            THEN Snapshots!Finish(w) /\ lost' = 0
                            ELSE Snapshots!CleanNext(worker[w].todo \ {k}) /\ lost' = lost
         \/ Snapshots!Ends(w) /\ UNCHANGED <<snapshots, taken>>
  BY <1>1 DEF Snapshots!DropRow, Snapshots!At
<1>3. CASE Snapshots!Ends(w) /\ UNCHANGED <<snapshots, taken>>
  <2>1. Snapshots!IInv'
    BY <1>2, <1>3, SnapEnds DEF Snapshots!TypeOK
  <2> QED
    BY <1>2, <1>3, <2>1 DEF Snapshots!AutoRows
<1>4. CASE /\ Snapshots!Cardinality(same) <= 1 /\ snapshots' = snapshots \ same
           /\ taken' = IF same \intersect Snapshots!AutoRows # {} THEN taken + 1 ELSE taken
           /\ w # AutoRun /\ Snapshots!Finish(w) /\ lost' = lost
  BY <1>1, <1>2, <1>4, SnapAdminDrop
<1>5. ASSUME Snapshots!Cardinality(same) <= 1, snapshots' = snapshots \ same, taken' = taken,
             w = AutoRun,
             NEW k \in worker[w].todo, Snapshots!Oldest(k, worker[w].todo),
             IF worker[w].todo = {k}
               THEN Snapshots!Finish(w) /\ lost' = 0
               ELSE Snapshots!CleanNext(worker[w].todo \ {k}) /\ lost' = lost
      PROVE  Snapshots!IInv' /\ Cardinality(Snapshots!AutoRows') + taken' >= Keep
  <2>1. PICK todo : todo = worker[AutoRun].todo
    OBVIOUS
  <2>2. PICK left : left = todo \ {k}
    OBVIOUS
  <2>3. /\ worker[AutoRun].at = "drop" /\ same = Snapshots!RowsOf(worker[AutoRun].name)
        /\ Snapshots!Oldest(k, todo) /\ UNCHANGED named
    BY <1>1, <1>2, <1>5, <2>1
  <2>4. /\ Snapshots!AutoRows' = Snapshots!AutoRows \ same
        /\ todo \subseteq Snapshots!Stamps
        /\ Cardinality(Snapshots!AutoRows') \in Nat
        /\ Cardinality(Snapshots!AutoRows') <= Cardinality(Snapshots!AutoRows)
        /\ Cardinality(Snapshots!AutoRows' \ left) \in Nat
        /\ Cardinality(left \ snapshots') \in Nat
        /\ Cardinality(Snapshots!AutoRows' \ left) <= Cardinality(Snapshots!AutoRows')
        /\ Cardinality(Snapshots!AutoRows' \ left) <= Keep + fresh
        /\ Cardinality(Snapshots!AutoRows' \ left) + taken >= Keep + Cardinality(left \ snapshots')
    BY <1>5, <2>1, <2>2, <2>3, SnapOwnDrop
  <2>5. /\ lost \in Nat /\ fresh \in Nat /\ taken \in Nat /\ Keep \in Nat
        /\ AutoRun \in Snapshots!Workers /\ Cardinality(Snapshots!AutoRows) \in Nat
    BY SnapConstants, SnapTypes DEF Snapshots!TypeOK
  <2>6. Cardinality(Snapshots!AutoRows') + taken' >= Keep
    BY <1>5, <2>4, <2>5
  <2>7. Cardinality(Snapshots!AutoRows) <= Keep + lost + fresh + 1
    <3>1. Snapshots!Cardinality(Snapshots!AutoRows) = Cardinality(Snapshots!AutoRows)
      BY SnapCardinality
    <3> QED
      BY <2>3, <2>5, <3>1 DEF Snapshots!RetentionHeals, Snapshots!Cleaning, Snapshots!At
  <2>8. /\ Snapshots!Cardinality(Snapshots!AutoRows)' = Cardinality(Snapshots!AutoRows')
        /\ \A S : Snapshots!Cardinality(S) = Cardinality(S)
    BY SnapCardinality
  <2>9. CASE todo = {k}
    <3>1. Snapshots!Finish(AutoRun) /\ lost' = 0
      BY <1>5, <2>1, <2>9
    <3>2. /\ worker' \in [Snapshots!Workers -> Snapshots!Job]
          /\ worker'[AutoRun].at = "idle" /\ worker'[AutoRun].todo = {}
          /\ \A v \in Snapshots!Workers \ {AutoRun} : worker'[v] = worker[v]
      BY <2>5, <3>1, SnapFinish
    <3>3. Snapshots!TypeOK'
      BY <1>2, <1>5, <3>1, <3>2 DEF Snapshots!TypeOK
    <3>4. Snapshots!Shape'
      BY <1>2, <1>5, <2>5, <3>2, <3>3, SnapShape
    <3>5. Snapshots!Leaves'
      BY <3>2 DEF Snapshots!Leaves, Snapshots!Cleaning
    <3>6. Cardinality(Snapshots!AutoRows') <= Keep + fresh
      <4>1. Snapshots!AutoRows' \ left = Snapshots!AutoRows'
        BY <2>2, <2>9
      <4> QED
        BY <2>4, <4>1
    <3>7. Snapshots!RetentionHeals'
      BY <1>2, <2>4, <2>5, <2>8, <3>1, <3>2, <3>6
         DEF Snapshots!RetentionHeals, Snapshots!Cleaning, Snapshots!At
    <3> QED
      BY <2>6, <3>4, <3>5, <3>7
  <2>10. CASE todo # {k}
    <3>1. Snapshots!CleanNext(left) /\ lost' = lost
      BY <1>5, <2>1, <2>2, <2>10
    <3>2. PICK l \in left :
            Snapshots!Oldest(l, left) /\ Snapshots!To(AutoRun, "delete", named[l], left)
      BY <3>1 DEF Snapshots!CleanNext
    <3>3. /\ left \in SUBSET Snapshots!Stamps /\ left \subseteq todo
          /\ \A m \in left : m <= clock /\ named[m] \in Snapshots!AutoNames
      BY <2>1, <2>2, <2>3, <2>4 DEF Snapshots!CleansAuto, Snapshots!Cleaning
    <3>4. named[l] \in Snapshots!Names \union {Nil}
      BY <3>3, SnapConstants
    <3>5. /\ worker' \in [Snapshots!Workers -> Snapshots!Job]
          /\ worker'[AutoRun].at = "delete" /\ worker'[AutoRun].name = named[l]
          /\ worker'[AutoRun].todo = left
          /\ \A v \in Snapshots!Workers \ {AutoRun} : worker'[v] = worker[v]
      BY <2>5, <3>2, <3>3, <3>4, SnapJob
    <3>6. Snapshots!TypeOK'
      BY <1>2, <1>5, <3>1, <3>5 DEF Snapshots!TypeOK
    <3>7. Snapshots!CreatesApart'
      <4> SUFFICES ASSUME NEW v \in Snapshots!Workers, worker'[v].at \in {"create", "record"}
                   PROVE  \E m \in 1..clock' :
                            /\ worker'[v].todo = {m} /\ worker'[v].name = named'[m]
                            /\ named'[m] \in Snapshots!Names /\ m \notin snapshots'
                            /\ \A u \in Snapshots!Workers \ {v} : m \notin worker'[u].todo
        BY DEF Snapshots!CreatesApart, Snapshots!At
      <4>1. v # AutoRun /\ worker'[v] = worker[v]
        BY <3>5
      <4>2. PICK m \in 1..clock :
              /\ worker[v].todo = {m} /\ worker[v].name = named[m]
              /\ named[m] \in Snapshots!Names /\ m \notin snapshots
              /\ \A u \in Snapshots!Workers \ {v} : m \notin worker[u].todo
        BY <4>1 DEF Snapshots!CreatesApart, Snapshots!At
      <4>3. \A u \in Snapshots!Workers \ {v} : m \notin worker'[u].todo
        BY <2>1, <2>5, <3>3, <3>5, <4>1, <4>2
      <4> QED
        BY <1>2, <1>5, <4>1, <4>2, <4>3
    <3>8. Snapshots!CleansAuto'
      BY <1>2, <3>2, <3>3, <3>5 DEF Snapshots!CleansAuto, Snapshots!Cleaning, Snapshots!Oldest
    <3>9. Snapshots!ClockAhead'
      BY <1>2, <1>5, <2>1, <2>5, <3>3, <3>5 DEF Snapshots!ClockAhead
    <3>10. Snapshots!OthersIdle'
      BY <3>5 DEF Snapshots!OthersIdle, Snapshots!Cleaning, Snapshots!At
    <3>11. Snapshots!RetentionHeals'
      BY <1>2, <2>4, <2>5, <2>7, <2>8, <3>1, <3>5
         DEF Snapshots!RetentionHeals, Snapshots!Cleaning, Snapshots!At
    <3>12. Snapshots!Leaves'
      BY <1>2, <1>5, <2>4, <2>8, <3>5 DEF Snapshots!Leaves
    <3> QED
      BY <2>6, <3>6, <3>7, <3>8, <3>9, <3>10, <3>11, <3>12
  <2> QED
    BY <2>9, <2>10
<1>6. CASE w = AutoRun /\ ~(Snapshots!Ends(w) /\ UNCHANGED <<snapshots, taken>>)
  BY <1>2, <1>5, <1>6
<1>7. CASE w # AutoRun /\ ~(Snapshots!Ends(w) /\ UNCHANGED <<snapshots, taken>>)
  BY <1>2, <1>4, <1>7
<1> QED
  BY <1>3, <1>6, <1>7

LEMMA SnapStep == Snapshots!IInv /\ [Snapshots!Next]_snapshotVars => Snapshots!IInv'
<1> SUFFICES ASSUME Snapshots!IInv, [Snapshots!Next]_snapshotVars PROVE Snapshots!IInv'
  OBVIOUS
<1>1. CASE UNCHANGED snapshotVars
  BY <1>1 DEF snapshotVars, Snapshots!IInv, Snapshots!Shape, Snapshots!TypeOK,
              Snapshots!CreatesApart, Snapshots!CleansAuto, Snapshots!ClockAhead,
              Snapshots!OthersIdle, Snapshots!Leaves, Snapshots!RetentionHeals,
              Snapshots!Cleaning, Snapshots!At, Snapshots!AutoRows, Snapshots!Oldest
<1>2. CASE Snapshots!Next
  BY <1>2, SnapBegin, SnapList, SnapProxmox, SnapRecord, SnapDrop DEF Snapshots!Next
<1> QED
  BY <1>1, <1>2

\* Only a drop of the clean-up's own changes its job and takes rows of the task.
LEMMA SnapKeeps ==
    ASSUME Snapshots!IInv, [Snapshots!Next]_snapshotVars
    PROVE  Snapshots!At(AutoRun, "drop")
             /\ Snapshots!Cardinality(Snapshots!AutoRows') < Snapshots!Cardinality(Snapshots!AutoRows)
             /\ worker'[AutoRun] # worker[AutoRun]
           => Snapshots!Cardinality(Snapshots!AutoRows') + taken' >= Keep
<1> USE DEF Snapshots!IInv, Snapshots!Shape
<1>1. \A S : Snapshots!Cardinality(S) = Cardinality(S)
  BY SnapCardinality
<1>2. SUFFICES ASSUME worker[AutoRun].at = "drop",
                      Cardinality(Snapshots!AutoRows') < Cardinality(Snapshots!AutoRows),
                      worker'[AutoRun] # worker[AutoRun]
               PROVE  Cardinality(Snapshots!AutoRows') + taken' >= Keep
  BY <1>1 DEF Snapshots!At
<1>3. Snapshots!AutoRows' # Snapshots!AutoRows
  <2>1. Cardinality(Snapshots!AutoRows) \in Nat
    BY SnapTypes
  <2> QED
    BY <1>2, <2>1
<1>4. AutoRun \in Snapshots!Workers /\ Admins \subseteq Snapshots!Workers
  BY SnapConstants
<1>5. Snapshots!Next
  BY <1>3 DEF snapshotVars, Snapshots!AutoRows
<1>6. ~Snapshots!ListSnapshots
  BY <1>3, SnapList
<1>7. \A w \in Snapshots!Workers : \A n :
        Snapshots!Creates(w, n) => w # AutoRun /\ worker'[AutoRun] = worker[AutoRun]
  <2> SUFFICES ASSUME NEW w \in Snapshots!Workers, NEW n, Snapshots!Creates(w, n)
               PROVE  w # AutoRun /\ worker'[AutoRun] = worker[AutoRun]
    OBVIOUS
  <2>1. worker[w].at = "idle" /\ \E j : worker' = [worker EXCEPT ![w] = j]
    BY DEF Snapshots!Creates, Snapshots!At, Snapshots!To
  <2> QED
    BY <1>2, <1>4, <2>1 DEF Snapshots!TypeOK
<1>8. PICK w \in Snapshots!Workers : Snapshots!RecordSnapshot(w) \/ Snapshots!DropRow(w)
  <2>1. ~Snapshots!AutoSnapshotVps /\ \A w \in Admins : ~Snapshots!CreateSnapshot(w)
    BY <1>2, <1>4, <1>7 DEF Snapshots!AutoSnapshotVps, Snapshots!CreateSnapshot
  <2>2. \A w \in Snapshots!Workers :
          ~Snapshots!DeleteSnapshot(w) /\ ~Snapshots!ProxmoxCreate(w) /\ ~Snapshots!ProxmoxDelete(w)
             /\ ~Snapshots!Fail(w)
    BY <1>3 DEF Snapshots!AutoRows, Snapshots!DeleteSnapshot, Snapshots!ProxmoxCreate,
                Snapshots!ProxmoxDelete, Snapshots!Fail
  <2> QED
    BY <1>4, <1>5, <1>6, <2>1, <2>2 DEF Snapshots!Next
<1>9. CASE Snapshots!RecordSnapshot(w)
  <2>1. Snapshots!AutoRows \subseteq Snapshots!AutoRows' /\ Snapshots!AutoRows' \subseteq Snapshots!Stamps
    <3>1. Snapshots!IInv' /\ Snapshots!AutoRows \subseteq Snapshots!AutoRows'
      BY <1>9, SnapRecord
    <3> QED
      BY <3>1 DEF Snapshots!AutoRows, Snapshots!TypeOK
  <2>2. /\ Cardinality(Snapshots!AutoRows) \in Nat /\ Cardinality(Snapshots!AutoRows') \in Nat
        /\ Cardinality(Snapshots!AutoRows) <= Cardinality(Snapshots!AutoRows')
    BY <2>1, SnapCounts
  <2> QED
    BY <1>2, <2>2
<1>10. CASE Snapshots!DropRow(w)
  <2>1. w = AutoRun
    <3>1. \A at, name, todo : w # AutoRun /\ Snapshots!To(w, at, name, todo)
            => worker'[AutoRun] = worker[AutoRun]
      BY <1>4 DEF Snapshots!To, Snapshots!TypeOK
    <3>2. w # AutoRun /\ Snapshots!Finish(w) => worker'[AutoRun] = worker[AutoRun]
      BY <1>4 DEF Snapshots!Finish, Snapshots!TypeOK
    <3> QED
      BY <1>2, <1>10, <3>1, <3>2 DEF Snapshots!DropRow, Snapshots!Ends
  <2> QED
    BY <1>3, <1>10, <2>1, SnapDrop
<1> QED
  BY <1>8, <1>9, <1>10

LEMMA SnapSteps == [MCNext]_<<part, vars, powerVars, snapshotVars>> => [Snapshots!Next]_snapshotVars
  BY DEF MCNext, vars, powerVars, snapshotVars

LEMMA SnapInvariant == MCSpec => []Snapshots!IInv
<1>1. MCInit => Snapshots!IInv
  BY SnapInit DEF MCInit
<1>2. Snapshots!IInv /\ [MCNext]_<<part, vars, powerVars, snapshotVars>> => Snapshots!IInv'
  BY SnapSteps, SnapStep
<1> QED
  BY <1>1, <1>2, PTL DEF MCSpec

\* RetentionHeals: the rows with the label of auto_snapshot_vps exceed its limit by
\* no more than the runs that failed, and the rows administrators added under it,
\* since a run ended well.
THEOREM RetentionHolds == MCSpec => []RetentionHeals
<1>1. Snapshots!IInv => RetentionHeals
  BY DEF Snapshots!IInv, RetentionHeals
<1> QED
  BY <1>1, SnapInvariant, PTL

\* CleanUpKeeps: no step of a clean-up takes the rows below the limit, but for
\* those that administrators took.
THEOREM CleanUpsKeep == MCSpec => CleanUpKeeps
<1>1. Snapshots!IInv /\ [Snapshots!Next]_snapshotVars =>
        [Snapshots!At(AutoRun, "drop")
             /\ Snapshots!Cardinality(Snapshots!AutoRows') < Snapshots!Cardinality(Snapshots!AutoRows)
             /\ worker'[AutoRun] # worker[AutoRun]
           => Snapshots!Cardinality(Snapshots!AutoRows') + taken' >= Keep]_snapshotVars
  BY SnapKeeps
<1>2. Snapshots!IInv /\ [MCNext]_<<part, vars, powerVars, snapshotVars>> =>
        [Snapshots!At(AutoRun, "drop")
             /\ Snapshots!Cardinality(Snapshots!AutoRows') < Snapshots!Cardinality(Snapshots!AutoRows)
             /\ worker'[AutoRun] # worker[AutoRun]
           => Snapshots!Cardinality(Snapshots!AutoRows') + taken' >= Keep]_snapshotVars
  BY <1>1, SnapSteps
<1> QED
  BY <1>2, SnapInvariant, PTL DEF MCSpec, CleanUpKeeps, Snapshots!CleanUpKeeps, Snapshots!vars, snapshotVars
=============================================================================
