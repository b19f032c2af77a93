---------------------------- MODULE ServiceTerms ----------------------------
(***************************************************************************)
(* How long a service lasts: the Celery tasks that renew, suspend and cap  *)
(* VPS and VPN services.                                                   *)
(*                                                                         *)
(* Each task loads the services that are due, changes the objects it       *)
(* loaded and commits them, so it writes what it computed from the load    *)
(* whatever other tasks committed since; SQLAlchemy writes only the        *)
(* columns that changed.  A run may die anywhere, and is then started      *)
(* again, by Celery's retry or by the beat.  Time is counted in half-days  *)
(* from some hour, months are shortened to Period of them.                 *)
(***************************************************************************)
EXTENDS Integers

CONSTANTS
    Vps, Vpn,   \* ids of the VPS services and of the VPN services
    Period,     \* what a renewal adds: 30 days
    Grace,      \* how long after its expiry a VPS is suspended: 24 hours
    Window,     \* how long before its expiry a VPN service is renewed: 12 hours
    Start,      \* when all services of the model expire at first
    MaxTime,    \* bound on the clock
    Overlap     \* may auto_renew_vps and suspend_expired_vps run at once

ASSUME TermsAssumption ==
    /\ Vps \intersect Vpn = {}
    /\ {Period, Grace, Window, Start, MaxTime} \subseteq Nat
    /\ Overlap \in BOOLEAN

Services == Vps \union Vpn

\* "vpn" stands for auto_renew_vpn, suspend_expired_vpn and check_exceeded_traffic.
Tasks == {"auto_renew_vps", "suspend_expired_vps", "check_exceeded_bandwidth", "vpn"}

VARIABLES
    now,
    status,   \* services.status, committed
    reason,   \* services.suspension_reason, committed
    expires,  \* services.expires_at, committed
    used,     \* does bandwidth_used_bytes reach the limit of the instance
    running,  \* does the machine of a VPS run, is the peer of a VPN account served
    job       \* the run of each task

vars == <<now, status, reason, expires, used, running, job>>

\* A run: the services still to do, those changed and not yet committed, and
\* the expires_at the session holds.
Job == [on: BOOLEAN, todo: SUBSET Services, dirty: SUBSET Services,
        exp: [Services -> Nat]]

TypeOK ==
    /\ now \in Nat
    /\ status \in [Services -> {"ACTIVE", "SUSPENDED"}]
    /\ reason \in [Services -> {"none", "expired", "bandwidth"}]
    /\ expires \in [Services -> Nat]
    /\ used \in [Vps -> BOOLEAN]
    /\ running \in [Services -> BOOLEAN]
    /\ job \in [Tasks -> Job]

Off == [on |-> FALSE, todo |-> {}, dirty |-> {}, exp |-> [s \in Services |-> 0]]

Init ==
    /\ now = 0
    /\ status = [s \in Services |-> "ACTIVE"]
    /\ reason = [s \in Services |-> "none"]
    /\ expires = [s \in Services |-> Start]
    /\ used \in [Vps -> BOOLEAN]
    /\ running = [s \in Services |-> TRUE]
    /\ job = [k \in Tasks |-> Off]

Tick ==
    /\ now < MaxTime
    /\ now' = now + 1
    /\ UNCHANGED <<status, reason, expires, used, running, job>>

-----------------------------------------------------------------------------
(* Runs *)

\* A run selects its services, and holds their columns from then on.
Select(k, due) ==
    /\ ~job[k].on
    /\ due # {}
    /\ job' = [job EXCEPT ![k] = [on |-> TRUE, todo |-> due, dirty |-> {},
                          exp |-> [s \in Services |-> IF s \in due THEN expires[s] ELSE 0]]]
    /\ UNCHANGED <<now, status, reason, expires, used, running>>

\* A run ends: it is done, the worker died, the time limit struck, the database
\* refused, or - at the end of every VPS task - the audit entry of tenant
\* "system" was refused.  What it has not committed is lost.
End(k) ==
    /\ job[k].on
    /\ job' = [job EXCEPT ![k] = Off]
    /\ UNCHANGED <<now, status, reason, expires, used, running>>

Active(s) == status[s] = "ACTIVE"

-----------------------------------------------------------------------------
(* VPS *)

\* Mutated form: the services check_vps_expiration warns about are renewed too.
DueForRenewalEarly == {s \in Vps : Active(s) /\ expires[s] <= now + Grace}

DueForRenewal == {s \in Vps : Active(s) /\ expires[s] <= now}

SelectForRenewal ==
    /\ Overlap \/ ~job["suspend_expired_vps"].on
    /\ Select("auto_renew_vps", DueForRenewal)

\* Mutated form: the commit is forgotten.
AutoRenewVpsNoCommit ==
    /\ job["auto_renew_vps"].on
    /\ job' = [job EXCEPT !["auto_renew_vps"] = Off]
    /\ UNCHANGED <<now, status, reason, expires, used, running>>

\* All in one commit, free of charge.  The audit entry that follows is refused
\* and Celery starts the task again.
AutoRenewVps ==
    LET j == job["auto_renew_vps"] IN
    /\ j.on
    /\ expires' = [s \in Services |->
                     IF s \in j.todo THEN j.exp[s] + Period ELSE expires[s]]
    /\ job' = [job EXCEPT !["auto_renew_vps"] = Off]
    /\ UNCHANGED <<now, status, reason, used, running>>

\* Mutated form: without the grace period.
SelectForSuspensionAtOnce ==
    /\ Overlap \/ ~job["auto_renew_vps"].on
    /\ Select("suspend_expired_vps", {s \in Vps : Active(s) /\ expires[s] <= now})

SelectForSuspension ==
    /\ Overlap \/ ~job["auto_renew_vps"].on
    /\ Select("suspend_expired_vps", {s \in Vps : Active(s) /\ expires[s] + Grace <= now})

\* Services whose status a commit turns to SUSPENDED, and why.
Suspend(set, why) ==
    /\ status' = [s \in Services |-> IF s \in set THEN "SUSPENDED" ELSE status[s]]
    /\ reason' = [s \in Services |-> IF s \in set THEN why ELSE reason[s]]

\* The next service: its object is changed, then power_action(stop) is called.
\* The machine stops or does not: a Proxmox task that fails is not noticed, an
\* exception is swallowed.  Where nothing raised, power_action's own commit
\* writes every change the session holds.
StopForSuspension(s) ==
    LET k == "suspend_expired_vps"
        j == job[k]
        rest == [j EXCEPT !.todo = @ \ {s}, !.dirty = @ \union {s}] IN
    /\ j.on /\ s \in j.todo
    /\ running' \in {running, [running EXCEPT ![s] = FALSE]}
    /\ \/ /\ Suspend(rest.dirty, "expired")
          /\ job' = [job EXCEPT ![k] = [rest EXCEPT !.dirty = {}]]
       \/ /\ job' = [job EXCEPT ![k] = rest]
          /\ UNCHANGED <<status, reason>>
    /\ UNCHANGED <<now, expires, used>>

\* The commit at the end.
SuspendExpiredVps ==
    LET j == job["suspend_expired_vps"] IN
    /\ j.on /\ j.todo = {}
    /\ Suspend(j.dirty, "expired")
    /\ job' = [job EXCEPT !["suspend_expired_vps"] = Off]
    /\ UNCHANGED <<now, expires, used, running>>

\* sync_vps_traffic looks for netin and netout in a ProxmoxVMInfo, which has
\* neither, and so writes 0 for every instance it reaches.
SyncVpsTraffic ==
    \E polled \in SUBSET Vps :
        /\ used' = [s \in Vps |-> used[s] /\ s \notin polled]
        /\ UNCHANGED <<now, status, reason, expires, running, job>>

\* The instances over their limit, if power_status says that they run; all
\* suspended in one commit, and no machine stopped.
CheckExceededBandwidth ==
    LET k == "check_exceeded_bandwidth" IN
    \/ \E seen \in SUBSET Vps : Select(k, {s \in seen : Active(s) /\ used[s]})
    \/ /\ job[k].on
       /\ Suspend(job[k].todo, "bandwidth")
       /\ job' = [job EXCEPT ![k] = Off]
       /\ UNCHANGED <<now, expires, used, running>>

-----------------------------------------------------------------------------
(* VPN *)

\* auto_renew_vpn charges the wallet and extends the service in its session,
\* then records an audit entry in the same commit; its details hold UUIDs, which
\* JSONB does not take, so the commit is refused and the run ends (End) with
\* nothing written.  Accounts that cannot pay are skipped.
AutoRenewVpn ==
    Select("vpn",
           {s \in Vpn : Active(s) /\ now < expires[s] /\ expires[s] <= now + Window})

\* suspend_expired_vpn and check_exceeded_traffic hand each account that is due
\* to suspend_account, which compares its status with a member VpnAccountStatus
\* does not have and raises; the task logs that, and ends (End) with nothing
\* changed.
SuspendAccounts ==
    \/ Select("vpn", {s \in Vpn : Active(s) /\ expires[s] <= now})
    \/ \E over \in SUBSET Vpn : Select("vpn", over)

-----------------------------------------------------------------------------

Next ==
    \/ Tick
    \/ SelectForRenewal \/ AutoRenewVps
    \/ SelectForSuspension \/ SuspendExpiredVps
    \/ \E s \in Vps : StopForSuspension(s)
    \/ SyncVpsTraffic \/ CheckExceededBandwidth
    \/ AutoRenewVpn \/ SuspendAccounts
    \/ \E k \in Tasks : End(k)

\* The beat starts every task again and again, no run lasts for ever, and if
\* runs go on dying one of them gets to its commit.
Fairness ==
    /\ SF_vars(SelectForRenewal)
    /\ SF_vars(AutoRenewVps)
    /\ SF_vars(SelectForSuspension)
    /\ WF_vars(SuspendAccounts)
    /\ \A k \in Tasks : WF_vars(End(k))

Spec == Init /\ [][Next]_vars /\ Fairness

-----------------------------------------------------------------------------
(* Properties *)

\* However often a renewal is retried after its commit, and whatever was loaded
\* before it, no service is carried further ahead than one period from when it
\* was due.
RenewedOnce ==
    \A s \in Services : expires[s] = Start \/ (s \in Vps /\ expires[s] <= now + Period)

\* Where the runs of the two tasks stay apart, a VPS suspended because it
\* expired is one that is overdue: nobody renewed it.
SuspendedIsOverdue ==
    \A s \in Vps : reason[s] = "expired" => expires[s] + Grace <= now

\* An expired VPS does not stay active and expired: it is renewed or suspended,
\* although each renewal run may die before its commit.
ExpiryIsHandled ==
    \A s \in Vps : Active(s) /\ expires[s] <= now ~> ~Active(s) \/ expires[s] > now

-----------------------------------------------------------------------------
(* The inductive invariant *)

\* What a renewal is about to write came from services that were due when it
\* looked.
SelectedWereDue ==
    \A s \in job["auto_renew_vps"].todo :
        s \in Vps /\ job["auto_renew_vps"].exp[s] <= now

\* Where the two runs stay apart, what one has in hand the other has not touched.
Apart ==
    ~Overlap =>
        /\ ~(job["auto_renew_vps"].on /\ job["suspend_expired_vps"].on)
        /\ \A k \in Tasks : job[k].on \/ job[k].todo \union job[k].dirty = {}
        /\ \A s \in job["suspend_expired_vps"].todo \union job["suspend_expired_vps"].dirty :
             s \in Vps /\ expires[s] + Grace <= now
        /\ \A s \in job["auto_renew_vps"].todo : reason[s] # "expired"
        /\ \A s \in Vps : reason[s] = "expired" => ~Active(s)
        /\ SuspendedIsOverdue

IInv == TypeOK /\ RenewedOnce /\ SelectedWereDue /\ Apart
=============================================================================
