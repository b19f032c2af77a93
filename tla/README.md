# BlueHub: TLA+ models and proofs

BlueHub sells and runs VPN, VPS, SmartDNS and game-server services. A FastAPI application, a
Telegram bot and Celery workers share one PostgreSQL database and one Redis, and drive external
systems: a Proxmox VE cluster, WireGuard and Xray on VPN servers, PowerDNS, Docker, and the shop
software Paymenter. This directory models the parts whose correctness depends on the order in which
those processes act, checks the models with TLC, and proves the main results with TLAPS.

Every command below runs in this directory: `tlc -config X.cfg M` for a run, `tlapm M.tla` for the
proofs of a module. `PROJECT.json` lists the runs, the mutated definitions that show each property
can fail, the source lines every definition stands for, the hazards and the theorems.

## 1. Inventory

Paths are relative to the repository. "Session" means one SQLAlchemy session: one HTTP request or
one Celery task.

| Component | State | Operations | Interacts with | What makes it correct |
|---|---|---|---|---|
| VPS fleet (`modules/vps/services.py`, `proxmox_client.py`, `api/v1/vps.py`) | `vps_instances` rows; VMs of the cluster | `provision`, `clone`, `decommission`, edit of `proxmox_node`, hard deletes of users and tenants | Proxmox over HTTP; foreign keys to `services` | a row names a VM made for its own service; a VM goes only under the row that asked; no VM is forgotten |
| VPS sizes (`resize`, `update_vps_instance`, the sizes in `sync_status`) | `cpu_cores`, `memory_mb`, `disk_gb`; configuration and live memory of the machine | as named | Proxmox, reboots, disk tasks, the syncs | row and machine agree, or a clean resize makes them agree |
| VPS power (`power_action`, `reinstall`, `rollback_snapshot`, `sync_status`; tasks `sync_all_vps`, `sync_vps_status`) | column `power_status`; what machines do; Proxmox tasks | as named | Proxmox, guests, operators, the beat | the column comes to say what the machine does and stays so |
| VPS snapshots | `vps_snapshots` rows; snapshots on Proxmox | create, delete, retention in `auto_snapshot_vps` | Proxmox, administrators | retention heals, and deletes below its limit only what others took |
| Service terms (`services/tasks/vps.py`, `vpn.py`) | `services.status`, `suspension_reason`, `expires_at` | `auto_renew_vps`, `suspend_expired_vps`, `sync_vps_traffic`, `check_exceeded_bandwidth` and their VPN counterparts | the beat, Proxmox, audit | renewed once per expiry; only the overdue are suspended; none stays active and expired |
| Wallet (`core/billing/service.py`) | `users.wallet_balance`, `transactions` | `top_up_wallet`, `deduct_wallet` | API | no overdraft; transactions add up to the balance |
| Catalog (`core/admin/service.py`, `core/billing/service.py`) | tenants, products, tenant prices, services | create, update, bulk changes, hard deletes, set and remove a price | foreign keys and ORM cascades | one price per tenant and product; a hard delete takes only what it should |
| Users, roles, tokens (`core/auth`, `core/rbac`, `core/users`, `api/v1/auth.py`, `dependencies/auth.py`) | `users` rows; blacklist in Redis; the tokens people hold | register, login, renew, logout, assignments, edits, deletes | Redis through `core/cache.py` | a logout holds until the last seconds of the token; a lost role is not usable for long; an edit does not undo what it has not seen |
| Paymenter webhook (`core/paymenter/service.py`) | `paymenter_webhook_events` | `handle_webhook_event` | Paymenter, which repeats deliveries | an event is processed once and the answer is true |
| Module registry (`core/registry/service.py`) | `module_registry` rows, two Redis keys per module | `register_modules`, `toggle_module`, `is_module_enabled`, `get_module_flags` | Redis, starting workers | caches do not outlive toggles; restarts keep what administrators set |
| VPN sessions and servers (`services/tasks/vpn.py`) | `vpn_sessions`, `vpn_accounts.status`, `vpn_servers.status` | connection sync, session clean-up, health check | `wg`, SSH, overlapping runs | few duplicate sessions, none for ever; a degraded server recovers |
| Xray configuration (`modules/vpn/xray.py`) | `config.json` | suspend, restore, add, remove, sync, write | processes that share the file | what an operation told is true of every file that can be read |
| SmartDNS (`modules/smartdns`, `services/tasks/smartdns.py`) | profiles, records with `synced` | CRUD, sync | a task that never commits | a synced record says what was synced; records belong to the profile |
| Database sessions (`core/database.py`) | transactions | commit or roll back at the end of a session | everything | part of every model |
| Audit (`core/audit`) | `audit_logs` | append | commits the caller's session; refuses tenant "system" | part of service terms |
| VPN accounts, game servers, invoices, commissions, bot | rows | CRUD | - | see section 7 |
| Celery, heartbeat, maintenance, i18n, validation, configuration, migrations, web front end | beat schedule | periodic starts; formatting | workers | the schedule is the fairness of the tasks |

What is hard about it:

- **No lock and no version column anywhere.** Sessions run at READ COMMITTED with `autoflush=False,
  expire_on_commit=False`; they load rows, await something else (often Proxmox), and write values
  computed from what they loaded. An attribute set to the value that was loaded emits no UPDATE.
- **Two stores without a common transaction**: PostgreSQL and Proxmox, PostgreSQL and Redis,
  PostgreSQL and `config.json`. A crash or an error between them leaves them apart.
- **Proxmox works asynchronously**: a call is accepted with a task id, and `_execute_task` looks at
  the task once instead of waiting for it.
- **Repeated work**: Paymenter repeats deliveries; every VPS task ends in an audit entry of tenant
  "system", which is refused after the task's commit, so Celery starts it again; the beat starts two
  different syncs over the same rows.
- **Tokens that outlive what they say**: a token carries the role its user had, has no id, and is
  refused only through a key that Redis may drop.

`PROJECT.json` lists each hazard at the line where it bites, with the properties that bear on it, or
the reason why none does.

## 2. Modules

| Module | Role |
|---|---|
| `VmLease` | abstract: a service holds at most one VMID, a VMID has one holder, and the machine behind it is the holder's |
| `VpsFleet` | rows and VMs in detail; implements `VmLease` |
| `VpsSpecs` | the sizes of one machine against its row |
| `VpsFleetProofs` | theorems about both, on `MCVpsFleet` |
| `VpsPower`, `VpsPowerProofs` | machine states, Proxmox tasks, `power_status`, the syncs |
| `VpsSnapshots` | snapshots of one machine against their rows |
| `ServiceTerms` | expiry, renewal, suspension, bandwidth |
| `ServiceTermsProofs` | theorems about `ServiceTerms` and `VpsSnapshots`, on `MCServiceTerms` |
| `VpnSessions` | connection sync, session clean-up, server health |
| `XrayConfig` | `config.json` |
| `SmartDns` | a profile and its records |
| `VpnSessionsProofs` | theorems about these three, on `MCVpnSessions` |
| `Access` | users, roles, tokens, logout |
| `Catalog` | tenants, products, prices and hard deletes |
| `AccessProofs` | theorems about both, on `MCAccess` |
| `Account` | abstract: deposits and covered withdrawals |
| `Wallet`, `WalletProofs` | wallets in detail; those with one request at a time implement `Account` |
| `PaymenterWebhook`, `PaymenterWebhookProofs` | deliveries, the event table, the answers |
| `ModuleRegistry` | one registry row and the keys that cache it |
| `ModuleRegistryProofs` | theorems about it, and the webhook's carried over to `MCModuleRegistry` |
| `MCVpsFleet`, `MCAccess`, `MCServiceTerms`, `MCVpnSessions`, `MCModuleRegistry` | instances for TLC of several components side by side |

In every module a step is the code between two awaits at which another session can act. `job` (a
function of the session; `run` in `VpnSessions`) holds the program point and the local variables
that survive the await; a committed table is a function from its key to a row. A definition whose
comment begins "Mutated form" (or "A mutant") is no part of the specification: it is the definition
after it with a plausible bug, used to show that a property can fail.

**Side by side.** The `MC` modules put components that share no state into one run: a variable
`part` chooses, once and for all, the component that moves, and the others keep an initial state.
Every behaviour of the composite is a behaviour of one component, so an invariant or an action
property holds of the composite exactly when it holds of the component. A temporal property is
stated as `part = "..." => P`, and the fairness of a component is assumed for its part only. The
components that do interact interact inside one module: rows, cluster and hard deletes in
`VpsFleet`; requests, syncs, guests and Proxmox in `VpsPower`; renewal, suspension, bandwidth and
audit in `ServiceTerms`; logout, Redis and assignments in `Access`; the tables a hard delete
cascades through in `Catalog`.

### VpsFleet

`rows` is `vps_instances`, `vm` the cluster (each VM carries in its name the service it was made
for), `live` the rows of `services`, `dying` the destroy tasks Proxmox has accepted and not
finished. `provision` is BeginProvision, NextAvailableVmid (`_next_available_vmid`, for which a
failed listing is an empty one), CreateVm (`create_vm` and the single look at the task, so the
request may give up although the VM comes into being), InsertRow (the commit, subject to the unique
and foreign keys). `clone` begins with BeginClone and shares the rest. `decommission` is
BeginDecommission, DestroyVm, DropRow. DestroyTaskEnds is Proxmox. UpdateInstanceNode is the PATCH
endpoint. BeginHardDelete and CascadeDelete are the hard deletes with their cascade; the cascade
reaches only an instance inserted after the session loaded the service. Crash may end any request
anywhere. Instance ids are never used twice, as uuid4 values.

A call to destroy a VM has four ends. Proxmox accepts it (AcceptDestroy: the VM is gone at once, or
some time later) and the request goes on to its row, whatever the task came to. Proxmox answers 404,
and the request goes on. Proxmox refuses, and the request ends with nothing done. Or the task is
accepted and the request ends all the same, with the row in place: the answer is lost, or the look
at the task's status raises, which no `try` covers (`proxmox_client.py:640`). The commit of the
deleted row can be refused too (`services.py:527`); that and a dying process are Crash at the point
"drop". No constant switches any of this off. What such an end costs is said by a history variable:
`marred` is the VMIDs at which a decommission was cut short after Proxmox accepted it, or two
overlapped, until a decommission runs to its end there with nobody else about. The properties excuse
a row at a marred VMID and nothing else, so they say that no other interleaving, accident or late
task harms a row, and that a repeated delete restores the promise.

### VpsSpecs

`row` is the committed columns, `vm` the configuration and `live` the memory the machine runs with.
`resize` is Begin, one action for each of its up to four calls in the code's order (SetLive,
SetConfig, ResizeDisk), and Commit, which writes the columns that differ from those loaded; Fail
ends it anywhere with the calls made so far in force. `sync_status`, which the endpoint and both
loops run, is SyncLoad, SyncRead and SyncEnd: it writes `cpu_cores` and `memory_mb` where the
reading differs from what it loaded. Memory is reported as configured or as running; how many cores
a machine reports before its next start is left open. `drift` records the fields that something
other than a clean resize touched last: a half-done resize, two at once, an edit of the row alone, a
disk task that failed after its only look, a reboot between the two calls for memory, a sync of
other cores, a sync that a resize overlapped.

### VpsPower

`actual` is what each machine does, `pending` where a Proxmox task is taking it, `status` the
committed column. A power action, reinstall or rollback is Begin (load the row, decide the calls),
Call for each Proxmox call (refused, or accepted and never awaited) and Store. A sync is SyncStatus
or SyncEach (load the rows), ReadVm (an error of the API counts as a missing machine) and Store,
which writes the column only if the reading differs from the loaded value. `sync_all_vps` goes on
after a missing machine; `sync_vps_status` sets `VpsPowerStatus.UNKNOWN`, which the enumeration does
not define, and ends. Outside is a guest or an operator. `calm` marks the time from which nobody
interferes: no new request, no outside change, no crash, no error of Proxmox.

### VpsSnapshots

`vm` is the names Proxmox has, `rows` the creations that have a row, numbered in the order of
`created_at`, and `named` the name each was asked for. The API takes any name, so an administrator
may use the task's label, which the task tells by its prefix alone (`services/tasks/vps.py:876`):
such rows count and are cleaned up with its own. Every operation is a call to Proxmox, one look, and
a row: ProxmoxCreate and RecordSnapshot, ProxmoxDelete and DropRow. `auto_snapshot_vps` then lists
the rows with its label (ListSnapshots, `AutoRows`) and deletes the oldest above its limit one by
one, in the order of age (`Oldest`). A delete whose Proxmox task failed still drops the row, and a
second row of one name makes `scalar_one_or_none` raise. `lost` counts what may keep rows above the
limit until a run ends well: runs that added a row and did not finish, and administrators' rows
under the label that a run has met; `fresh` such rows that no run has listed yet; `taken` the rows
with the label that administrators delete behind the back of a running clean-up.

### ServiceTerms

Time is counted in half-days; `Period`, `Grace` and `Window` are the 30 days of a renewal, the 24
hours before a suspension and the 12 hours before a VPN renewal. A run Selects the services that are
due and holds their columns from then on. AutoRenewVps commits them all at once; StopForSuspension
changes an object and calls `power_action`, whose own commit writes everything the session has
changed so far, and SuspendExpiredVps is the commit at the end; CheckExceededBandwidth suspends in
one commit. End is a crash, a refused commit or the audit entry of tenant "system" that is refused
after the commit; the beat and Celery's retry then start the task again. SyncVpsTraffic writes 0 for
every instance it reaches, because `ProxmoxVMInfo` has no counters. The VPN tasks select services
and end without a change (section 5). `Overlap` says whether renewal and suspension runs may
overlap.

### VpnSessions

`open` is the CONNECTED sessions of each account. A sync run is Poll (what `wg` said), Load (the
active accounts with their sessions: what to open, which first session to end) and Commit; several
runs overlap because each is started again after its audit entry fails. CleanupStaleSessions ends
every session older than an hour; UpdateVpnAccount is the PATCH endpoint, which commits although its
response then fails; LoadServers and CheckServerHealth are the health check. Die ends a run
anywhere.

### XrayConfig

`file` is `config.json` as a set of users per inbound, or Missing, or Torn: an operation reads it,
changes it in memory, truncates it with `open(.., "w")` and writes it. Suspension replaces the list
of every inbound; restoration adds only where there is a list (elsewhere the user is added to a list
nobody keeps, xray.py:1303); the API's inbound is no VLESS inbound. Operations overlap freely. Two
that have the file open at once (`clashed`) write through handles of their own, each at its own
place, so that one text may be left with the tail of the other: either Dump, or a Crash, may then
leave Torn. `told` is what the last operation that returned said of a user, and is taken back
("nothing") where nobody can stand for it: by an operation that overlapped another one (`mixed`),
for the users it is about, and by a clash, for all. `Lists` bounds the lists of users a config is
synced to or built from. No live code calls the service, so its callers are the environment.

### SmartDns

`profile` is the service's profile, `records` the rows. Requests load, and commit at the end the
columns that differ from what they loaded, so `update_record` writes `synced = FALSE` only over a
record it saw synced. The Celery tasks flush, which holds the rows of the records, and close without
a commit: they end in a rollback. `sent` is what a sync had in its hands. `raced` is the records
updated and synced at the same time.

### Access

`tokens` is the living tokens: subject, the role it claims, time left. `black` is the blacklist key
of each user and the time it has left, both in units of two seconds or more. Logout blacklists the
subject, since tokens have no id, replacing the entry there was. The entry lasts the whole seconds
to go, `int(exp - now)` (`api/v1/auth.py:256`), while the token is accepted through its last second:
the entry ends up to a unit before the token, and a logout in the last unit may write none.
LogoutFails is one that cannot reach Redis: it answers with an error and writes nothing. Renew takes
any token and its claims. Changes of users load a row (UpdateUser, DeleteUser, AssignRole) and
Commit the columns that differ from it. BulkAssignRoles commits one assignment at a time, by the
role its token claims; a refused one ends it. RedisFailsOrReturns and Evict are Redis, which answers
or not, and drops keys when its memory is short. `since` is the time since a user's role changed.

### Catalog

Tenants and products are their active flags, `home` the tenant of each user, `pricing` the price
rows, `attached` the services with rows that a deletion does not take along. Create, Update (one
tenant or several), the two hard deletes, and the prices of a tenant load what they are about,
decide, and commit. Two first prices of one product each find none and want to insert one each: the
unique index on tenant and product (`alembic/versions/20260613_235959_initial_schema.py:295`), which
the mapped class does not have, refuses the second, and with it that request. Nothing in the program
moves users between tenants or creates services: Sell, Attach and Detach are the environment.

### PaymenterWebhook

`table` is the event table, `handled` counts how often each event was processed (two stands for
more), `replies` what Paymenter was told. The handler commits twice (`store_event`,
`mark_processed`), so it is CheckIdempotency, StoreEvent, Process, MarkProcessed; an unsupported
type skips processing and is marked with an error. The source's process functions log only; the
model counts them as the effect they stand for. Crash ends a delivery anywhere, LoseAnswer loses the
answer to a marked event. The `except` around the processing is not an action: nothing between store
and mark that can raise in the code as it is leads to an answer.

### Wallet

`balance` and `ledger` (the sum of a user's transactions) are committed; a session holds the balance
it saw and the amount. Load is `_get_user` with the check of `deduct_wallet`, Commit the flush and
the commit, in which the balance is written as a value and the transaction inserted. `Serial` is the
set of users whose requests happen to come one at a time; nothing in the code makes them, which is
why the other users are modelled too. `Bound` bounds balances and sums for TLC: it is a guard of
Load only. Amounts include 0 because the schema checks an amount before it rounds it to cents.

### ModuleRegistry

`row` is the registry row, `cache` the two keys, and the flags are `enabled` and `stop_new_sales`,
which stands for the three flags without a column. Read and Refill are `is_module_enabled` and
`get_module_flags` after a miss; a hit changes nothing. Toggle is LoadForToggle, CommitToggle,
Invalidate: only the column is written, since the flags dictionary is changed in place and assigned
to itself. LoadForRegister and Register are a starting worker, of any of the deployed versions of
`metadata.py`. Expire is the time to live of a key. `disturbed` records that a commit overtook a
request between its read and its refill, that Redis failed or that a process died. One module is
modelled since modules share nothing.

## 3. Runs

Each row names the instance and the properties it checks.

| Run | Instance | Shows |
|---|---|---|
| VpsFleet | 2 requests, 2 nodes, 2 services, 2 VMIDs, 2 instance ids, symmetric; one accident at a time. Beside it: 2 resizes and a status sync, two of them at a time, 2 fields, 2 sizes | But at a VMID where a decommission was cut short or overlapped: RowsBacked (a row names a VM of its own service), PendingClaims (a request about to insert alone claims its VM), DestroysAsked (a VM goes only under the row whose decommission asked for it), the inductive invariant, ImplementsLease (`VmLease`). SpecsAgree (row and machine agree on a size unless drift touched it last, and a clean resize always heals it) |
| VpsPower | 1 instance, 1 request and both syncs; machines paused or removed from outside | Converges: once nobody interferes the column comes to be right for good; SettledStaysRight: no sync then unsettles a right row |
| ServiceTerms | 2 VPS and 1 VPN service, 4 half-days, period 2, grace 1; 2 machines under both syncs; 3 snapshots of the task or of an administrator, limit 1 | RenewedOnce, SuspendedIsOverdue, TermsHandled (no VPS stays active and expired); SyncsConverge (one sync giving up at a missing machine does not keep the other row wrong); RetentionHeals (rows above the limit never exceed the runs that failed and the rows administrators added under the label since one ended well), CleanUpKeeps (a clean-up deletes below its limit only by what administrators deleted meanwhile) |
| VpnSessions | 1 account, 2 overlapping runs, 3 session ids, a server; 2 users, 2 inbounds, 2 overlapping workers on the file, lists of no user or of both; 2 requests and a task on a profile and a record | OneSessionPerRun, SessionsEnd, ServersRecover; ToldHolds (what an operation told and nothing put in doubt is true of every readable file); SyncedIsCurrent, RecordsBelong |
| Access | 2 users, one of them a superadmin, 2 requests, 2 tokens at a time, tokens live 1 and 3 units, bulk requests of 2; 2 tenants, 1 product, 2 prices, 2 price rows, 1 service | LogoutHolds (a token that was logged out is refused until the last unit of its life), StaleClaimsExpire, ReactivationIsInformed; PricesSound (one price per tenant and product, and both exist), HardDeleteSpares |
| Wallet | 2 users (one serial), 2 sessions, amounts 0..2, bound 4 | NoOverdraft for all; SerialLedgerMatches and ImplementsAccount (`Account`) for the serial user; the inductive invariant |
| ModuleRegistry | 2 requests, 1 administrator, 1 worker, 2 versions; 3 deliveries at once, 2 events (one unsupported), 2 failures | StaleOnlyInToggle, KeysConverge, RestartKeepsEnabled, the inductive invariant; AtMostOnce, AnswersAreTrue, EventuallyAnswered |
| VpsFleetDestroysOwnVm | 2 requests, 1 node, 3 instance ids | **violated**: two deletes of one instance overlap, and the second destroys the VM of a customer who was given the VMID in between |
| VpsFleetNoOrphanVm | 1 request | **violated**: a VM without a row stays behind |
| PaymenterWebhookRetries | 2 deliveries, 1 failure | **violated**: an event told "already queued for retry" is never processed |
| WalletLedger | 2 sessions on one wallet | **violated**: two requests overlap and one change of the balance is lost, both transactions stay |
| ModuleRegistryFlags | 1 request, 1 version, no deliveries | **violated**: a toggle of `stop_new_sales` commits nothing |

Deadlock is checked except in ModuleRegistry, ModuleRegistryFlags and PaymenterWebhookRetries: when
every event has its answer, or nobody asks for a module any more, these systems may stop.

Every module states its TypeOK. It is part of the inductive invariant where a run checks one
(`VpsFleet`, `Wallet`, `ModuleRegistry`) and of the inductive invariant of every proof.

**Why the bounds are enough.** The conflicts of the fleet are between two requests over one VMID or
one service; two of each, two instance ids for the one service and two nodes for the row that names
the wrong one show them, and the proofs cover every other number of all of them. The constraint
OneAccident leaves out what follows from a second accident while the first is not mended (a service
gone, a row on the wrong node, a VMID being destroyed or marred); the theorems have no such bound. A
size is a value that two resizes disagree about, and memory and disk are the two fields with a life
of their own outside the row; TwoAtOnce leaves three operations at once to the theorem. A power row
interacts with one request and two syncs at a time; the loop needs a second row, and no request.
Renewals need a period longer than the retry and a clock that passes expiry, grace and a second
expiry; the proofs cover the rest. Snapshots need a row above the limit and one more to add, of the
task or of an administrator between two of the task. Sessions need as many overlapping runs as
duplicates and one id more. The file needs a user that is worked on and one that is not, a generated
inbound and another, and lists that leave somebody in or out; lists of one user more are what `add`
and `remove` make. A record can be raced by an update and a sync, in either order with a second
update. For logout one token has to be older than another, and live for more than two units, so that
a refusal in time and one too early differ. The disturbed logouts of the superadmin are left out of
the run (StaffUndisturbed), those of the other user are in it. A price needs two requests, and the
hard delete of a tenant or a product against one of them. An event needs two deliveries to conflict
and a third to come after both; two failures are one for each phase. The wallet's conflict needs two
sessions, and a bound of 4 lets two top-ups of 2 precede deductions. In the registry a second
request lets a refill be late while another hits. The violation runs use the smallest instances in
which the violation occurs.

**Symmetry.** VpsFleet permutes services, instances, nodes and requests, Access requests, tenants
and prices; neither run checks liveness. VMIDs are ordered and users differ, so they are not
permuted. The resizes and sizes of VpsSpecs are given the model values of requests and services,
which share no state with them, so that one group of permutations serves both parts. VpnSessions
permutes the users and workers of `XrayConfig` only. Its temporal properties are about the part that
moves the sessions; while that part moves, `XrayConfig` keeps an initial state, in which no worker
does anything and nobody was told anything, so no permutation changes any state those properties
look at and the graph they are checked on is the whole one.

**Fairness.** Weak fairness of a session's own steps in VpsPower, PaymenterWebhook and
ModuleRegistry: a request or task that has begun is scheduled. Weak fairness of the two syncs:
`celery_app.py` starts them every 120 s and 900 s. Weak fairness of a Proxmox task: it ends, well or
not; nothing is assumed of how. Paymenter delivers an event until it is answered with 200, and
Deliver has strong fairness, as deliveries of other events may keep the modelled sessions busy.
Expire has strong fairness: a key has a time to live of 60 s, and a refill may delete and restore it
in between. In ServiceTerms the selections of the renewal and the suspension run and the renewal's
commit have strong fairness: the beat starts both tasks for ever, Celery retries them, and if a run
dies now and then the next comes; what is excluded is only that every single run for all time dies
before its commit. In VpnSessions time passes and the beat starts the daily clean-up and the health
check; nothing is assumed of the sync runs. Crashes and errors are never fair. Converges,
SyncsConverge and KeysConverge say what happens once `calm` comes; it is not assumed that it does.

## 4. Proofs

A run shows a property on a small instance; a theorem states it for every value of the constants
that satisfies the named assumptions. Every invariant and every action property that a passing run
checks is stated by a theorem, and so are the two refinements. SettledForGood also covers what the
bounds of the VpsPower run leave out, two requests of one instance at once. What the runs alone show
is liveness.

**Assumptions.** `FleetAssumption`, `SpecsAssumption`, `PowerAssumption`, `TermsAssumption`,
`SnapshotsAssumption`, `VpnAssumption`, `AccessAssumption`, `CatalogAssumption`, `WalletAssumption`,
`RegistryAssumption` and `HookAssumption` are ASSUMEd, and TLC evaluates each in a passing run. They
give the types of the parameters, say that sentinels are no values and that sets of different actors
are disjoint; the sets of runs, ids, events and deliveries that are counted are finite. Nothing is
assumed of how many users, requests, machines, records or prices there are. The bounds that keep TLC
finite (`MaxRows`, `MaxPick`, `MaxProfiles`, `MaxRecords`, `MaxTokens`, `MaxBulk`, `MaxTime`,
`MaxCrashes`, `Lists`, `Bound`) are constants too, so the theorems hold for each of their values;
the constraints OneAccident, TwoAtOnce and StaffUndisturbed bound the runs alone. One theorem has a
hypothesis about the environment, which its property states: SuspendedIsOverdueHolds speaks of
renewal and suspension runs that stay apart (`~Overlap` of `ServiceTerms`). Without it a service
renewed after it was selected is suspended. All others hold of every interleaving, crash and error
the modules have; where the code cannot keep a promise after one of those, the property names the
users it is about (`Serial`) or the history that excuses it (`marred`, `drift`, `lost`, `fresh`,
`taken`, `shaky`, `raced`, `disturbed`, a word taken back).

**The form.** Each safety proof shows `Init => IInv`, `IInv /\ [Next]_vars => IInv'` with one step
per action, and the property from `IInv`, the conjunction of named parts at the end of the module it
is about. An action property is shown of one step from `IInv`. A composite (`MC...`) takes a step of
one component or leaves it alone, so its specification implies the invariant of each. A helper of
the model that several actions use has a lemma of its own (what a commit loads, what the end of a
session leaves, what a function with one changed value counts).

- **VpsFleetProofs.** RowsBacked alone is not inductive: that an insertion gets a VM of its own
  needs PendingClaims, which needs that nobody destroys that VM, which needs that the target of a
  running decommission is still what its row named (DestroyTargets, DeletesRemember), that a VM
  being destroyed is unclaimed (DyingUnclaimed) and that deletes of one instance are serial
  (DeletesSerial), each but at marred VMIDs. A VMID is cleared of the mark only by the decommission
  that drops its row with nobody else about (LeftAlone), so that the invariant holds there again.
  DestroysAsAsked is one step from it. FleetIsLease is step by step: by `IInv` a VMID has one holder
  (OneHolder), so InsertRow claims one lease, the steps that drop a row or take a VM release one
  (OneReleased), and every other action stutters. SizesAgree, of `VpsSpecs`, is about a resize that
  has met nobody on a field: it works alone and the row is as it loaded it (UnmetAlone), what it has
  called for is what the machine has or is getting (UnmetDone), and a field nobody touches stays
  settled (UntouchedSettled). A sync that has met no resize on a field has loaded and read what the
  row says (UnmetSyncs), so it writes nothing new.
- **VpsPowerProofs.** The invariant is the types and, for each program point, what a session holds
  there (`Formed`): a session about to write has a value to write, one that calls has calls left.
  SettledForGood: an instance that has settled has nobody left who would call or write anything
  untrue of it; a sync that reads it reads the truth (Looks), and any write to it writes that
  (HasStored).
- **ServiceTermsProofs.** RenewedOnceHolds: RenewedOnce is not inductive, because a renewal writes
  what it loaded; SelectedWereDue says that what a run has in hand was due, so that one period more
  is at most a period from now, however often the run dies and is started again. In
  SuspendedIsOverdueHolds what one of the two runs has in hand the other has not touched (Apart).
  RetentionHolds and CleanUpsKeep, of `VpsSnapshots`, follow the clean-up: the rows it will leave
  are no more than the limit and those added since it listed them, and no fewer but for what
  administrators took meanwhile, of its list or not (`Leaves`). It rests on the numbers of
  creations: one under way has a number of its own (CreatesApart), nothing is known of numbers yet
  to come (ClockAhead), and a clean-up works through numbers with the label, whose rows may have
  gone (CleansAuto). One step adds or drops at most one row.
- **VpnSessionsProofs.** OneSessionPerRunHolds counts the sessions there are and those about to be:
  together they are at most the number of runs (OpenOrOpening), since a run opens only where it saw
  none. The proof is about cardinalities: the new id of each account is fresh, and a commit takes
  its run out of the set of those opening as it puts one session in. SuspensionsHold has no
  hypothesis about overlaps: of two operations under way at once both are known to overlap, and of
  two open files both to clash (Overlaps), and such operations only ever take words back. What an
  operation has read and what it will write are therefore true of every word that stands (`Knows`),
  though the file may have moved on; besides, the generated inbound has a list (HasMain), and nobody
  was restored into a missing file (NothingRestored). SyncsAreCurrent: what a sync has in hand is
  what the record says unless an update came between (HeldIsCurrent); RecordsBelongToProfile rests
  on the uniqueness of the profile of a service and on the cascade of its deletion, for a commit
  finds the row gone or its own.
- **AccessProofs.** LogoutsHold: LogoutHolds is not inductive, because a logout replaces the entry
  of its user by one that may be shorter; LogoutsAlone says that a logout which met no other finds
  only tokens logged out before it that are in the last unit of their life, which no entry has to
  outlast. ClaimsExpire needs that an access token that was not renewed lives at most AccessLife
  (TokensLive), so a role changed now leaves no more. ReactivationsAreInformed: a commit writes only
  what differs from the row it loaded. PricesAreSound, of `Catalog`: an insertion meets the index
  and the foreign keys, the hard deletes cascade, and a row that was found is still a price of its
  product for its tenant or has gone, since rows are never reused (RowsFresh, FoundRow).
  ServicesSpared: of what a hard deletion saw, only unattached services of the tenant's own users go
  with it (Sparing).
- **PaymenterWebhookProofs.** ProcessedAtMostOnce and AnswersHonest rest on OneOwner: past the
  store, a delivery is the only one for its event and its row is still pending. The unique
  `event_id` gives it; the look-up before it does not.
- **WalletProofs.** NeverOverdrawn has no hypothesis: what a session is about to write is not
  negative whatever it has missed (PendingSound). LedgerKept and WalletIsAccount are about the
  serial users, whose session has missed nothing (Exclusive). The refinement mapping is the balance
  itself.
- **ModuleRegistryProofs.** KeyStaleOnlyInToggle rests on RefillsFresh (until something disturbs it,
  a request is about to cache what the row says) and RowStays (a row that was read stays).
  RestartsKeepEnabled: only a toggle that asks for it changes the column. EventsOnce and RepliesTrue
  take the webhook's theorems over to the composite the run checks, through an instance of the
  webhook's proof module.

**Model-checked only.** Liveness is out of the prover's reach: Converges, SyncsConverge,
KeysConverge, EventuallyAnswered, TermsHandled, SessionsEnd and ServersRecover. So are the
violations: the runs show that NoOrphanVm, LedgerMatches, RetriesHappen, TogglesFlags and
DestroysOwnVm fail.

## 5. What disagrees with what the code says of itself

Violated runs:

1. **Orphaned VMs.** `provision` promises a VM and its record. If the task is not finished when it
   is looked at, if the insert is refused, or if the process dies in between, the VM stays and
   nothing cleans it up; so does one whose accepted destroy task fails after `decommission` dropped
   the row.
2. **A delete that hits the next customer.** Two deletes of one instance at once: the second sends
   its call for a VMID that has been given away.
3. **"Queued for retry" is not.** No code processes an unprocessed event again, and the 200 ends
   Paymenter's deliveries.
4. **Lost balance updates.** The transaction table and the balance disagree after two overlapping
   requests.
5. **Flags are not written.** `toggle_module` assigns the dictionary it has changed to the attribute
   that already holds it.

Built into the models as the code does them, without a run of their own:

- `sync_vps_status` stops at the first missing machine, on the attribute `VpsPowerStatus.UNKNOWN`
  that the enumeration lacks (`services/tasks/vps.py:100`); `sync_all_vps` makes up for it, which
  SyncsConverge shows.
- An expired VPN service is neither renewed nor suspended, against the docstring at
  `services/tasks/vpn.py:1165`: the renewal's audit details hold UUIDs and its commit is refused,
  and suspension compares with a status that does not exist (`modules/vpn/services.py:711`).
- `decommission` says it destroys the VM and removes the record. If the answer of Proxmox is lost or
  the look at the task raises (`proxmox_client.py:640`), or if the commit is refused
  (`services.py:527`), the destroy goes on and the row stays, over a VMID that may be handed out
  again. A repeated delete mends it, unless somebody has the VMID by then. `marred` is this state.
- `sync_status` writes the sizes it has read over the row (`modules/vps/services.py:378`): one that
  a resize overlaps puts an older size back, and one of a machine that waits for a restart to use
  its new cores may put the old number back (`drift`).
- Two operations that have `config.json` open at once leave the tail of one text behind the other,
  and a file no later operation can read (`modules/vpn/xray.py:1219`, `:1321`), without any crash.
- Snapshots that administrators name like the task's count against the task's limit and are cleaned
  up by it (`services/tasks/vps.py:876`).
- The entry of a logout is cut to whole seconds (`api/v1/auth.py:256`): the token is accepted again
  for up to two seconds at its end, and after a logout in its last second.
- A slow snapshot task leaves a snapshot without a row, which retention never sees
  (`proxmox_client.py:640`).
- `suspend_expired_vps` swallows a failed stop (`services/tasks/vps.py:750`): the service is
  suspended and the machine runs on.
- The logout of one token refuses every token of its user, and a second logout with an older token
  shortens the entry (`api/v1/auth.py`): that is why LogoutHolds excepts overlapping logouts.
- `bulk_assign_roles` commits one by one where its docstring speaks of a single transaction
  (`core/rbac/service.py:443`).
- A user restored to an inbound without a list is added to a list nobody keeps
  (`modules/vpn/xray.py:1303`).
- An amount is checked before it is rounded, so a top-up of 0 passes (`core/billing/schemas.py:35`).
- A failed VM listing counts as an empty one, so `_next_available_vmid` may pick a VMID in use
  (Proxmox then refuses it, which is what PendingClaims relies on); `reinstall` trusts the column
  when it decides whether to stop the machine; a late refill lets a disabled module be reported
  enabled for up to 60 s.
- The unique index on a tenant's prices is in the initial migration only; a database made from the
  mapped classes would let two first prices in, after which `scalar_one_or_none` raises for both set
  and remove. The model has the index.

## 6. Plan

Done: the fleet, the power states, the wallet, the webhook and the registry; then the terms of
services, VPN sessions, `config.json`, SmartDNS, snapshots, sizes, access and the catalog; then the
proofs of every invariant, action property and refinement the runs check. What is left:

1. Safety facts that the liveness properties rest on and that can be proved: that a settled row of
   `VpsPower` needs no further step, that a stale key has a time to live, that an unanswered event
   is delivered or held.
2. A property of `reinstall`, which decides from a column that may be stale (the hazard at
   `modules/vps/services.py:456`).

The modules are written for it: constants with named assumptions, one action per operation,
invariants as conjunctions of named parts, no recursive operator.

## 7. Not modelled, and why

Much of the repository's source never runs to a state change, and much of the rest changes none. The
map covers the code in which state changes and order matters; the larger part of the lines is
unreachable or pure input and output:

- **Telegram bot.** Its middleware is attached to updates, which carry no sender, so it finds no
  user; handlers ask for a `db_session` that nothing injects and end in TypeError.
- **Game servers.** `GameServerService` constructs `AuditLogger()` without the session it requires
  (`modules/game/services.py:132`, `core/audit/logger.py:34`) and ends in TypeError.
- **VPN accounts.** `create_account` passes `total_bytes`, which `VpnAccount` does not have, and
  calls key generators that do not exist; suspension, restoration and termination use a status that
  does not exist; the traffic polls read `total_bytes`. The operation that does write, update, is in
  `VpnSessions`. The peers of WireGuard are added and removed only from those operations.
  `vpn_servers.py` has no caller that reaches it.
- **Invoices, commissions, billing API.** `create_invoice` and the mark-paid operations use the name
  `timezone`, which `core/billing/service.py` does not import; `create_commission` has no caller;
  responses of the billing API declare `id: str` where the row has a UUID, fail validation, and are
  rolled back with what they did. `AdminService.create_product`, `update_product` and the abuse
  reports fail before they write.
- **PowerDNS.** `PowerDnsClient` has no caller.
- **Repositories, unit of work.** No caller. The cache client's only live users are logout and the
  token checks (`Access`).
- **Audit log.** Entries of tasks are refused, which is in `ServiceTerms`; the decorator and
  `cleanup_old_logs` have no caller.
- **`check_vps_expiration`** warns only, and `cleanup_stale_vps` looks for the status TERMINATED,
  which no code sets.
- **Maintenance, monitoring, heartbeat.** Placeholders that log. **Internationalisation.** Look-ups
  in texts that are loaded once.
- **Formatting.** Links, stream settings, configuration texts, response models, listings,
  statistics, console tickets: no state.
- **Validation, configuration, exceptions, web front end, scripts, migrations.** No state of their
  own. The index on a tenant's prices, which only a migration makes, is in `Catalog`.
- **Money** is whole cents; the columns are binary floating point. Signature checks and password
  hashes are abstracted.
- **Connection pools, the broker, Celery's result back end**: external; a lost task is a task that
  was not started.
