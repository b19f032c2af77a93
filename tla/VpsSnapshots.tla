---------------------------- MODULE VpsSnapshots ----------------------------
(***************************************************************************)
(* Snapshots of one virtual machine: those Proxmox has and the             *)
(* vps_snapshots rows that record them.                                    *)
(*                                                                         *)
(* auto_snapshot_vps takes one a day and deletes the oldest rows above its *)
(* limit; administrators create and delete snapshots at the same time.     *)
(* Every operation asks Proxmox first, looks at the task once and then     *)
(* writes the row.  Proxmox locks a machine while a task works on it, so a *)
(* task is one step here.  rollback_snapshot writes no snapshot: it is an  *)
(* action of VpsPower.                                                     *)
(*                                                                         *)
(* The API takes any name, those with the task's label included, which the *)
(* task tells from others by their prefix alone.  created_at, which it     *)
(* sorts by, is when the creation's transaction began.                     *)
(***************************************************************************)
EXTENDS Naturals, FiniteSets

CONSTANTS
    Admins,   \* requests of administrators
    Manual,   \* names without the task's label
    Keep,     \* max_snapshots_per_instance
    MaxRows,  \* bound: creations, numbered 1..MaxRows in the order of created_at
    AutoRun,  \* the run of auto_snapshot_vps
    Nil

\* What the proofs assume of the constants.
SnapshotsAssumption ==
    /\ {Keep, MaxRows} \subseteq Nat
    /\ AutoRun \notin Admins
    /\ \A n \in Manual : n \notin 1..MaxRows

VARIABLES
    vm,      \* names of the snapshots the machine has
    rows,    \* the creations that have a row
    named,   \* the snapshot_name each creation was asked for
    clock,   \* the last creation that was asked for
    job,     \* what the run and each request are doing
    lost,    \* excuses for rows above the limit: runs that added a row and did not
             \* finish, rows administrators added under the task's label, until a
             \* run ends well
    fresh,   \* such rows of administrators that no run has listed yet
    taken    \* rows with the label they have deleted since the run listed them

vars == <<vm, rows, named, clock, job, lost, fresh, taken>>

Workers == Admins \union {AutoRun}
Stamps == 1..MaxRows

\* Names with the task's label: the run gives the second it is in, for which the
\* number of its creation stands.
AutoNames == 1..MaxRows
Names == Manual \union AutoNames

\* An operation: the name it was given, and the creations it still has to record,
\* or, in a clean-up, to delete the snapshots and the rows of.
Job == [at: {"idle", "create", "record", "list", "delete", "drop"},
        name: Names \union {Nil}, todo: SUBSET Stamps]
Idle == [at |-> "idle", name |-> Nil, todo |-> {}]

TypeOK ==
    /\ vm \subseteq Names
    /\ rows \subseteq Stamps
    /\ named \in [Stamps -> Names \union {Nil}]
    /\ clock \in 0..MaxRows
    /\ job \in [Workers -> Job]
    /\ lost \in Nat /\ fresh \in Nat /\ taken \in Nat

Init ==
    /\ vm = {} /\ rows = {} /\ named = [k \in Stamps |-> Nil] /\ clock = 0
    /\ job = [w \in Workers |-> Idle]
    /\ lost = 0 /\ fresh = 0 /\ taken = 0

To(w, at, name, todo) == job' = [job EXCEPT ![w] = [at |-> at, name |-> name, todo |-> todo]]
Finish(w) == job' = [job EXCEPT ![w] = Idle]
At(w, at) == job[w].at = at

\* The rows whose snapshot_name starts with snapshot_label.
AutoRows == {k \in rows : named[k] \in AutoNames}

\* The rows of a name.
RowsOf(n) == {k \in rows : named[k] = n}

Oldest(k, stamps) == k \in stamps /\ \A l \in stamps \ {k} : k < l

-----------------------------------------------------------------------------
(* The operations begin *)

Creates(w, n) ==
    /\ At(w, "idle") /\ clock < MaxRows
    /\ clock' = clock + 1
    /\ named' = [named EXCEPT ![clock + 1] = n]
    /\ To(w, "create", n, {clock + 1})
    /\ UNCHANGED <<vm, rows, lost, fresh, taken>>

\* The beat, or a retry: the run's audit entry is refused, so it is run again.
AutoSnapshotVps == Creates(AutoRun, clock + 1)

CreateSnapshot(w) == \E n \in Names : Creates(w, n)

DeleteSnapshot(w) ==
    /\ At(w, "idle")
    /\ \E n \in Names : To(w, "delete", n, {})
    /\ UNCHANGED <<vm, rows, named, clock, lost, fresh, taken>>

-----------------------------------------------------------------------------
(* Their steps *)

\* The operation raises, or its process dies.
Ends(w) ==
    /\ Finish(w)
    /\ lost' = IF w = AutoRun /\ job[w].at \in {"list", "delete", "drop"} THEN lost + 1 ELSE lost

Fail(w) ==
    /\ ~At(w, "idle")
    /\ Ends(w)
    /\ UNCHANGED <<vm, rows, named, clock, fresh, taken>>

\* Proxmox refuses a name the machine has.  A task that has not succeeded when
\* it is looked at counts as failed, and the snapshot is there all the same.
ProxmoxCreate(w) ==
    /\ At(w, "create")
    /\ job[w].name \notin vm
    /\ vm' = vm \union {job[w].name}
    /\ To(w, "record", job[w].name, job[w].todo) \/ Finish(w)
    /\ UNCHANGED <<rows, named, clock, lost, fresh, taken>>

RecordSnapshot(w) ==
    /\ At(w, "record")
    /\ rows' = rows \union job[w].todo
    /\ fresh' = IF w # AutoRun /\ job[w].name \in AutoNames THEN fresh + 1 ELSE fresh
    /\ IF w = AutoRun THEN To(w, "list", Nil, {}) ELSE Finish(w)
    /\ UNCHANGED <<vm, named, clock, lost, taken>>

\* A clean-up turns to the oldest row of its list.
CleanNext(stamps) ==
    \E k \in stamps : Oldest(k, stamps) /\ To(AutoRun, "delete", named[k], stamps)

\* The oldest rows of the task, all but so many; with none the run is done.
Clean(limit) ==
    /\ At(AutoRun, "list")
    /\ taken' = 0 /\ fresh' = 0
    /\ IF Cardinality(AutoRows) > limit
         THEN /\ \E old \in SUBSET AutoRows :
                   /\ Cardinality(AutoRows \ old) = limit
                   /\ \A k \in old, l \in AutoRows \ old : k < l
                   /\ CleanNext(old)
              /\ lost' = lost + fresh
         ELSE Finish(AutoRun) /\ lost' = 0
    /\ UNCHANGED <<vm, rows, named, clock>>

\* Mutated forms: one too few is kept; only one is ever deleted.
ListAndKeepFewer == Clean(Keep - 1)
ListAndDeleteOne ==
    Clean(IF Cardinality(AutoRows) > Keep THEN Cardinality(AutoRows) - 1 ELSE Keep)

ListSnapshots == Clean(Keep)

\* Nobody looks at how the task went: it may have failed, as it does for a
\* snapshot that is not there.
ProxmoxDelete(w) ==
    /\ At(w, "delete")
    /\ vm' \in {vm, vm \ {job[w].name}}
    /\ To(w, "drop", job[w].name, job[w].todo)
    /\ UNCHANGED <<rows, named, clock, lost, fresh, taken>>

\* One row of the name is deleted, none is no matter, and several make
\* scalar_one_or_none raise.
DropRow(w) ==
    /\ At(w, "drop")
    /\ LET same == RowsOf(job[w].name)
       IN  \/ /\ Cardinality(same) <= 1
              /\ rows' = rows \ same
              /\ taken' = IF w # AutoRun /\ same \intersect AutoRows # {} THEN taken + 1 ELSE taken
              /\ \/ /\ w # AutoRun
                    /\ Finish(w) /\ lost' = lost
                 \/ /\ w = AutoRun
                    /\ \E k \in job[w].todo :
                         /\ Oldest(k, job[w].todo)
                         /\ IF job[w].todo = {k}
                              THEN Finish(w) /\ lost' = 0
                              ELSE CleanNext(job[w].todo \ {k}) /\ lost' = lost
           \/ /\ Cardinality(same) > 1
              /\ Ends(w)
              /\ UNCHANGED <<rows, taken>>
    /\ UNCHANGED <<vm, named, clock, fresh>>

-----------------------------------------------------------------------------

Next ==
    \/ AutoSnapshotVps \/ ListSnapshots
    \/ \E w \in Admins : CreateSnapshot(w) \/ DeleteSnapshot(w)
    \/ \E w \in Workers :
         ProxmoxCreate(w) \/ RecordSnapshot(w) \/ ProxmoxDelete(w) \/ DropRow(w) \/ Fail(w)

Spec == Init /\ [][Next]_vars

-----------------------------------------------------------------------------
(* Properties *)

Cleaning == job[AutoRun].at \in {"delete", "drop"}

\* However often clean-ups fail half way, and whatever administrators add under
\* the task's label, one run that ends well brings the rows with that label down
\* to its limit again: there are never more above it than runs that failed and
\* rows that were added since, and the run that is under way.
RetentionHeals ==
    Cardinality(AutoRows) <=
        Keep + lost + fresh + (IF At(AutoRun, "list") \/ Cleaning THEN 1 ELSE 0)

\* The clean-up leaves as many rows as its limit, less those an administrator
\* deletes behind its back: a list that has become stale, and a name that has got
\* another row since, cost no more.
CleanUpKeeps ==
    [][At(AutoRun, "drop") /\ Cardinality(AutoRows') < Cardinality(AutoRows)
         /\ job'[AutoRun] # job[AutoRun]
        => Cardinality(AutoRows') + taken' >= Keep]_vars

-----------------------------------------------------------------------------
(* The inductive invariant *)

\* A creation under way has a number of its own, and no row yet.
CreatesApart ==
    \A w \in Workers :
        At(w, "create") \/ At(w, "record") =>
            \E k \in 1..clock :
                /\ job[w].todo = {k} /\ job[w].name = named[k] /\ named[k] \in Names
                /\ k \notin rows
                /\ \A v \in Workers \ {w} : k \notin job[v].todo

\* A clean-up works through creations of the task's label, and knows the name of
\* the oldest.
CleansAuto ==
    Cleaning =>
        /\ \A k \in job[AutoRun].todo : k <= clock /\ named[k] \in AutoNames
        /\ \E k \in job[AutoRun].todo :
             Oldest(k, job[AutoRun].todo) /\ job[AutoRun].name = named[k]

\* Nothing is known of creations that were not asked for.
ClockAhead == \A k \in Stamps : k > clock => k \notin rows /\ \A w \in Workers : k \notin job[w].todo

\* Only creations and clean-ups have anything left to do.
OthersIdle ==
    \A w \in Workers :
        ~(At(w, "create") \/ At(w, "record") \/ (w = AutoRun /\ Cleaning)) => job[w].todo = {}

Shape == TypeOK /\ CreatesApart /\ CleansAuto /\ ClockAhead /\ OthersIdle

\* The rows a clean-up will leave: no more than the limit and those that were
\* added meanwhile, and no fewer than it but for those that administrators have
\* deleted, of its list or not.
Leaves ==
    Cleaning =>
        LET todo == job[AutoRun].todo
        IN  /\ Cardinality(AutoRows \ todo) <= Keep + fresh
            /\ Cardinality(AutoRows \ todo) + taken >= Keep + Cardinality(todo \ rows)

IInv == Shape /\ Leaves /\ RetentionHeals
=============================================================================
