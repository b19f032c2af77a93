----------------------------- MODULE VpsSpecs -----------------------------
(***************************************************************************)
(* The size of one virtual machine: what Proxmox gives it and what the     *)
(* columns cpu_cores, memory_mb and disk_gb of its row say.                *)
(*                                                                         *)
(* A resize makes up to four calls to Proxmox and writes the row after the *)
(* last one, so it can fail or die with some of them done.  Updates of the *)
(* row alone (update_vps_instance), other resizes, the disk task that goes *)
(* on after its only look, reboots and status syncs, which write what they *)
(* have read over the row, come in between.                                *)
(***************************************************************************)
EXTENDS Naturals

CONSTANTS
    Requests,   \* resizes that may overlap
    Syncs,      \* status syncs: the endpoint's and those of the two loops
    Fields,     \* "memory", "disk" and, with nothing of its own, "cores"
    Sizes,      \* sizes of any resource
    Nil

VARIABLES
    row,      \* the committed columns
    vm,       \* the configuration of the machine
    live,     \* the memory the machine runs with
    growing,  \* the size a disk task is bringing the disk to, or Nil
    job,      \* what each request is doing
    sync,     \* what each status sync has loaded and read
    drift     \* fields that something other than a clean resize touched last

vars == <<row, vm, live, growing, job, sync, drift>>

Specs == [Fields -> Sizes]
Wish == [Fields -> Sizes \union {Nil}]

\* A resize: what it was asked for, what the row said of that when it was loaded,
\* the calls to Proxmox it has yet to make, and the fields somebody else worked on
\* meanwhile.
Job == [asked: Wish, loaded: Wish, calls: SUBSET ({"live"} \union Fields), met: SUBSET Fields]

\* A status sync, which leaves the disk alone: the columns it loaded, the sizes it
\* has read, if it has, and the fields a resize worked on meanwhile.
Synced == Fields \ {"disk"}
Unread == [f \in Synced |-> Nil]
Sync == [loaded: [Synced -> Sizes], read: [Synced -> Sizes] \union {Unread},
         met: SUBSET Synced]

TypeOK ==
    /\ row \in Specs /\ vm \in Specs /\ live \in Sizes
    /\ growing \in Sizes \union {Nil}
    /\ job \in [Requests -> Job \union {Nil}]
    /\ sync \in [Syncs -> Sync \union {Nil}]
    /\ drift \subseteq Fields

\* provision creates the machine with the sizes it writes to the row.
Init ==
    /\ row \in {[f \in Fields |-> n] : n \in Sizes}
    /\ vm = row /\ live = row["memory"]
    /\ growing = Nil
    /\ job = [r \in Requests |-> Nil]
    /\ sync = [q \in Syncs |-> Nil]
    /\ drift = {}

Works(r, f) == job[r] # Nil /\ job[r].asked[f] # Nil

\* The calls to Proxmox in the order resize makes them: the memory of the
\* running machine, that of its configuration, the cores, the disk.
Rank == [live |-> 1, memory |-> 2, cores |-> 3, disk |-> 4]
FieldOf(c) == IF c = "live" THEN "memory" ELSE c

\* A mutant: no call for a size that the row already has.
CallsForChanges(asked) ==
    {c \in DOMAIN Rank : /\ FieldOf(c) \in Fields
                         /\ asked[FieldOf(c)] \notin {Nil, row[FieldOf(c)]}}

\* The calls for what was asked.
Calls(asked) ==
    {c \in DOMAIN Rank : FieldOf(c) \in Fields /\ asked[FieldOf(c)] # Nil}

\* Somebody works on these fields: every request that does so too has met it.
Meet(fields) ==
    [q \in Requests |->
        IF job[q] = Nil THEN Nil
        ELSE [job[q] EXCEPT !.met = @ \union {f \in fields : Works(q, f)}]]

MeetSyncs(fields) ==
    [q \in Syncs |->
        IF sync[q] = Nil THEN Nil
        ELSE [sync[q] EXCEPT !.met = @ \union (fields \intersect Synced)]]

\* resize_instance: at least one field is given, the instance is loaded.
Begin(r) ==
    /\ job[r] = Nil
    /\ \E asked \in Wish :
        LET wanted == {f \in Fields : asked[f] # Nil}
        IN  /\ wanted # {}
            /\ job' = [Meet(wanted) EXCEPT ![r] =
                        [asked |-> asked, calls |-> Calls(asked),
                         loaded |-> [f \in Fields |-> IF f \in wanted THEN row[f] ELSE Nil],
                         met |-> {f \in wanted : \E q \in Requests : Works(q, f)}]]
            /\ sync' = MeetSyncs(wanted)
    /\ UNCHANGED <<row, vm, live, growing, drift>>

\* c is the next call of request r.
Calling(r, c) ==
    /\ job[r] # Nil
    /\ c \in job[r].calls
    /\ \A d \in job[r].calls : Rank[c] <= Rank[d]

Called(r, c) == job' = [job EXCEPT ![r].calls = @ \ {c}]

\* resize_vm: hot-plugs the memory, then makes it persistent.
SetLive(r) ==
    /\ Calling(r, "live")
    /\ live' = job[r].asked["memory"]
    /\ Called(r, "live")
    /\ UNCHANGED <<row, vm, growing, sync, drift>>

\* resize_vm: config.set of the memory and of the cores.
SetConfig(r, f) ==
    /\ f # "disk"
    /\ Calling(r, f)
    /\ vm' = [vm EXCEPT ![f] = job[r].asked[f]]
    /\ Called(r, f)
    /\ UNCHANGED <<row, live, growing, sync, drift>>

\* resize_disk: Proxmox locks the machine while the task works; the one look at
\* the task has a result that resize ignores.
ResizeDisk(r) ==
    /\ Calling(r, "disk")
    /\ growing = Nil
    /\ growing' = job[r].asked["disk"]
    /\ Called(r, "disk")
    /\ UNCHANGED <<row, vm, live, sync, drift>>

\* The fields of which a request has changed anything at Proxmox.
Touched(r) ==
    {f \in Fields : /\ Works(r, f)
                    /\ \E c \in DOMAIN Rank : FieldOf(c) = f /\ c \notin job[r].calls}

\* Proxmox refuses the next call, which ends the request with 422 or 500, or the
\* worker dies: the session is rolled back, what Proxmox did stays.
Fail(r) ==
    /\ job[r] # Nil
    /\ drift' = drift \union Touched(r)
    /\ job' = [job EXCEPT ![r] = Nil]
    /\ UNCHANGED <<row, vm, live, growing, sync>>

\* The commit of resize writes the columns it changed from what it had loaded.
Written(r) ==
    [f \in Fields |->
        IF job[r].asked[f] \in {Nil, job[r].loaded[f]} THEN row[f] ELSE job[r].asked[f]]

Commit(r) ==
    /\ job[r] # Nil /\ job[r].calls = {}
    /\ row' = Written(r)
    /\ drift' = (drift \ {f \in Fields : Works(r, f)}) \union job[r].met
    /\ job' = [job EXCEPT ![r] = Nil]
    /\ UNCHANGED <<vm, live, growing, sync>>

\* update_vps_instance writes the row and calls nobody.  Its field cores is
\* ignored, since the column has another name.
UpdateInstance ==
    /\ \E f \in {"memory", "disk"}, n \in Sizes :
        /\ row' = [row EXCEPT ![f] = n]
        /\ drift' = drift \union {f}
        /\ job' = Meet({f})
    /\ UNCHANGED <<vm, live, growing, sync>>

\* The disk task ends, as asked or not.
DiskTaskEnds ==
    /\ growing # Nil
    /\ \/ /\ vm' = [vm EXCEPT !["disk"] = growing]
          /\ UNCHANGED <<job, drift>>
       \/ /\ drift' = drift \union {"disk"}
          /\ job' = Meet({"disk"})
          /\ UNCHANGED vm
    /\ growing' = Nil
    /\ UNCHANGED <<row, live, sync>>

\* The machine restarts with its configuration.  Between the two calls for its
\* memory that undoes the first one.
Reboot ==
    /\ live' = vm["memory"]
    /\ job' = Meet({"memory"})
    /\ UNCHANGED <<row, vm, growing, sync, drift>>

\* sync_status loads the instance, in the loops with all others.
SyncLoad(q) ==
    /\ sync[q] = Nil
    /\ sync' = [sync EXCEPT ![q] =
                  [loaded |-> [f \in Synced |-> row[f]], read |-> Unread,
                   met |-> {f \in Synced : \E r \in Requests : Works(r, f)}]]
    /\ UNCHANGED <<row, vm, live, growing, job, drift>>

\* The sizes Proxmox may report: as configured, or as the machine runs.  New
\* cores count from the next start only; how many it runs with is left open.
Reported(f) == IF f = "memory" THEN {vm[f], live} ELSE Sizes

\* The answer of Proxmox arrives.
SyncRead(q) ==
    /\ sync[q] # Nil
    /\ sync[q].read = Unread
    /\ \E read \in [Synced -> Sizes] :
        /\ \A f \in Synced : read[f] \in Reported(f)
        /\ sync' = [sync EXCEPT ![q].read = read]
    /\ UNCHANGED <<row, vm, live, growing, job, drift>>

\* The fields of which a sync has read another size than it loaded.
Differing(q) == {f \in Synced : sync[q].read[f] \notin {Nil, sync[q].loaded[f]}}

\* The commit of sync_status writes the columns cpu_cores and memory_mb where it
\* differs from what it loaded; or it finds no machine, fails or dies.
SyncEnd(q) ==
    /\ sync[q] # Nil
    /\ \/ /\ row' = [f \in Fields |-> IF f \in Differing(q) THEN sync[q].read[f] ELSE row[f]]
          /\ drift' = drift \union (Differing(q) \intersect (sync[q].met \union {"cores"}))
          /\ job' = Meet(Differing(q))
       \/ UNCHANGED <<row, drift, job>>
    /\ sync' = [sync EXCEPT ![q] = Nil]
    /\ UNCHANGED <<vm, live, growing>>

Next ==
    \/ \E q \in Syncs : SyncLoad(q) \/ SyncRead(q) \/ SyncEnd(q)
    \/ \E r \in Requests :
        Begin(r) \/ SetLive(r) \/ ResizeDisk(r) \/ Fail(r) \/ Commit(r)
            \/ \E f \in Fields : SetConfig(r, f)
    \/ UpdateInstance \/ DiskTaskEnds \/ Reboot

Spec == Init /\ [][Next]_vars

---------------------------------------------------------------------------
\* Row and machine agree on a field when nobody works on it, unless its last
\* change was a resize that failed or died half-way, two resizes at once, a
\* reboot amid the calls for the memory, an edit of the row alone, a disk task
\* that did not do what was asked, or a status sync that a resize of the field
\* overlapped.  A sync that met no resize disturbs nothing but the cores.  Any
\* clean resize of the field brings the two together again, whatever happened to
\* it before: resize calls Proxmox even for a size the row already has.  Memory
\* agrees only if a reboot keeps it.
Agree(f) == row[f] = vm[f] /\ (f = "memory" => live = vm[f])

SpecsAgree ==
    \A f \in Fields \ drift :
        \/ Agree(f)
        \/ \E r \in Requests : Works(r, f)
        \/ f = "disk" /\ growing # Nil

---------------------------------------------------------------------------
(* The inductive invariant *)

\* Row and machine agree on a field, or will when the disk task has ended.
Settled(f) ==
    IF f = "disk" /\ growing # Nil THEN row[f] = growing ELSE Agree(f)

\* A field stays settled until something drifts or a resize changes it.
UntouchedSettled ==
    \A f \in Fields \ drift : (\A r \in Requests : f \notin Touched(r)) => Settled(f)

\* Nobody else works on a field that a resize has met nobody on, and the row
\* says what it said when the resize loaded it.
UnmetAlone ==
    \A r \in Requests, f \in Fields :
        Works(r, f) /\ f \notin job[r].met =>
            /\ \A q \in Requests \ {r} : ~Works(q, f)
            /\ job[r].loaded[f] = row[f]

\* What such a resize has called for is what the machine has, or is getting.
UnmetDone ==
    \A r \in Requests, f \in Fields :
        Works(r, f) /\ f \notin job[r].met =>
            /\ f \notin job[r].calls =>
                  IF f = "disk" /\ growing # Nil
                  THEN growing = job[r].asked[f] ELSE vm[f] = job[r].asked[f]
            /\ f = "memory" /\ "live" \notin job[r].calls => live = job[r].asked[f]

\* A sync that has met no resize of a field has read and loaded what the row
\* says, unless the field has drifted.
UnmetSyncs ==
    \A q \in Syncs, f \in Synced :
        sync[q] # Nil /\ f \notin sync[q].met =>
            /\ \A r \in Requests : ~Works(r, f)
            /\ f \in drift \/ /\ sync[q].loaded[f] = row[f]
                              /\ f # "cores" => sync[q].read[f] \in {Nil, row[f]}

CallsAsked == \A r \in Requests : job[r] # Nil => job[r].calls \subseteq Calls(job[r].asked)

IInv == TypeOK /\ CallsAsked /\ UntouchedSettled /\ UnmetAlone /\ UnmetDone /\ UnmetSyncs
=============================================================================
