--------------------------- MODULE MCServiceTerms ---------------------------
(***************************************************************************)
(* Small instances for TLC of what Celery's beat starts: the tasks of      *)
(* ServiceTerms and, beside them, the loops of the two status syncs over   *)
(* two machines (VpsPower without requests, which has an instance with     *)
(* requests of its own) and the daily snapshots of one (VpsSnapshots).     *)
(*                                                                         *)
(* The three share no state, so what holds of each alone holds of the      *)
(* whole: "part" names the one that moves, while the others keep an        *)
(* initial state.                                                          *)
(***************************************************************************)
EXTENDS ServiceTerms

CONSTANTS
    FullSync, StatusSync, Wild, Nil,
    Admins, Manual, Keep, MaxRows, AutoRun

VARIABLES
    part,
    actual, pending, power_status, session, calm,
    images, snapshots, named, clock, worker, lost, fresh, taken

Power == INSTANCE VpsPower
    WITH N <- 2, Requests <- {}, Powers <- {}, status <- power_status, job <- session

Snapshots == INSTANCE VpsSnapshots WITH vm <- images, rows <- snapshots, job <- worker

ASSUME SnapshotsAssumption == Snapshots!SnapshotsAssumption

powerVars == <<actual, pending, power_status, session, calm>>
snapshotVars == <<images, snapshots, named, clock, worker, lost, fresh, taken>>

MCInit ==
    /\ part \in {"terms", "syncs", "snapshots"}
    /\ Init /\ Power!Init /\ Snapshots!Init
    /\ part # "terms" => used = [v \in Vps |-> FALSE]

MCNext ==
    \/ part = "terms" /\ Next /\ UNCHANGED <<part, powerVars, snapshotVars>>
    \/ part = "syncs" /\ Power!Next /\ UNCHANGED <<part, vars, snapshotVars>>
    \/ part = "snapshots" /\ Snapshots!Next /\ UNCHANGED <<part, vars, powerVars>>

MCSpec ==
    /\ MCInit /\ [][MCNext]_<<part, vars, powerVars, snapshotVars>>
    /\ \/ part = "terms" /\ Fairness
       \/ part = "syncs" /\ Power!Fairness
       \/ part = "snapshots"

\* An expired VPS does not stay active and expired.
TermsHandled == part = "terms" => ExpiryIsHandled

\* Once guests and operators leave the machines alone, every power_status comes
\* to say what its machine does, though one sync gives up at a missing machine.
SyncsConverge == part = "syncs" => Power!Converges

\* A clean-up that ends well brings the automatic snapshots to their limit.
RetentionHeals == Snapshots!RetentionHeals

\* A clean-up leaves as many snapshots as its limit.
CleanUpKeeps == Snapshots!CleanUpKeeps
=============================================================================
