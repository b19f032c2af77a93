------------------------------ MODULE VmLease ------------------------------
(***************************************************************************)
(* What the VPS fleet promises its customers, with the cluster, the table  *)
(* and the requests left out: a service holds at most one VMID, a VMID is  *)
(* held by at most one service, and the machine behind a held VMID is the  *)
(* holder's own from the moment it is claimed until it is released.        *)
(***************************************************************************)
CONSTANTS Services, Vmids, Free

VARIABLES
    lease,   \* the service that holds each VMID, or Free
    serving  \* the service whose machine answers under a held VMID, or Free

vars == <<lease, serving>>

Init ==
    /\ lease = [v \in Vmids |-> Free]
    /\ serving = [v \in Vmids |-> Free]

Claim(s, v) ==
    /\ lease[v] = Free
    /\ \A w \in Vmids : lease[w] # s
    /\ lease' = [lease EXCEPT ![v] = s]
    /\ serving' = [serving EXCEPT ![v] = s]

Release(v) ==
    /\ lease[v] # Free
    /\ lease' = [lease EXCEPT ![v] = Free]
    /\ serving' = [serving EXCEPT ![v] = Free]

\* Every step claims or releases a VMID.
Next ==
    \E v \in Vmids :
        /\ lease'[v] # lease[v]
        /\ Release(v) \/ \E s \in Services : Claim(s, v)

Spec == Init /\ [][Next]_vars
=============================================================================
