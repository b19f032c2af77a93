\* Two VPS services and a VPN service; two machines that are synced; an
\* administrator beside the daily snapshots of a machine.
CONSTANTS
    Vps = {v1, v2}
    Vpn = {w1}
    Period = 2
    Grace = 1
    Window = 1
    Start = 1
    MaxTime = 4
    Overlap = FALSE
    FullSync = full
    StatusSync = stat
    Wild = {"running", "stopped", "absent"}
    Nil = Nil
    Admins = {adm}
    Manual = {m}
    Keep = 1
    MaxRows = 3
    AutoRun = auto
SPECIFICATION MCSpec
INVARIANTS RenewedOnce SuspendedIsOverdue RetentionHeals
PROPERTIES TermsHandled SyncsConverge CleanUpKeeps
