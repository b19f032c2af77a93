\* One instance: a request against both syncs.
CONSTANTS
    N = 1
    Requests = {r1}
    FullSync = full
    StatusSync = stat
    Powers = {"start", "stop", "suspend"}
    Wild = {"running", "paused", "absent"}
    Nil = Nil
SPECIFICATION Spec
PROPERTIES SettledStaysRight Converges
