\* One request, a toggle and a starting worker of the released version; no
\* deliveries.
CONSTANTS
    Requests = {q1}
    Admins = {a1}
    Workers = {w1}
    Defaults <- Released
    Events = {}
    Supported = {}
    Deliveries = {d1}
    MaxCrashes = 0
    Nil = Nil
SPECIFICATION MCSpec
PROPERTY TogglesFlags
CHECK_DEADLOCK FALSE
