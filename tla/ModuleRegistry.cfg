\* Two requests, a toggle and a starting worker, two versions of the module
\* deployed; three deliveries at once, two of them of the same event or more.
CONSTANTS
    Requests = {q1, q2}
    Admins = {a1}
    Workers = {w1}
    Defaults <- TwoVersions
    Events = {e1, e2}
    Supported = {e1}
    Deliveries = {r1, r2, r3}
    MaxCrashes = 2
    Nil = Nil
SPECIFICATION MCSpec
INVARIANTS StaleOnlyInToggle IInv AtMostOnce AnswersAreTrue
PROPERTIES RestartKeepsEnabled KeysConverge EventuallyAnswered
CHECK_DEADLOCK FALSE
