CONSTANTS
    Events = {e1}
    Supported = {e1}
    Requests = {r1, r2}
    MaxCrashes = 1
    Nil = Nil
SPECIFICATION Spec
PROPERTY RetriesHappen
CHECK_DEADLOCK FALSE
