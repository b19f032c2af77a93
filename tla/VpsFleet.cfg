\* Two concurrent requests on two nodes; two resizes of a machine.
CONSTANTS
    Services = {s1, s2}
    Instances = {i1, i2}
    Vmids = {100, 101}
    Nodes = {n1, n2}
    Requests = {r1, r2}
    NoVm = NoVm
    NoRow = NoRow
    Nil = Nil
    Resizes = {r1, r2}
    Syncs = {y1}
    Sizes = {s1, s2}
    Fields = {"memory", "disk"}
SPECIFICATION MCSpec
SYMMETRY Symmetric
INVARIANTS RowsBacked PendingClaims IInv SpecsAgree
PROPERTIES DestroysAsked ImplementsLease
CONSTRAINTS OneAccident TwoAtOnce
