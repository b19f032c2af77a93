CONSTANTS
    Services = {s1, s2}
    Instances = {i1, i2, i3}
    Vmids = {100, 101}
    Nodes = {n1}
    Requests = {r1, r2}
    NoVm = NoVm
    NoRow = NoRow
    Nil = Nil
SPECIFICATION Spec
PROPERTY DestroysOwnVm
