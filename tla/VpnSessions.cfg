\* An account whose sessions two runs sync, and a server; two users in two
\* inbounds and two workers; two requests and a task on a profile's record.
CONSTANTS
    Accounts = {a1}
    Runs = {r1, r2}
    Ids = {i1, i2, i3}
    Users = {u1, u2}
    Lists = {{}, {u1, u2}}
    Main = Main
    Extra = Extra
    Workers = {w1, w2}
    NoList = NoList
    Missing = Missing
    Torn = Torn
    Requests = {q1, q2}
    DnsTasks = {t}
    Contents = {c1, c2}
    MaxProfiles = 2
    MaxRecords = 1
    Nil = Nil
SPECIFICATION MCSpec
SYMMETRY Symmetric
INVARIANTS OneSessionPerRun ToldHolds SyncedIsCurrent RecordsBelong
PROPERTIES SessionsEnd ServersRecover
