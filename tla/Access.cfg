\* A superadmin and a user, two requests at a time, bulk requests of two
\* assignments; two tenants, a product with two prices to choose from, and a service.
CONSTANTS
    Users = {a, u}
    Staff = {a}
    Workers = {w1, w2}
    AccessLife = 1
    RefreshLife = 3
    MaxTokens = 2
    MaxBulk = 2
    Asked = {"user"}
    NoRole = NoRole
    Keep = Keep
    Nil = Nil
    Customers = {u}
    Tenants = {t1, t2}
    Products = {p}
    Services = {s}
    Prices = {c1, c2}
    Unused = Unused
    MaxRows = 2
    MaxPick = 1
SPECIFICATION MCSpec
SYMMETRY Symmetric
INVARIANTS LogoutHolds StaleClaimsExpire PricesSound
PROPERTIES ReactivationIsInformed HardDeleteSpares
CONSTRAINT StaffUndisturbed
