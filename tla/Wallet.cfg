\* Requests that may overlap on the wallet of u2 and not on that of u1.
CONSTANTS
    Users = {u1, u2}
    Sessions = {s1, s2}
    Amounts = {0, 1, 2}
    Bound = 4
    Serial = {u1}
    Nil = Nil
SPECIFICATION Spec
INVARIANTS NoOverdraft SerialLedgerMatches IInv
PROPERTY ImplementsAccount
