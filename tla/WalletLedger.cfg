CONSTANTS
    Users = {u1}
    Sessions = {s1, s2}
    Amounts = {1}
    Bound = 2
    Serial = {}
    Nil = Nil
SPECIFICATION Spec
INVARIANT LedgerMatches
