SPECIFICATION Spec
CONSTANTS
    Tokens = {t1, t2, t3}
    Families = {f1, f2}
    Users = {u1}
    Clients = {c1, c2}
    Requests = {r1, r2}
    NoToken = NoToken
    NoRow = NoRow
    NoClient = NoClient
    NoRequest = NoRequest
    Grace = 1
    RefreshTTL = 1
    MaxTime = 2
SYMMETRY Symmetry
INVARIANTS
    OneUnusedPerFamily
    GrantStaysWithHolder
PROPERTIES
    ImplementsTokenFamilies
