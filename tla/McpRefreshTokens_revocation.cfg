SPECIFICATION Spec
CONSTANTS
    Tokens = {t1, t2, t3}
    Families = {f1}
    Users = {u1}
    Clients = {c1}
    Requests = {r1, r2}
    NoToken = NoToken
    NoRow = NoRow
    NoClient = NoClient
    NoRequest = NoRequest
    Grace = 1
    RefreshTTL = 1
    MaxTime = 2
PROPERTIES
    RevocationEmptiesFamily
