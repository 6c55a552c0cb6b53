SPECIFICATION MCSpec
CONSTANTS
    Requests = {r1}
    DraftKeys = {k1, k2, k3}
    NewInitiative = NewInitiative
    NoDrafts = NoDrafts
    NoResult = NoResult
    LateFailures = FALSE
    MaxCopies = 2
    Calls = {c1, c2}
    Tokens = {t1, t2}
    Families = {f1}
    Clients = {client}
    NoToken = NoToken
    NoRow = NoRow
    NoClient = NoClient
    NoRequest = NoRequest
INVARIANTS
    TypesOK
    DefaultHolds
    NoDupes
    CommittedMatchesDrafts
PROPERTIES
    CallsEnd
    ImplementsCommitOnce
    CommitLockReleased
    ViewCatchesUp
    NoneLost
