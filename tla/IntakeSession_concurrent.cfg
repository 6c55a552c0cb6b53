SPECIFICATION MCSpec
CONSTANTS
    Requests = {r1, r2}
    DraftKeys = {k1, k2}
    NewInitiative = NewInitiative
    NoDrafts = NoDrafts
    NoResult = NoResult
    LateFailures = TRUE
    MaxCopies = 2
    Keys = {draft}
    NoKey = NoKey
    MaxSessions = 2
    MaxStamps = 3
    MaxMishaps = 2
SYMMETRY Symmetry
VIEW MCView
INVARIANTS
    StatusHasItsData
    CommittedHasResult
    SeenIsUsed
    LeftIsOver
PROPERTIES
    OrphanStaysLocked
