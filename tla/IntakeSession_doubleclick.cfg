SPECIFICATION Spec
CONSTANTS
    Requests = {r1, r2}
    DraftKeys = {k1}
    NewInitiative = NewInitiative
    NoDrafts = NoDrafts
    NoResult = NoResult
    LateFailures = FALSE
    MaxCopies = 2
SYMMETRY Symmetry
INVARIANTS
    NoDupes
