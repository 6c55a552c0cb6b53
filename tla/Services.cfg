SPECIFICATION MCSpec
VIEW MCView
CONSTANTS
    Nil = Nil
    Links = {link}
    Titles = {a, b}
    Initiatives = {1, 2, 3, 4}
    Requirements = {1, 2, 3, 4}
    Columns = {1, 2}
    MaxImports = 5
    BoardCards = {1, 2}
    BoardColumns = {1, 2, 3}
    Boards = {1, 2}
    BoardOf <- MCBoardOf
    MappedTo <- MCMappedTo
    MaxDrops = 2
    MaxTries = 3
    MaxRev = 2
    MaxEdits = 3
    MaxCalls = 3
    Proposals = {prop1, prop2}
    Fields = {field1, field2}
    Requests = {r1, r2}
    NoProposal = NoProposal
    NoField = NoField
INVARIANTS
    TypesOK
    PeopleDecide
    OnceMeansOnce
    ChangesAreSeen
    CardMatchesColumn
    AccountableOwns
    OthersKeepStatus
    DropStays
PROPERTIES
    ImportsRestore

