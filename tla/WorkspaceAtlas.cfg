SPECIFICATION FairSpec
CONSTANTS
    Objects = {o1, o2}
    Compiles = {c1, c2}
    NoIndex = NoIndex
    Torn = Torn
    MaxRev = 2
INVARIANTS
    NoChangeLost
    QuietIsFreshOrFailed
    IndexHasShards
    ShardsMatchIndex
PROPERTIES
    CatchesUp
