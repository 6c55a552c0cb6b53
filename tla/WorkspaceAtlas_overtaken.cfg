SPECIFICATION FairSpec
CONSTANTS
    Objects = {o1}
    Compiles = {c1, c2}
    NoIndex = NoIndex
    Torn = Torn
    MaxRev = 2
PROPERTIES
    CatchesUpOverlapping
