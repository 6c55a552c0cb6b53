SPECIFICATION Spec
CONSTANTS
    Files = {f1, f2}
    Bodies = {b1}
    Features = {e1}
    Requirements = {}
    Initiatives = {}
    Demands = {}
    Sessions = {e2}
    Targets = {{e1}, {e1, e2}}
    Requests = {r1, r2}
    None = None
    Fresh = Fresh
    Gone = Gone
    MaxLinks = 1
SYMMETRY Symmetry
VIEW View
INVARIANTS
    ContentMatches
    
    AloneNeverThrows
    
