SPECIFICATION Spec
CONSTANTS
 None=None
 Draft=Draft
 MaxRev=2
INVARIANTS  ReloadGetsTheirs
