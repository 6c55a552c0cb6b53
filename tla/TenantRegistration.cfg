SPECIFICATION Spec
CONSTANTS
    Slugs = {s1, s2}
    Tenants = {t1, t2}
    Users = {u1, u2}
    Handlers = {h1, h2}
    NoSlug = NoSlug
    NoTenant = NoTenant
    NoUser = NoUser
    MaxSteps = 4
SYMMETRY Symmetry
INVARIANTS
    LinkIsSound
    StillApprovable
    AccessAnswered
PROPERTIES
    DecisionStands
    ApprovalIsComplete
