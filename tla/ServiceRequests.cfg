CONSTANTS
    NoUser = NoUser
    u1 = u1
    u2 = u2
    b1 = b1
    b2 = b2
    b3 = b3
    p1 = p1
    p2 = p2
    p3 = p3
    c1 = c1
    c2 = c2
    Users = {u1, u2}
    Keys = {k1}
    Workers = {w1, w2}
    Budgets = {b1, b2, b3}
    KeyScopes <- MCKeyScopes
    InitialDb <- MCInitialDb
    Ops <- MCOps
    PrimaryKey <- MCPrimaryKey
    Lifetime = 2
    Limits = {1, 2}
    MaxClock = 2
    MaxTokens = 1
    MaxChanges = 2

SYMMETRY Symmetry

SPECIFICATION Spec

INVARIANTS
    HiddenLooksUnknown
    PagesPartitionReach
    AnnouncedDefaultsHold
PROPERTIES
    UpdatesStayInReach
    RightsAreRecent

CHECK_DEADLOCK FALSE
