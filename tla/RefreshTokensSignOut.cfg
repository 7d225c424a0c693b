SPECIFICATION Spec
CONSTANTS
    Users = {u1}
    Procs = {p1, p2}
    Tokens = {t1, t2}
    Sessions = {s1}
    RefreshTTL = 2
    MaxTime = 2
    Null = Null
    NoProc = NoProc
    NoToken = NoToken
    NoUser = NoUser
SYMMETRY Symmetry
INVARIANT SignOutEndsSession
