SPECIFICATION Spec
CONSTANTS
    Users = {u1}
    Procs = {p1, p2}
    Tokens = {t1, t2, t3}
    Sessions = {s1}
    RefreshTTL = 1
    MaxTime = 1
    Null = Null
    NoProc = NoProc
    NoToken = NoToken
    NoUser = NoUser
SYMMETRY Symmetry
INVARIANT TypeOK
INVARIANT OneLiveTokenPerSession
INVARIANT SingleUse
PROPERTY EvidenceKept
PROPERTY RevocationReachesWhatItSaw
PROPERTY ImplementsChains
