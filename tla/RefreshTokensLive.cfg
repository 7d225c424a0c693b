SPECIFICATION FairSpec
CONSTANTS
    Users = {u1}
    Procs = {p1, p2}
    Tokens = {t1, t2}
    Sessions = {s1, s2}
    RefreshTTL = 1
    MaxTime = 0
    Null = Null
    NoProc = NoProc
    NoToken = NoToken
    NoUser = NoUser
PROPERTY RequestsEnd
