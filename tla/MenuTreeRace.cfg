SPECIFICATION Spec
CONSTANTS
    Menus = {m1, m2, m3}
    Procs = {p1, p2}
    Admins = {}
    MaxDepth = 3
    AdminCares = TRUE
    Null = Null
SYMMETRY MenuSymmetry
INVARIANT NoMenuIsLost
