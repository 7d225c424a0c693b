SPECIFICATION Spec
CONSTANTS
    Menus = {m1, m2, m3, m4}
    Procs = {p1}
    Admins = {p1}
    MaxDepth = 3
    AdminCares = TRUE
    Null = Null
SYMMETRY MenuSymmetry
INVARIANT TypeOK
INVARIANT PathsFollowParents
INVARIANT ReadTreeExact
