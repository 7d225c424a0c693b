SPECIFICATION Spec
CONSTANTS
    r1 = r1
    r2 = r2
    r3 = r3
    Records = {r1, r2, r3}
    Store <- SomeStores
    Procs = {p1}
    Contents = {x, y}
    Names = {n1, n2}
    LateFailures = FALSE
    Null = Null
SYMMETRY ContentSymmetry
INVARIANT TypeOK
INVARIANT RecordsServed
PROPERTY LastReferenceRemovesFile
