SPECIFICATION Spec
CONSTANTS
    Procs = {p1, p2, p3}
    Databases = {"d1"}
    Migrations = 2
    Crashes = FALSE
SYMMETRY ProcSymmetry
INVARIANT TypeOK
INVARIANT CreatedTenantsStay
INVARIANT AllOrNothing
INVARIANT TimeoutStaysOut
