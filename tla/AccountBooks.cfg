SPECIFICATION Spec
CONSTANTS
    a1 = a1
    c1 = c1
    c2 = c2
    m1 = m1
    m2 = m2
    b1 = b1
    q1 = q1
    l1 = l1
    Null = Null
    Forward <- AccountForward
    Related <- AccountRelated
    OnDelete <- AccountOnDelete
    DependsOn <- AccountDependsOn
    Model <- BudgetRows
    Procs = {p1}
    Amounts <- SomeAmounts
    Names = {"n1", "n2"}
SYMMETRY CategorySymmetry
INVARIANT TypeOK
INVARIANT InSync
PROPERTY FlushGoesDeeper
