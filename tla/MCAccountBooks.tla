---------------------------- MODULE MCAccountBooks ----------------------------
EXTENDS AccountBooks

CONSTANTS a1, c1, c2, m1, m2, b1, q1, l1

\* A budget whose position moves between two categories, one of which may be
\* scoped to the account.
BudgetRows ==
    (a1 :> "account") @@ (c1 :> "category") @@ (c2 :> "category") @@ (m1 :> "movement")
      @@ (b1 :> "budget") @@ (q1 :> "position") @@ (l1 :> "line")

\* Concurrent movements of one account.
MovementRows == (a1 :> "account") @@ (m1 :> "movement") @@ (m2 :> "movement")

\* A debit and a credit.
SomeAmounts == {-1, 2}

CategorySymmetry == Permutations({c1, c2})

================================================================================
