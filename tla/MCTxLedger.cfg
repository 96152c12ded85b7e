CONSTANTS
    a1 = a1
    a2 = a2
    Addr = {a1, a2}
    LastId = 2
    MaxCredit = 1
    Passes = {1}
SPECIFICATION Spec
INVARIANTS
    TypeOK
    NoWindfall
    RowsOfPayments
    PassCredits
    FillComplete
PROPERTY HeightsStay
SYMMETRY Symmetry
