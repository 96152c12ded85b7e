CONSTANTS
    a1 = a1
    a2 = a2
    a3 = a3
    Addr = {a1, a2, a3}
    Valid = {a1, a2, a3}
    WellFormed = {a1, a2, a3}
    Minimum <- MCMinimum
    MinimumAmount = 3
    Fee = 1
    Word = 16
    WalletFunds = 8
    MaxCredit = 4
    Credits = {2}
    Faults = {}
    txnsPerBatch = 2
    SplitPayments <- MCSplitPayments
SYMMETRY Symmetry
SPECIFICATION Spec
INVARIANTS
    TypeOK
    HonestInv
    NoDoublePay
    UnderflowIsAlone
PROPERTY BooksKept
