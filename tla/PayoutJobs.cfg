CONSTANTS
    a1 = a1
    a2 = a2
    a3 = a3
    a4 = a4
    Addr = {a1, a2, a3, a4}
    Valid = {a1, a2, a4}
    WellFormed = {a1, a2, a3}
    Minimum <- MCMinimum
    MinimumAmount = 2
    Fee = 1
    Word = 16
    WalletFunds = 8
    MaxCredit = 2
    Credits = {2}
    Faults = {}
    txnsPerBatch = 2
    SplitPayments <- MCSplitPayments
SPECIFICATION JobsSpec
INVARIANTS
    ExcludedUntouched
    NoDoublePay
