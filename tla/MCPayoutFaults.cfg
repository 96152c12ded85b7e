CONSTANTS
    a1 = a1
    a2 = a2
    Addr = {a1, a2}
    Valid = {a1, a2}
    WellFormed = {a1, a2}
    Minimum <- MCMinimum
    MinimumAmount = 3
    Fee = 1
    Word = 16
    WalletFunds = 8
    MaxCredit = 4
    Credits = {2}
    Faults = {"crash", "db","redisWrite","reply","hasty"}
    txnsPerBatch = 2
    SplitPayments <- MCSplitPayments
SYMMETRY Symmetry
SPECIFICATION Spec
PROPERTY DamageContained
INVARIANTS
    SafeInv
    NoUnpaidDebit
    NoOverdraft
    FlaggedNeverSent
    TallyComplete
