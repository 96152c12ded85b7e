CONSTANTS
    a1 = a1
    a2 = a2
    Addr = {a1, a2}
    Valid = {a1, a2}
    WellFormed = {a1, a2}
    Minimum <- MCMinimum
    MinimumAmount = 2
    Fee = 1
    Word = 16
    WalletFunds = 8
    MaxCredit = 4
    Credits = {2}
    Faults = {}
    txnsPerBatch = 2
    SplitPayments <- MCSplitPayments
SPECIFICATION FairSpec
PROPERTIES
    RunTerminates
    HaltQuiesces
    PaidIsBooked
    EventuallySettled
