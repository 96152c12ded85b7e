CONSTANTS
    WellFormed <- MCWellFormed
    Address <- MCAddress
    Malformed = "bad"
    tier2SmallThreshold = 2
    tier3MediumThreshold = 3
    tier1IndividualThreshold = 5
    batchAmountCap = 5
    MaxAmount = 7
    MaxPayments = 4
    MaxBatch = 3
SPECIFICATION Spec
INVARIANTS
    NothingLost
    SentInPolicyOrder
    WithinLimits
    ClosedOnlyWhenFull
CHECK_DEADLOCK FALSE
