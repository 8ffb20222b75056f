CONSTANTS
    HardCap = 7
    Estimates <- SmallEstimates
    Usages <- MixedUsages
    Causes <- MixedCauses
    MaxAttempts = 3
    MaxQueries = 3
SPECIFICATION FairSpec
CHECK_DEADLOCK FALSE
INVARIANTS
    TypeOK
    SpentWithinCap
    ReservationsSettled
    
PROPERTIES
    RetriesReadTransient
    QueriesEnd
