CONSTANTS
    b1 = b1
    b2 = b2
    NoBundle = NoBundle
    NoFile = NoFile
    Torn = Torn
    Bundles <- TwoBundles
    FaultPoints <- BackupFaults
    MayCrash = FALSE
    StagingMoves = FALSE
SPECIFICATION FairSpec
INVARIANTS
    AllOrNothing
