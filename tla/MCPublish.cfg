CONSTANTS
    b1 = b1
    b2 = b2
    NoBundle = NoBundle
    NoFile = NoFile
    Torn = Torn
    Bundles <- TwoBundles
    FaultPoints <- CoveredFaults
    MayCrash = TRUE
    StagingMoves = TRUE
SPECIFICATION FairSpec
INVARIANTS
    AllOrNothing
    PreviousSurvives
PROPERTIES
    AtomicSpec
    PublishEnds
