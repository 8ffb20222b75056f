CONSTANTS
    helps = helps
    moved = moved
    elsewhere = elsewhere
    Urls <- MCUrls
    Allowed = {helps, moved}
    Bodies <- MCBodies
    Cuts <- MCCuts
    MaxRetries = 2
    MaxRedirects = 1
    Missing = Missing
    Unreadable = Unreadable
    Rows <- MCRows
    MaxStages = 2
    Site <- MCSite
SPECIFICATION FairSpec
CHECK_DEADLOCK FALSE
INVARIANTS
    FetchIsFaithful
    CacheHitIsGenuine
    NoForeignFaq
    UnitsAreExact
PROPERTIES
    FetchEnds
