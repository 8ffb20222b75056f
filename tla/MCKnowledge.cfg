CONSTANTS
    d1 = d1
    d2 = d2
    e1 = e1
    e2 = e2
    f1 = f1
    f2 = f2
    other = other
    Missing = Missing
    Docs <- TwoDocs
    Editions <- TwoEditions
    Corpus <- TwoFacts
    Others <- OneOther
    SourceOf <- Sources
    Requoted <- FirstFact
    Place <- Places
    Reviewed <- AllOrFirst
    MaxStages = 1
    MaxHands = 1
    MaxStarts = 4
    Earlier <- FirstEditions
SPECIFICATION Spec
CHECK_DEADLOCK FALSE
INVARIANTS
    EvidenceIsGenuine
    StrictReadyIsQuoted
    ReadyWasPublished
    ReadyWasApproved
PROPERTIES
    ScriptsNeverCertify
