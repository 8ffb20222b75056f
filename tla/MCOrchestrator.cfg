CONSTANTS
    u1 = u1
    u2 = u2
    Users = {u1, u2}
    Persona = u1
    NoUser = NoUser
    NoTicket = NoTicket
    InitialTicket = InitialTicket
    LatestTicket = LatestTicket
    UnknownRef = UnknownRef
    TicketIds <- MCIds
    SeedVersions <- MCSeedVersions
    Fixtures <- MCFixtures
    Proposals <- MCProposals
    MaxTime = 1
    MaxQueries = 3
    MaxTurns = 2
    WriteFaults = TRUE
    ReadFaults = TRUE
    MayCrash = TRUE
SPECIFICATION FairSpec
CHECK_DEADLOCK FALSE
INVARIANTS
    TypeOK
    TracesAccountUpToReadBack
    AllowedIsExecutable
    OneTracePerQuery
    WindowIsRecentTurns
PROPERTIES
    QueriesAnswered
    DeskSpec
