CONSTANTS
    Users = {u1, u2}
    TicketIds <- MCIds
    SeedVersions <- MCSeedVersions
    MaxTime = 1
    WriteFaults = TRUE
    ReadFaults = TRUE
    MaxEvents = 4
SPECIFICATION BoundedSpec
INVARIANTS
    LogExplainsTable
    VersionCountsEvents
PROPERTIES
    ClosedIsFinal
    RowsEvolveLegally
SYMMETRY UserSymmetry
