CONSTANTS
    Runs = {"first", "second"}
    Plans <- MCPlans
    Invocations <- MCInvocations
    Configs <- MCConfigs
    Allowlist <- MCAllowlist
    Costs <- MCCosts
    Overlap = FALSE
    All = All
    Missing = Missing
    Torn = Torn
SPECIFICATION Spec
CHECK_DEADLOCK FALSE
INVARIANTS
    TypeOK
    TracesFollowThePlan
    OneLedgerPerRun
    StoresAreIsolated
    PaidRunsAreGated
PROPERTIES
    SummaryIsFinal
