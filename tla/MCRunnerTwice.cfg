CONSTANTS
    Runs = {"first", "second"}
    Plans <- MCPlans
    Invocations <- MCInvocations
    Configs <- MCConfigs
    Allowlist <- MCAllowlist
    Costs <- MCCosts
    Overlap = TRUE
    All = All
    Missing = Missing
    Torn = Torn
SPECIFICATION Spec
CHECK_DEADLOCK FALSE
PROPERTIES
    SummaryIsFinal
