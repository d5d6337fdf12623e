SPECIFICATION Spec
CONSTANTS
    c1 = c1
    c2 = c2
    t = t
    own = own
    NoOutput = NoOutput
    Calls <- MCCalls
    Texts <- MCTexts
    OwnMessages <- MCOwnMessages
    InitialModes <- MCInitialModes
    VerdictTtl = 0
    CacheLimit = 1
    MaxClock = 1
    MaxWrites = 1
    MaxChecks <- MCMaxChecks
    Outputs <- MCOutputs
INVARIANT FailOpenLeavesItToTheRules
CHECK_DEADLOCK FALSE
