SPECIFICATION Spec
CONSTANTS
    c1 = c1
    c2 = c2
    t = t
    m = m
    s1 = s1
    NoOutput = NoOutput
    NoSession = NoSession
    Calls <- MCCalls
    Texts <- MCTexts
    Secrets <- MCTexts
    Messages <- MCMessages
    Sessions <- MCSessions
    SessionOf <- MCSessionOf
    Size <- MCSize
    NameOf <- MCNameOf
    TurnChars <- MCTurnChars
    VerdictTtl = 0
    CacheLimit = 1
    HistoryTurns = 3
    HistoryBytes = 8
    Markup = 1
    NameChars = 1
    BudgetChars = 3
    OutputBytes = 3
    MaxWrites = 1
INVARIANTS
    SecretsStayOutOfThePrompt
CHECK_DEADLOCK FALSE
