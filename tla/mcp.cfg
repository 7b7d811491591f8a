SPECIFICATION Spec
CONSTANTS
    Styles <- AllServers
    AnswersInitialized = FALSE
    MaxNotes = 2
    MayDie = TRUE
    Transports = {"local", "remote"}
    MaxCalls = 4
CHECK_DEADLOCK FALSE
INVARIANTS TypeOK AnswersLag NothingLeftOver
PROPERTIES AlwaysReturns
