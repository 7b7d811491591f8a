SPECIFICATION Spec
CONSTANTS
    Styles <- CommonServers
    AnswersInitialized = FALSE
    MaxNotes = 0
    MayDie = FALSE
    Transports = {"local"}
    MaxCalls = 1
CHECK_DEADLOCK FALSE
PROPERTIES ConnectsToAny
