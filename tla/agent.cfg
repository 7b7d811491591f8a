SPECIFICATION FairSpec
CONSTANTS
    MaxTokens = 100
    CallLen = 30
    ResultLen = 90
    SystemLen = 80
    ConfigSteps = 3
    MaxCalls = 2
    PromptLens <- SomePrompts
    TextLens <- SomeTexts
    MaxStepsArgs <- DefaultAndOwnSteps
CHECK_DEADLOCK FALSE
INVARIANTS TypeOK CallsAnswered ConversationIsRecent RequestThreaded StopsForAReason BooksAgree
PROPERTIES ImplementsProtocol OverOrWaiting
