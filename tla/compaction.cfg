SPECIFICATION TalkSpec
CONSTANTS
    MaxTokens = 800
    CallLen = 30
    ResultLen = 90
    PromptLen = 240
    LeadLens = {0, 34}
    TurnTexts = {8, 800, 3300}
    TurnCalls = 2
    MaxLen = 11
    MaxRounds = 5
CHECK_DEADLOCK FALSE
INVARIANT TaskSurvivesFourCompactions TwoRoundsSettle
