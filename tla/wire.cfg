SPECIFICATION StreamSpec
CONSTANTS
    Providers = {"openai", "anthropic"}
    MaxReplies = 3
    MaxBlocks = 2
CHECK_DEADLOCK FALSE
INVARIANTS ShowsWhatHappened AnswersInOrder ChunksInOrder WholeReplyArrives
