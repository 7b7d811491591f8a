SPECIFICATION Spec
CONSTANTS
    Providers = {"openai"}
    MaxReplies = 2
    MaxBlocks = 2
CHECK_DEADLOCK FALSE
INVARIANTS CallsShown
