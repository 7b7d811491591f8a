SPECIFICATION Spec
CONSTANTS
    MaxSessions = 1
    MaxEntries = 2
INVARIANTS WrittenIsRemembered
