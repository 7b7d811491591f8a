SPECIFICATION Spec
CONSTANTS
    MaxSessions = 3
    MaxEntries = 3
INVARIANTS TypeOK FiledNotEarlier
PROPERTIES ImplementsMemory
