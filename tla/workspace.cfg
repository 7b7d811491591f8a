SPECIFICATION Spec
CONSTANTS
    Procs = {p1, p2, p3}
    Dirs = {d1, d2}
    MayCrash = TRUE
INVARIANTS TypeOK NoDuplicates HealedByOneRun
PROPERTIES ImplementsRegistry
