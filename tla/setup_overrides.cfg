SPECIFICATION Spec
CONSTANTS
    Disks <- SomeDisks
    Environments <- SomeEnvironments
    SwitchAgents = {"coder", "stranger"}
    SwitchRefs <- SomeRefs
CHECK_DEADLOCK FALSE
INVARIANTS OnlyOverrides
