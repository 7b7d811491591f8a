SPECIFICATION WizardSpec
CONSTANTS
    Disks <- AllDisks
    Environments <- SomeEnvironments
    SwitchAgents = {"coder", "stranger"}
    SwitchRefs <- SomeRefs
    Items = 3
    Scripts <- SomeScripts
    KnownProviders <- Three
    MandatoryAgents <- Two
    CustomNames = {"openai", "litellm"}
    CustomModels <- SomeModels
    Discoveries <- SomeLists
    WizardDisks <- SomeWizardDisks
    MaxDialogues = 1
CHECK_DEADLOCK FALSE
INVARIANTS RoutedAsNamed NobodyLeftOut WorkspaceWins KeysActInOrder WholeKeysCount KeepsTheRest NextStartUsesIt
