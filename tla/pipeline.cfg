SPECIFICATION Spec
CONSTANTS
    Agents = {"coder", "planner"}
    Registry <- SomeRegistry
    FirstModel <- SomeModels
    Pipelines <- SomePipelines
    Turns <- SomeTurns
    SwitchRefs <- SomeRefs
    MaxRuns = 2
    MaxSwitches = 1
    Clients <- SomeClients
    SkillFiles <- SomeFiles
    FirstEntries <- SomeEntries
    WorkingEntries = 20
    ManySteps = 1
    FewSessions = 2
    MaxCompactions = 1
CHECK_DEADLOCK FALSE
INVARIANTS OneRecordPerStep ModelsStayWithSteps LastFailuresKept InsightsForgottenByRank ActiveSkillsShown TipsFollowRecords
