SPECIFICATION MCSpec
CONSTANTS
    v1 = v1
    v2 = v2
    Viewers <- MCViewers
    Disciplines <- MCDisciplines
    MaxLines = 1
    MaxLinks = 2
    MaxRestarts = 1
    Count = 3
    Trigger <- MCTrigger
    MaxRuns <- MCMaxRuns
    Late = 1
    Naming <- MCSecond
    Careless = FALSE
    Overlap = FALSE
    MaxTime = 3
    MaxCrashes = 1
INVARIANTS
    EndsOnce
    OwnLines
    RunsBounded
    RunsCounted
PROPERTIES
    TailsStop
    DueIsSettled
CHECK_DEADLOCK FALSE
