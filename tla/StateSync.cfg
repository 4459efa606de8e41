SPECIFICATION FairSyncSpec
CONSTANTS
    p1 = p1
    q1 = q1
    FileCount = 2
    PrimaryEdits <- MCPrimaryEdits
    FollowerEdits <- MCFollowerEdits
    Disciplines <- MCDisciplines
    MaxLinks = 2
PROPERTIES
    EditsStay
    NeverBackwards
    SavesArrive
    Converges
CHECK_DEADLOCK FALSE
