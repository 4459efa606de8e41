SPECIFICATION Spec
CONSTANTS
    level = level
    nether = nether
    swap1 = swap1
    swap2 = swap2
    NoDir = NoDir
    FirstWorld = FirstWorld
    GrownWorld = GrownWorld
    Dirs <- MCDirs
    Tasks <- MCTasks
    Incoming <- AnyWorld
    Overlaps <- NoOverlap
    InstallFaults = TRUE
    TornWrites <- NoWrite
    MaxFaults = 1
PROPERTY Atomic
