SPECIFICATION BackupsSpec
CONSTANTS
    t1 = t1
    t2 = t2
    Tasks <- MCTasks
    MaxBackups = 2
    Keeps <- MCKeeps
    FirstKeep = 2
    IndexRaces = FALSE
    MaxFaults = 1
INVARIANT ThawedWhateverHappens
