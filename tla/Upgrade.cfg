SPECIFICATION MCSpec
CONSTANTS
    p = p
    f = f
    None = None
    Primary = p
    Followers <- MCFollowers
    Protocol <- MCProtocol
    Settings <- MCSettings
    Disciplines <- MCDisciplines
    MaxJobs = 1
    MaxAsks = 1
    MaxFaults = 1
INVARIANTS
    BinaryWhole
    JobsSpared
    ConsoleServed
PROPERTIES
    Announced
    Settles
    Rescued
CHECK_DEADLOCK FALSE
