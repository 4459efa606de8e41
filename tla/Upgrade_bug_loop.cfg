SPECIFICATION FairSpec
CONSTANTS
    p = p
    f = f
    None = None
    Primary = p
    Followers <- MCFollowers
    Protocol <- MCProtocol
    Settings <- DefaultSetting
    Disciplines <- Apart
    MaxJobs = 0
    MaxAsks = 0
    MaxFaults = 0
PROPERTY
    StaysWhereItIs
CHECK_DEADLOCK FALSE
