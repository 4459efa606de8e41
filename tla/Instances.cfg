SPECIFICATION MCSpec
CONSTANTS
    o1 = o1
    o2 = o2
    Ops <- MCOps
    Disciplines <- MCDisciplines
    CrashMax = 3
    MaxSessions = 2
    MaxPids = 4
    MaxProbes = 2
    t1 = t1
    t2 = t2
    Tasks <- MCTasks
    MaxBackups = 3
    Keeps <- MCKeeps
    FirstKeep = 2
    IndexRaces = FALSE
    MaxFaults = 1
    a = a
    b = b
    c = c
    r1 = r1
    r2 = r2
    r3 = r3
    r4 = r4
    r5 = r5
    r6 = r6
    r7 = r7
    NoPort = 0
    Names <- MCNames
    Requests <- MCRequests
    What <- MCWhat
    Pool <- MCPool
    HeldBack <- MCHeldBack
    PortDisciplines <- MCPortDisciplines
SYMMETRY Symmetry
INVARIANTS
    OneServer
    StopIsFinal
    IndexTrue
    TornIsWarned
    ThawedAfterwards
    HandedApart
    ServersApart
PROPERTIES
    ToldFirst
    MarkHonest
    RetentionSpares
CHECK_DEADLOCK FALSE
