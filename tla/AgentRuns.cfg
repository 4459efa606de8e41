SPECIFICATION FairSpec
CONSTANTS
    a = a
    b = b
    m1 = m1
    m2 = m2
    m3 = m3
    None = None
    Accounts <- MCAccounts
    Messages <- MCMessages
    Sender <- MCSender
    Kinds <- MCKinds
    Disciplines <- MCDisciplines
    MaxRuns = 3
INVARIANTS
    SessionIsOwned
    OwnAuthority
PROPERTIES
    OwnYes
    NothingForgotten
CHECK_DEADLOCK FALSE
