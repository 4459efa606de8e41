SPECIFICATION FairSpec
CONSTANTS
    s1 = s1
    s2 = s2
    s3 = s3
    op1 = op1
    op2 = op2
    None = None
    Socks <- MCTwoSocks
    Calls <- MCCalls
    MaxFaults = 2
    PrimaryRestarts = 1
    FollowerRestarts = 1
INVARIANTS
    OneWayBack
    OwnAnswerInOneLife
PROPERTIES
    LinkLostWithItsSocket
    CallsSettle
    LinkStabilizes
CHECK_DEADLOCK FALSE
