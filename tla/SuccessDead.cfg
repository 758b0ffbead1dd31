SPECIFICATION FairSpec
CONSTANTS
    sockA = sockA
    other = other
    l1 = l1
    l2 = l2
    NoPath = NoPath
    NoLogin = NoLogin
    Pid = {1, 2, 3}
    Path = {sockA}
    OurPath = {sockA}
    Login = {l1}
    Fixed <- SharedFixed
    LegacySock = NoPath
    Budget <- LateExitBudget
    MaxFaults = 2
PROPERTIES
    SuccessIsLive
CHECK_DEADLOCK FALSE
