SPECIFICATION HungSpec
CONSTANTS
    sockA = sockA
    other = other
    l1 = l1
    l2 = l2
    NoPath = NoPath
    NoLogin = NoLogin
    Pid = {1, 2, 3}
    Path = {sockA, other}
    OurPath = {sockA}
    Login = {l1, l2}
    Fixed <- SharedFixed
    LegacySock = NoPath
    Budget <- EndsBudget
    MaxFaults = 1
INVARIANTS
    NoSpuriousError
    DoNoHarm
    NoCompetitor
PROPERTIES
    LoginTerminates
CHECK_DEADLOCK FALSE
