SPECIFICATION Spec
CONSTANTS
    sockA = sockA
    other = other
    l1 = l1
    l2 = l2
    NoPath = NoPath
    NoLogin = NoLogin
    Pid = {1, 2}
    Path = {sockA, other}
    OurPath = {sockA}
    Login = {l1}
    Fixed <- SharedFixed
    LegacySock = other
    Budget <- NoFaults
    MaxFaults = 2
INVARIANTS
    LegacyAgentSpared
CHECK_DEADLOCK FALSE
