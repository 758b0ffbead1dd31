SPECIFICATION Spec
CONSTANTS
    sockA = sockA
    other = other
    l1 = l1
    l2 = l2
    NoPath = NoPath
    NoLogin = NoLogin
    Pid = {1, 2, 3, 4}
    Path = {sockA, other}
    OurPath = {sockA}
    Login = {l1, l2}
    Fixed <- SharedFixed
    LegacySock = NoPath
    Budget <- HarmBudget
    MaxFaults = 1
SYMMETRY LoginSymmetry
INVARIANTS
    TypeOK
    DoNoHarm
    NoCompetitor
CHECK_DEADLOCK FALSE
