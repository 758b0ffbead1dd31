SPECIFICATION Spec
CONSTANTS
    sockA = sockA
    other = other
    l1 = l1
    l2 = l2
    NoPath = NoPath
    NoLogin = NoLogin
    Pid = {1, 2, 3, 4}
    Path = {sockA, other}
    OurPath = {sockA}
    Login = {l1, l2}
    Fixed <- SharedFixed
    LegacySock = NoPath
    Budget <- OrderlyBudget
    MaxFaults = 1
SYMMETRY LoginSymmetry
INVARIANTS
    NoSpuriousError
    OneOfOurs
    NoShellStranded
PROPERTIES
    SuccessIsLive
    ImplementsService
CHECK_DEADLOCK FALSE
