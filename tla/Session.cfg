SPECIFICATION SessionSpec
CONSTANTS
    Shell = {s1, s2, s3}
    Absent = Absent
    NoToken = NoToken
    Failures = 1
    Dir = {run, cache, other}
    Named = {run, other}
    Machines <- AllMachines
    run = run
    cache = cache
    other = other
    NoDir = NoDir
    RunUser = run
    HomeCache = cache
    NoSock = NoSock
    AtOnce = 2
    MaxEvents = 1
SYMMETRY Symmetry
INVARIANTS
    SessionTypeOK
    SettledShellsAgree
    PinnedTogether
    PinnedStaysServed
    OneAgent
    GiveupBesideSocket
CHECK_DEADLOCK FALSE
