SPECIFICATION SessionSpec
CONSTANTS
    Shell = {s1, s2}
    Absent = Absent
    NoToken = NoToken
    Failures = 1
    Dir = {run, cache, other}
    Named = {run}
    Machines <- Usual
    run = run
    cache = cache
    other = other
    NoDir = NoDir
    RunUser = run
    HomeCache = cache
    NoSock = NoSock
    AtOnce = 2
    MaxEvents = 0
INVARIANTS
    EveryShellEnsures
CHECK_DEADLOCK FALSE
