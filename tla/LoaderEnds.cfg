SPECIFICATION FairSpec
CONSTANTS
    s1 = s1
    s2 = s2
    c1 = c1
    p1 = p1
    p2 = p2
    Unset = Unset
    Empty = Empty
    Malformed = Malformed
    Blank = Blank
    Absent = Absent
    Shell = {s1, s2}
    Ssh = {}
    Gui = {s1}
    Key = {1}
    Opaque = {1}
    Pass = {p1}
    MaxAttempts = 2
    ConfigFile <- Two
    Environs <- OffShells
    Faults = {"exec", "slow", "agent", "disk"}
    MaxFaults = 2
    MaxRekeys = 0
PROPERTIES
    NoEndlessRetry
    StashIsShortLived
CHECK_DEADLOCK FALSE
