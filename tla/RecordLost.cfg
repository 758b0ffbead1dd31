SPECIFICATION FairSpec
CONSTANTS
    s1 = s1
    s2 = s2
    c1 = c1
    p1 = p1
    p2 = p2
    Unset = Unset
    Empty = Empty
    Malformed = Malformed
    Blank = Blank
    Absent = Absent
    Shell = {s1, s2}
    Ssh = {}
    Gui = {s1, s2}
    Key = {1}
    Opaque = {}
    Pass = {p1}
    MaxAttempts = 1
    ConfigFile <- One
    Environs <- PlainShells
    Faults = {}
    MaxFaults = 0
    MaxRekeys = 0
PROPERTIES
    FreshRecordStays
CHECK_DEADLOCK FALSE
