SPECIFICATION Spec
CONSTANTS
    s1 = s1
    s2 = s2
    c1 = c1
    p1 = p1
    p2 = p2
    Unset = Unset
    Empty = Empty
    Malformed = Malformed
    Blank = Blank
    Absent = Absent
    Shell = {s1, s2}
    Ssh = {c1}
    Gui = {s1, s2}
    Key = {1}
    Opaque = {}
    Pass = {p1, p2}
    MaxAttempts = 1
    ConfigFile <- One
    Environs <- RecordingShells
    Faults = {"lookup", "store", "keyring", "settimeout", "crash"}
    MaxFaults = 1
    MaxRekeys = 1
SYMMETRY Symmetry
INVARIANTS
    TypeOK
    SilentRefill
    GivenUpIsLeftAlone
PROPERTIES
    LoaderStoresAccepted
    NeverExpiringStays
CHECK_DEADLOCK FALSE
