SPECIFICATION Spec
CONSTANTS
    Shell = {s1, s2, s3}
    Absent = Absent
    NoToken = NoToken
    Failures = 1
INVARIANTS
    EveryShellConverges
CHECK_DEADLOCK FALSE
