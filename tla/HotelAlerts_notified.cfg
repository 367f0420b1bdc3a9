SPECIFICATION Spec
CONSTANTS
    Scans = {s1}
    Phones = {p}
    Attempts = 2
    None = None
INVARIANT NotifiedIsSent
CHECK_DEADLOCK FALSE
