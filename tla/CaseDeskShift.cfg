SPECIFICATION ShiftSpec
CONSTANTS
    References = {c1, c2}
    Staff = {ann, bob}
    Observed = {}
    Notes = {done}
    Calls = {k1}
    ListLimit = 1
    MaxFailures = 1
PROPERTIES
    EveryCaseIsFinished
