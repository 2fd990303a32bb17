SPECIFICATION DeskSpec
CONSTANTS
    References = {c1}
    Staff = {ann, bob}
    Observed = {ann, bob}
    Notes = {done}
    Calls = {k1}
    ListLimit = 1
    MaxFailures = 1
INVARIANTS
    TakenMeansSomebodyElse
