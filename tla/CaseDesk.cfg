SPECIFICATION DeskSpec
CONSTANTS
    References = {c1}
    Staff = {ann, bob}
    Observed = {ann, bob}
    Notes = {refunded, replied}
    Calls = {k1, k2, k3}
    ListLimit = 0
    MaxFailures = 1
SYMMETRY Interchangeable
INVARIANTS
    ClaimedMeansYours
    ResolvedMeansRecorded
    RefusalsAreTrue
PROPERTIES
    QueueSpec
    FirstWriterStands
