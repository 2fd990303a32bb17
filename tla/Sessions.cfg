SPECIFICATION OrderedSpec
CONSTANTS
    Tokens = {t1, t2, t3}
    Users = {ann, bob}
    Calls = {k1, k2}
    MaxFailures = 1
INVARIANTS
    OneLiveTokenPerLogin
    SuccessorsContinue
    LoggedOutMeansOver
    HandedOverIsOnFile
PROPERTIES
    ChainSpec
    EveryCallEnds
CHECK_DEADLOCK FALSE
