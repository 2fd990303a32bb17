SPECIFICATION FairAccountsSpec
CONSTANTS
    Names = {demo}
    DemoName = demo
    Passwords = {pw, demo_pw}
    DemoPassword = demo_pw
    Legacy = {pw}
    MaxId = 2
    Keys = {t1}
    Calls = {k1, k2}
    MaxFailures = 1
INVARIANTS
    OneAccountPerName
    WelcomedMeansYours
    ConflictsAreTrue
    SeededAccountOpens
    UsesAreHonest
PROPERTIES
    NothingIsUndone
    EveryAccountCallEnds
CHECK_DEADLOCK FALSE
