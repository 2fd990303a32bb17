SPECIFICATION DaySpec
CONSTANTS
    Facts <- MCFacts
    Locales <- MCLocales
    Approved <- MCApproved
    Entries <- MCEntries
    Messages <- MCMessages
    AnswersTo <- MCAnswers
    Connected <- Both
    ClassifierPresent = FALSE
    EmbedderConfigured = TRUE
    Limit = 5
    RRF_K = 60
    Ttl = 1
    ReadableFor = 2
    References = {c1, c2}
    Requests = {r1}
    Staff = {ann}
    Notes = {done}
    Calls = {k1}
    ListLimit = 1
    Observed = {}
    MaxCrashes = 1
    MaxFailures = 1
INVARIANTS
    ServiceTypeOK
    OnlyTheirOwnRows
PROPERTIES
    WorksAsTheAgentAssumes
    EveryMessageEnds
    PromisesAreKept
CHECK_DEADLOCK FALSE
