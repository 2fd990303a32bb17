SPECIFICATION AgentSpec
CONSTANTS
    Facts <- MCFacts
    Locales <- MCLocales
    Approved <- MCApproved
    Entries <- MCEntries
    EmbedderConfigured = TRUE
    Limit = 5
    RRF_K = 60
    Ttl = 1
    ReadableFor = 2
    Notes = {done}
    Staff = {ann}
    Requests = {r1, r2}
    References = {c1, c2, c3}
    Messages <- FewMessages
    AnswersTo <- FewAnswers
    Connected <- OnlyText
    ClassifierPresent = FALSE
    MaxCrashes = 1
SYMMETRY Interchangeable
INVARIANTS
    RecordedBeforeTold
    ToldOfAColleagueMeansQueued
PROPERTIES
    KeepsTheBook
CHECK_DEADLOCK FALSE
