SPECIFICATION AgentSpec
CONSTANTS
    Facts <- MCFacts
    Locales <- MCLocales
    Approved <- MCApproved
    Entries <- MCEntries
    EmbedderConfigured = TRUE
    Limit = 5
    RRF_K = 60
    Ttl = 1
    ReadableFor = 2
    Notes = {done}
    Staff = {ann}
    Requests = {r1}
    References = {c1}
    Messages <- AllMessages
    AnswersTo <- AnyAnswer
    Connected <- Both
    ClassifierPresent = TRUE
    MaxCrashes = 0
INVARIANTS
    DangerReachesAPersonUnread
    ChasedRefundsAreLookedUp
    ReadsOnlyWhatItRecords
    AnswersRestOnEvidence
    FaultsAreNotTheCustomers
    EveryOutcomeIsExplained
CHECK_DEADLOCK FALSE
