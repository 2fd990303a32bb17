SPECIFICATION RankingSpec
CONSTANTS
    Facts <- NoFacts
    Locales <- NoFacts
    Approved <- NoFacts
    Limit = 5
    RRF_K = 60
    LexicalRankings <- WordsFindFive
    SemanticRankings <- MeaningFindsSix
INVARIANTS
    UnreviewedIsUndisputed
