SPECIFICATION RankingSpec
CONSTANTS
    Facts <- NoFacts
    Locales <- NoFacts
    Approved <- NoFacts
    Limit = 3
    RRF_K = 60
    LexicalRankings <- AnyOrder
    SemanticRankings <- AnyOrder
INVARIANTS
    WorseNeverOvertakes
    CorroborationWins
    ReadyCitesTheCommonLeader
    UndisputedUnlessCut
