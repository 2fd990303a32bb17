------------------------------ MODULE Ranking ------------------------------
(***************************************************************************)
(* One language's policies being searched (PolicyIndex in                   *)
(* app/agent/retrieval.py), query after query: the words are ranked at      *)
(* once, the embedder is awaited and may be away, and what both found is    *)
(* fused, cut to a page and rated.                                          *)
(***************************************************************************)
EXTENDS Retrieval

CONSTANTS
    LexicalRankings,    \* the orders BM25 may put the entries of a language in
    SemanticRankings    \* the orders cosine similarity may put them in

ASSUME RankingAssumption == \A r \in LexicalRankings \cup SemanticRankings : IsRanking(r)

VARIABLES
    vectors,    \* whether the corpus was embedded at startup
    stage,      \* how far the query being searched has got
    lexical,    \* what the words found
    semantic,   \* what the meaning found
    hits        \* what the search returned

rankingVars == <<vectors, stage, lexical, semantic, hits>>

RankingInit ==
    /\ vectors = FALSE
    /\ stage = "starting"
    /\ lexical = <<>> /\ semantic = <<>> /\ hits = <<>>

\* warm: an embedder that is away now leaves every later search lexical.
Warm ==
    /\ stage = "starting"
    /\ vectors' \in BOOLEAN
    /\ stage' = "ready"
    /\ UNCHANGED <<lexical, semantic, hits>>

\* _LocaleIndex.search
RankWords(ranking) ==
    /\ stage = "ready"
    /\ lexical' = ranking
    /\ stage' = "awaiting"
    /\ UNCHANGED <<vectors, semantic, hits>>

Return(meaning) ==
    /\ semantic' = meaning
    /\ hits' = Search(lexical, meaning)
    /\ stage' = "returned"
    /\ UNCHANGED <<vectors, lexical>>

\* _semantic_ranking answered ...
RankMeaning(ranking) == stage = "awaiting" /\ vectors /\ Return(ranking)

\* ... or had no vectors, or found the embedder away.
GoOnWords == stage = "awaiting" /\ Return(<<>>)

NextQuery ==
    /\ stage = "returned"
    /\ stage' = "ready"
    /\ lexical' = <<>> /\ semantic' = <<>> /\ hits' = <<>>
    /\ UNCHANGED vectors

RankingNext ==
    \/ Warm
    \/ \E ranking \in LexicalRankings : RankWords(ranking)
    \/ \E ranking \in SemanticRankings : RankMeaning(ranking)
    \/ GoOnWords
    \/ NextQuery

RankingSpec == RankingInit /\ [][RankingNext]_rankingVars

-----------------------------------------------------------------------------
(* Properties                                                               *)

Position(e) == CHOOSE i \in DOMAIN hits : hits[i].entry = e
Returned == {h.entry : h \in ToSet(hits)}
Above(ranking, e, d) ==
    /\ RankIn(ranking, e) # 0
    /\ RankIn(ranking, d) = 0 \/ RankIn(ranking, e) < RankIn(ranking, d)

\* _fuse: "being first means the same thing to both": what both rankers prefer
\* is never listed after what both think worse, nor cut to make room for it.
WorseNeverOvertakes ==
    stage = "returned" =>
        \A e, d \in ToSet(lexical) \cup ToSet(semantic) :
            Above(lexical, e, d) /\ Above(semantic, e, d) /\ d \in Returned =>
                e \in Returned /\ Position(e) < Position(d)

\* "An entry both rankers find outranks one only one finds", wherever in the
\* two rankings it was found.
CorroborationWins ==
    stage = "returned" =>
        \A e \in ToSet(lexical) \cap ToSet(semantic),
           d \in (ToSet(lexical) \cup ToSet(semantic))
                    \ (ToSet(lexical) \cap ToSet(semantic)) :
            d \in Returned => e \in Returned /\ Position(e) < Position(d)

\* relevance_of: "Agreeing means leading with the same entry", and the entry
\* that is then cited, the first of the hits, is the one both led with.
ReadyCitesTheCommonLeader ==
    stage = "returned" /\ RelevanceOf(hits) = READY =>
        /\ lexical # <<>> /\ semantic # <<>>
        /\ hits[1].entry = lexical[1]
        /\ hits[1].entry = semantic[1]

\* relevance_of: "Meaning alone never reaches a customer unreviewed", and a
\* document "neither ranker preferred outright can lead while the two disagree"
\* is what sending it to review is for: an entry cited to a customer unreviewed
\* is the one the words led with, and no meaning was found to lead elsewhere.
\* It does not hold once there is more than a page: the cut can hide the entry
\* meaning led with.
UnreviewedIsUndisputed ==
    stage = "returned" /\ RouteAt(RelevanceOf(hits)) = "direct_response" =>
        /\ lexical # <<>> /\ hits[1].entry = lexical[1]
        /\ semantic = <<>> \/ semantic[1] = lexical[1]

\* It does hold of every search whose findings all fit on the page.
UndisputedUnlessCut ==
    Len(Fuse(lexical, semantic)) <= Limit => UnreviewedIsUndisputed

=============================================================================
