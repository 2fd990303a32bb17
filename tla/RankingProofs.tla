---------------------------- MODULE RankingProofs ----------------------------
(***************************************************************************)
(* What a search over one language's policies always returns, whatever the  *)
(* rankings, however long they are and however often the embedder is away.  *)
(***************************************************************************)
EXTENDS Ranking, RetrievalProofs

-----------------------------------------------------------------------------
(* The inductive invariant: what was returned is what fusing the two        *)
(* rankings that are still at hand makes of them.                           *)

Fused ==
    /\ stage \in {"starting", "ready", "awaiting", "returned"}
    /\ stage = "awaiting" => lexical \in LexicalRankings
    /\ stage = "returned" =>
           /\ lexical \in LexicalRankings
           /\ semantic \in SemanticRankings \cup {<<>>}
           /\ hits = Search(lexical, semantic)

LEMMA FusedInitially == RankingInit => Fused
BY DEF RankingInit, Fused

LEMMA ReturnKeepsFused ==
    ASSUME Fused, stage = "awaiting",
           NEW meaning \in SemanticRankings \cup {<<>>}, Return(meaning)
    PROVE  Fused'
BY DEF Fused, Return

LEMMA FusedKept == Fused /\ [RankingNext]_rankingVars => Fused'
<1> SUFFICES ASSUME Fused, [RankingNext]_rankingVars
             PROVE  Fused'
    OBVIOUS
<1>1. CASE Warm
    BY <1>1 DEF Warm, Fused
<1>2. ASSUME NEW ranking \in LexicalRankings, RankWords(ranking)
      PROVE  Fused'
    BY <1>2 DEF RankWords, Fused
<1>3. ASSUME NEW ranking \in SemanticRankings, RankMeaning(ranking)
      PROVE  Fused'
    BY <1>3, ReturnKeepsFused DEF RankMeaning
<1>4. CASE GoOnWords
    BY <1>4, ReturnKeepsFused DEF GoOnWords
<1>5. CASE NextQuery
    BY <1>5 DEF NextQuery, Fused
<1>6. CASE UNCHANGED rankingVars
    BY <1>6 DEF rankingVars, Fused
<1>7. QED
    BY <1>1, <1>2, <1>3, <1>4, <1>5, <1>6 DEF RankingNext

LEMMA AlwaysFused == RankingSpec => []Fused
BY FusedInitially, FusedKept, PTL DEF RankingSpec

-----------------------------------------------------------------------------
(* Reading the page *)

LEMMA ReturnedRankings ==
    ASSUME Fused, stage = "returned"
    PROVE  /\ IsRanking(lexical) /\ IsRanking(semantic)
           /\ hits = Search(lexical, semantic)
<1>1. IsRanking(<<>>)
    BY DEF IsRanking, IsInjective
<1>2. QED
    BY <1>1, RankingAssumption DEF Fused

\* An entry is on the page once, so that its position is the one it is at.
LEMMA PositionFacts ==
    ASSUME Fused, stage = "returned"
    PROVE  /\ \A i \in 1..Len(hits) : /\ hits[i].entry \in Returned
                                      /\ Position(hits[i].entry) = i
           /\ \A e \in Returned : /\ Position(e) \in 1..Len(hits)
                                  /\ hits[Position(e)] = Hit(lexical, semantic, e)
<1> DEFINE found == Findings(lexical, semantic)
           fused == Fuse(lexical, semantic)
<1>1. /\ IsRanking(lexical) /\ IsRanking(semantic)
      /\ hits = Search(lexical, semantic)
    BY ReturnedRankings
<1>2. /\ fused \in Seq(found)
      /\ \A i \in 1..Len(fused) : PlaceAmong(found, fused[i]) = i
    BY <1>1, FuseFacts
<1>3. /\ hits \in Seq(found)
      /\ Len(hits) = IF Len(fused) < Limit THEN Len(fused) ELSE Limit
      /\ \A i \in 1..Len(hits) : hits[i] = fused[i]
    BY <1>1, SearchFacts
<1>4. DOMAIN hits = 1..Len(hits) /\ Len(hits) \in Nat /\ Len(hits) <= Len(fused)
    BY <1>2, <1>3, RetrievalAssumption
<1>5. \A i \in 1..Len(hits) : PlaceAmong(found, hits[i]) = i
    BY <1>2, <1>3, <1>4
<1>6. \A i \in 1..Len(hits) : hits[i] \in ToSet(hits)
    BY <1>4 DEF ToSet
<1>7. \A i \in 1..Len(hits) : hits[i] = Hit(lexical, semantic, hits[i].entry)
    BY <1>1, <1>6, HitsOnThePage
<1>8. \A i, j \in 1..Len(hits) : hits[i].entry = hits[j].entry => i = j
    BY <1>5, <1>7
<1>9. \A e \in Returned : \E i \in 1..Len(hits) : hits[i].entry = e
    BY <1>4 DEF Returned, ToSet
<1> HIDE DEF found, fused
<1>10. \A i \in 1..Len(hits) : Position(hits[i].entry) = i
    BY <1>4, <1>8 DEF Position
<1>11. QED
    BY <1>6, <1>7, <1>9, <1>10 DEF Returned

\* A finding that outranks another is on every page the other is on, before it.
LEMMA OutrankingIsListedFirst ==
    ASSUME Fused, stage = "returned",
           NEW e \in ToSet(lexical) \cup ToSet(semantic), NEW d \in Returned,
           Outranks(Hit(lexical, semantic, e), Hit(lexical, semantic, d))
    PROVE  e \in Returned /\ Position(e) < Position(d)
<1>1. /\ IsRanking(lexical) /\ IsRanking(semantic)
      /\ hits = Search(lexical, semantic)
    BY ReturnedRankings
<1>2. Position(d) \in 1..Len(hits) /\ hits[Position(d)] = Hit(lexical, semantic, d)
    BY PositionFacts
<1>3. Hit(lexical, semantic, e) \in Findings(lexical, semantic)
    BY DEF Findings
<1>4. PICK i \in 1..Len(hits) : i < Position(d) /\ hits[i] = Hit(lexical, semantic, e)
    BY <1>1, <1>2, <1>3, PageKeepsTheOrder
<1>5. hits[i].entry = e
    BY <1>4 DEF Hit
<1>6. QED
    BY <1>4, <1>5, PositionFacts

LEMMA FindingIsRated ==
    ASSUME Fused, stage = "returned", NEW e \in ToSet(lexical) \cup ToSet(semantic)
    PROVE  LET hit == Hit(lexical, semantic, e)
           IN  /\ Rated(hit)
               /\ hit.lexical_rank = RankIn(lexical, e)
               /\ hit.semantic_rank = RankIn(semantic, e)
<1>1. Hit(lexical, semantic, e) \in Findings(lexical, semantic)
    BY DEF Findings
<1>2. QED
    BY <1>1, ReturnedRankings, InsertedOnce DEF Hit

LEMMA ReturnedWasFound ==
    ASSUME Fused, stage = "returned"
    PROVE  Returned \subseteq ToSet(lexical) \cup ToSet(semantic)
BY ReturnedRankings, HitsOnThePage DEF Returned

-----------------------------------------------------------------------------
(* The order *)

LEMMA FusedKeepsThePreferred == Fused => WorseNeverOvertakes
<1> SUFFICES ASSUME Fused, stage = "returned",
                    NEW e \in ToSet(lexical) \cup ToSet(semantic),
                    NEW d \in ToSet(lexical) \cup ToSet(semantic),
                    Above(lexical, e, d), Above(semantic, e, d), d \in Returned
             PROVE  e \in Returned /\ Position(e) < Position(d)
    BY DEF WorseNeverOvertakes
<1>1. Outranks(Hit(lexical, semantic, e), Hit(lexical, semantic, d))
    BY FindingIsRated, PreferredOutranks DEF Above
<1>2. QED
    BY <1>1, OutrankingIsListedFirst

\* What both rankers prefer is listed before what both think worse, and never
\* cut to make room for it: _fuse and the slice of PolicyIndex.search.
THEOREM PreferredIsListedFirst == RankingSpec => []WorseNeverOvertakes
BY AlwaysFused, FusedKeepsThePreferred, PTL

\* What both rankers found is listed before what only one of them found, for
\* as long as no ranking is longer than RRF_K + 1 entries: the two reciprocals
\* of the bottom of such a ranking still add up to more than any one.
THEOREM CorroboratedIsListedFirst ==
    ASSUME \A r \in LexicalRankings \cup SemanticRankings : Len(r) <= RRF_K + 1
    PROVE  RankingSpec => []CorroborationWins
<1>1. Fused => CorroborationWins
    <2> SUFFICES ASSUME Fused, stage = "returned",
                        NEW e \in ToSet(lexical) \cap ToSet(semantic),
                        NEW d \in (ToSet(lexical) \cup ToSet(semantic))
                                      \ (ToSet(lexical) \cap ToSet(semantic)),
                        d \in Returned
                 PROVE  e \in Returned /\ Position(e) < Position(d)
        BY DEF CorroborationWins
    <2>1. IsRanking(lexical) /\ IsRanking(semantic)
        BY ReturnedRankings
    <2>2. /\ Len(lexical) \in Nat /\ Len(lexical) <= RRF_K + 1
          /\ Len(semantic) \in Nat /\ Len(semantic) <= RRF_K + 1
        BY <2>1, RetrievalAssumption DEF Fused, IsRanking
    <2>3. /\ RankIn(lexical, e) \in 1..(RRF_K + 1)
          /\ RankIn(semantic, e) \in 1..(RRF_K + 1)
        BY <2>1, <2>2, RankFacts, RetrievalAssumption
    <2>4. (RankIn(lexical, d) = 0) # (RankIn(semantic, d) = 0)
        BY <2>1, RankFacts
    <2>5. Outranks(Hit(lexical, semantic, e), Hit(lexical, semantic, d))
        BY <2>3, <2>4, FindingIsRated, CorroboratedOutranks
    <2>6. QED
        BY <2>5, OutrankingIsListedFirst
<1>2. QED
    BY <1>1, AlwaysFused, PTL

-----------------------------------------------------------------------------
(* The relevance *)

LEMMA FusedCitesTheLeader == Fused => ReadyCitesTheCommonLeader
<1> SUFFICES ASSUME Fused, stage = "returned", RelevanceOf(hits) = READY
             PROVE  /\ lexical # <<>> /\ semantic # <<>>
                    /\ hits[1].entry = lexical[1]
                    /\ hits[1].entry = semantic[1]
    BY DEF ReadyCitesTheCommonLeader
<1>1. /\ IsRanking(lexical) /\ IsRanking(semantic)
      /\ hits = Search(lexical, semantic)
    BY ReturnedRankings
<1>2. /\ hits # <<>> /\ lexical # <<>> /\ semantic # <<>>
      /\ lexical[1] = semantic[1]
    BY <1>1, RelevanceShows
<1>3. hits[1] = Hit(lexical, semantic, lexical[1])
    BY <1>1, <1>2, CommonLeaderIsCited
<1>4. QED
    BY <1>2, <1>3 DEF Hit

\* The best rating is given only when both rankers lead with the entry that is
\* then cited: relevance_of and the first of the hits.
THEOREM ReadyCitesTheLeader == RankingSpec => []ReadyCitesTheCommonLeader
BY AlwaysFused, FusedCitesTheLeader, PTL

LEMMA FusedIsUndisputed == Fused => UndisputedUnlessCut
<1> SUFFICES ASSUME Fused, Len(Fuse(lexical, semantic)) <= Limit,
                    stage = "returned", RouteAt(RelevanceOf(hits)) = "direct_response"
             PROVE  /\ lexical # <<>> /\ hits[1].entry = lexical[1]
                    /\ semantic = <<>> \/ semantic[1] = lexical[1]
    BY DEF UndisputedUnlessCut, UnreviewedIsUndisputed
<1> DEFINE found == Findings(lexical, semantic)
<1>1. /\ IsRanking(lexical) /\ IsRanking(semantic)
      /\ hits = Search(lexical, semantic)
    BY ReturnedRankings
<1>2. RelevanceOf(hits) \in {READY, ACCEPTABLE}
    <2>1. RelevanceOf(hits) \in {UNUSABLE, REVIEW_ONLY, ACCEPTABLE, READY}
        BY DEF RelevanceOf
    <2>2. QED
        BY <2>1 DEF RouteAt, UNUSABLE, REVIEW_ONLY, ACCEPTABLE, READY
<1>3. /\ hits # <<>> /\ lexical # <<>>
      /\ RelevanceOf(hits) = READY => semantic # <<>> /\ lexical[1] = semantic[1]
      /\ RelevanceOf(hits) = ACCEPTABLE => \A h \in ToSet(hits) : h.semantic_rank # 1
    BY <1>1, <1>2, RelevanceShows
<1>4. CASE RelevanceOf(hits) = READY
    BY <1>3, <1>4, FusedCitesTheLeader DEF ReadyCitesTheCommonLeader
<1>5. CASE RelevanceOf(hits) = ACCEPTABLE
    <2>1. \A h \in found : h \in ToSet(hits)
        <3>1. /\ Len(hits) = Len(Fuse(lexical, semantic))
              /\ \A i \in 1..Len(hits) : hits[i] = Fuse(lexical, semantic)[i]
              /\ DOMAIN hits = 1..Len(hits)
            <4>1. /\ Len(hits) = IF Len(Fuse(lexical, semantic)) < Limit
                                 THEN Len(Fuse(lexical, semantic)) ELSE Limit
                  /\ \A i \in 1..Len(hits) : hits[i] = Fuse(lexical, semantic)[i]
                  /\ hits \in Seq(found)
                BY <1>1, SearchFacts
            <4>2. Fuse(lexical, semantic) \in Seq(found)
                BY <1>1, FuseFacts
            <4>3. QED
                BY <4>1, <4>2, RetrievalAssumption
        <3>2. \A h \in found : \E i \in 1..Len(Fuse(lexical, semantic)) :
                  Fuse(lexical, semantic)[i] = h
            <4>1. \A h \in found :
                      /\ PlaceAmong(found, h) \in 1..Len(Fuse(lexical, semantic))
                      /\ Fuse(lexical, semantic)[PlaceAmong(found, h)] = h
                BY <1>1, FuseFacts
            <4>2. QED
                BY <4>1
        <3>3. QED
            BY <3>1, <3>2 DEF ToSet
    <2>2. semantic = <<>>
        <3>1. ASSUME semantic # <<>>
              PROVE  FALSE
            <4>1. 1 \in 1..Len(semantic)
                BY <1>1, <3>1 DEF IsRanking
            <4>2. RankIn(semantic, semantic[1]) = 1
                BY <1>1, <4>1, RankFacts
            <4>3. semantic[1] \in ToSet(semantic)
                BY <1>1, <4>2, RankFacts
            <4>4. Hit(lexical, semantic, semantic[1]) \in found
                BY <4>3 DEF Findings
            <4>5. Hit(lexical, semantic, semantic[1]).semantic_rank = 1
                BY <4>2 DEF Hit
            <4>6. QED
                BY <1>3, <1>5, <2>1, <4>4, <4>5
        <3>2. QED
            BY <3>1
    <2>3. 1 \in 1..Len(lexical)
        BY <1>1, <1>3 DEF IsRanking
    <2>4. RankIn(lexical, lexical[1]) = 1 /\ lexical[1] \in ToSet(lexical)
        BY <1>1, <2>3, RankFacts
    <2>5. ToSet(semantic) = {}
        BY <2>2 DEF ToSet
    <2>6. \A e \in ToSet(lexical) \ {lexical[1]} :
              RankIn(lexical, e) \in Nat /\ RankIn(lexical, e) > 1
        BY <1>1, RankFacts, LeadersAreFirst DEF IsRanking
    <2>7. \A e \in ToSet(lexical) : RankIn(semantic, e) = 0
        BY <1>1, <2>5, RankFacts
    <2>8. ASSUME NEW h \in found \ {Hit(lexical, semantic, lexical[1])}
          PROVE  Outranks(Hit(lexical, semantic, lexical[1]), h)
        <3>1. PICK e \in ToSet(lexical) : h = Hit(lexical, semantic, e)
            BY <2>5 DEF Findings
        <3>2. RankIn(lexical, e) > 1
            BY <2>6, <2>8, <3>1
        <3>3. QED
            BY <2>4, <2>7, <3>1, <3>2, FindingIsRated, WordsAloneOutrank
    <2>9. Hit(lexical, semantic, lexical[1]) \in found
        BY <2>4 DEF Findings
    <2>10. hits[1] = Hit(lexical, semantic, lexical[1])
        BY <1>1, <1>3, <2>8, <2>9, BestLeadsThePage
    <2>11. QED
        BY <1>3, <2>2, <2>10 DEF Hit
<1>6. QED
    BY <1>2, <1>4, <1>5

\* An entry cited to a customer unreviewed is the one the words led with, and
\* no meaning led elsewhere, in every search whose findings fit on the page.
THEOREM UnreviewedIsUndisputedUnlessCut == RankingSpec => []UndisputedUnlessCut
BY AlwaysFused, FusedIsUndisputed, PTL

=============================================================================
