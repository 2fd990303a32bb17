----------------------------- MODULE MCRanking -----------------------------
(* Ranking over every order of a few entries, and over the few orders of six *)
(* that a page of five cannot hold.                                          *)
EXTENDS Ranking, TLC

Documents == {"d1", "d2", "d3", "d4"}
AnyOrder  == RankingsOver(Documents)

\* Six entries: the words find five of them, the meaning leads with the sixth.
WordsFindFive   == {<<"d1", "d2", "d3", "d4", "d5">>}
MeaningFindsSix == {<<"d6", "d2", "d3", "d4", "d5">>, <<"d6", "d1", "d2", "d3", "d4", "d5">>}

NoFacts == {}

=============================================================================
