------------------------------ MODULE Retrieval ------------------------------
(***************************************************************************)
(* Ranking the approved policies (app/agent/retrieval.py).                  *)
(*                                                                          *)
(* A ranker is abstracted to the order it puts entries in: a sequence of    *)
(* distinct entries, the empty one where it found nothing or could not be   *)
(* asked.  What fusion makes of two such orders is computed exactly: the    *)
(* reciprocal-rank scores are compared as fractions.                        *)
(***************************************************************************)
EXTENDS Profiles, Sequences, SequencesExt

CONSTANTS
    Limit,  \* PolicyIndex.search(limit=5)
    RRF_K   \* the damping constant of reciprocal rank fusion, 60

ASSUME RetrievalAssumption == Limit \in Nat \ {0} /\ RRF_K \in Nat

\* The rankings a ranker may produce over a set of entries.
RankingsOver(entries) == UNION {SetToSeqs(found) : found \in SUBSET entries}

\* What a ranking is: some entries in an order, none of them twice.
IsRanking(ranking) == ranking \in Seq(ToSet(ranking)) /\ IsInjective(ranking)

\* The position a ranking gives an entry, from 1; 0 is None: it was not found.
RankIn(ranking, entry) ==
    IF \E i \in DOMAIN ranking : ranking[i] = entry
    THEN CHOOSE i \in DOMAIN ranking : ranking[i] = entry
    ELSE 0

\* 1 / (RRF_K + rank), or nothing where the entry was not placed: <<num, den>>.
Reciprocal(rank) == IF rank = 0 THEN <<0, 1>> ELSE <<1, RRF_K + rank>>

\* Mutant: the better of the two ranks decides, and agreement adds nothing.
FusedScoreBest(hit) ==
    LET l == Reciprocal(hit.lexical_rank)
        s == Reciprocal(hit.semantic_rank)
    IN  IF l[1] * s[2] >= s[1] * l[2] THEN l ELSE s

FusedScore(hit) ==
    LET l == Reciprocal(hit.lexical_rank)
        s == Reciprocal(hit.semantic_rank)
    IN  <<l[1] * s[2] + s[1] * l[2], l[2] * s[2]>>

\* A stable sort by descending score: a tie keeps the order of insertion, the
\* lexical ranking first and then what only the semantic one found.
Outranks(a, b) ==
    LET x == FusedScore(a)
        y == FusedScore(b)
    IN  \/ x[1] * y[2] > y[1] * x[2]
        \/ x[1] * y[2] = y[1] * x[2] /\ a.inserted < b.inserted

\* _fuse: an entry a ranker found, with the ranks it had in both ...
Hit(lexical, semantic, entry) ==
    LET l == RankIn(lexical, entry)
        s == RankIn(semantic, entry)
    IN  [entry |-> entry, lexical_rank |-> l, semantic_rank |-> s,
         inserted |-> IF l # 0 THEN l ELSE Len(lexical) + s]

Findings(lexical, semantic) ==
    {Hit(lexical, semantic, e) : e \in ToSet(lexical) \cup ToSet(semantic)}

\* ... each put behind those that outrank it.
PlaceAmong(found, hit) == 1 + Cardinality({h \in found : Outranks(h, hit)})

Fuse(lexical, semantic) ==
    LET found == Findings(lexical, semantic)
    IN  [place \in 1..Cardinality(found) |->
            CHOOSE hit \in found : PlaceAmong(found, hit) = place]

\* Mutant: the slice starts one late.
SearchFromSecond(lexical, semantic) ==
    LET fused == Fuse(lexical, semantic)
    IN  SubSeq(fused, 2, IF Len(fused) < Limit + 1 THEN Len(fused) ELSE Limit + 1)

\* PolicyIndex.search: the fused ranking, cut to the limit.
Search(lexical, semantic) ==
    LET fused == Fuse(lexical, semantic)
    IN  SubSeq(fused, 1, IF Len(fused) < Limit THEN Len(fused) ELSE Limit)

\* Mutants: appearing in both rankings is taken for agreeing, and disagreeing
\* is taken for one ranker being good enough.
RelevanceOfAppearing(hits) ==
    CASE hits = <<>> -> UNUSABLE
      [] hits # <<>> /\ \E h \in ToSet(hits) : h.lexical_rank # 0 /\ h.semantic_rank # 0 -> READY
      [] OTHER -> REVIEW_ONLY
RelevanceOfEither(hits) ==
    CASE hits = <<>> -> UNUSABLE
      [] hits # <<>> /\ \E h \in ToSet(hits) : h.lexical_rank = 1 -> ACCEPTABLE
      [] OTHER -> REVIEW_ONLY

\* relevance_of: whether the rankers lead with the same entry, read from the
\* hits that came back.
RelevanceOf(hits) ==
    LET lexicalFirst  == {h.entry : h \in {g \in ToSet(hits) : g.lexical_rank = 1}}
        semanticFirst == {h.entry : h \in {g \in ToSet(hits) : g.semantic_rank = 1}}
    IN  CASE hits = <<>>                               -> UNUSABLE
          [] hits # <<>> /\ lexicalFirst = {}          -> REVIEW_ONLY
          [] lexicalFirst # {} /\ semanticFirst = {}   -> ACCEPTABLE
          [] lexicalFirst # {} /\ lexicalFirst = semanticFirst -> READY
          [] OTHER                                     -> REVIEW_ONLY

=============================================================================
