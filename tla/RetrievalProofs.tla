--------------------------- MODULE RetrievalProofs ---------------------------
(***************************************************************************)
(* What fusing two rankings makes of them, for rankings of any length: the  *)
(* order the fused scores put the findings in, the place each finding gets  *)
(* in it, and what the page that is returned keeps of that order.           *)
(***************************************************************************)
EXTENDS Retrieval, TLAPS, FiniteSetTheorems

-----------------------------------------------------------------------------
(* Positions in one ranking *)

LEMMA RankFacts ==
    ASSUME NEW ranking, IsRanking(ranking)
    PROVE  /\ \A e : RankIn(ranking, e) \in 0..Len(ranking)
           /\ \A e : RankIn(ranking, e) # 0 <=> e \in ToSet(ranking)
           /\ \A e : RankIn(ranking, e) # 0 => ranking[RankIn(ranking, e)] = e
           /\ \A i \in 1..Len(ranking) : RankIn(ranking, ranking[i]) = i
<1>1. Len(ranking) \in Nat /\ DOMAIN ranking = 1..Len(ranking)
    BY DEF IsRanking
<1>2. \A e : e \in ToSet(ranking) <=> \E i \in DOMAIN ranking : ranking[i] = e
    BY DEF ToSet
<1>3. ASSUME NEW e, e \in ToSet(ranking)
      PROVE  RankIn(ranking, e) \in 1..Len(ranking) /\ ranking[RankIn(ranking, e)] = e
    BY <1>1, <1>2, <1>3 DEF RankIn
<1>4. ASSUME NEW e, e \notin ToSet(ranking)
      PROVE  RankIn(ranking, e) = 0
    BY <1>2, <1>4 DEF RankIn
<1>5. ASSUME NEW i \in 1..Len(ranking)
      PROVE  RankIn(ranking, ranking[i]) = i
    BY <1>1, <1>2, <1>3 DEF IsRanking, IsInjective
<1>6. QED
    BY <1>1, <1>3, <1>4, <1>5

\* Every order RankingsOver draws is a ranking of the entries it is drawn over.
LEMMA DrawnIsRanking ==
    ASSUME NEW entries, IsFiniteSet(entries), NEW ranking \in RankingsOver(entries)
    PROVE  IsRanking(ranking) /\ ToSet(ranking) \subseteq entries
<1>1. PICK found \in SUBSET entries : ranking \in SetToSeqs(found)
    BY DEF RankingsOver
<1>2. Cardinality(found) \in Nat
    BY FS_Subset, FS_CardinalityType
<1>3. ranking \in [1..Cardinality(found) -> found] /\ IsInjective(ranking)
    BY <1>1 DEF SetToSeqs, IsInjective
<1>4. ToSet(ranking) \subseteq found
    BY <1>3 DEF ToSet
<1>5. ranking \in [1..Cardinality(found) -> ToSet(ranking)]
    BY <1>3 DEF ToSet
<1>6. ranking \in Seq(ToSet(ranking))
    BY <1>2, <1>5
<1>7. QED
    BY <1>3, <1>4, <1>6 DEF IsRanking

-----------------------------------------------------------------------------
(* Fractions, and the order of the fused scores *)

\* The fractions FusedScore computes: their denominators are never nothing.
Fractions == Nat \X (Nat \ {0})

AtLeast(x, y) == x[1] * y[2] >= y[1] * x[2]

LEMMA TimesKeepsOrder ==
    ASSUME NEW a \in Nat, NEW b \in Nat, NEW c \in Nat \ {0}
    PROVE  a * c >= b * c <=> a >= b
<1>1. CASE a >= b
    <2>1. PICK k \in Nat : a = b + k
        BY <1>1
    <2>2. a * c = b * c + k * c /\ k * c \in Nat /\ b * c \in Nat
        BY <2>1
    <2>3. QED
        BY <1>1, <2>2
<1>2. CASE ~(a >= b)
    <2>1. PICK k \in Nat \ {0} : b = a + k
        <3>1. b - a \in Nat \ {0} /\ b = a + (b - a)
            BY <1>2
        <3>2. QED
            BY <3>1
    <2>2. b * c = a * c + k * c /\ a * c \in Nat
        BY <2>1
    <2>3. k * c > 0 /\ k * c \in Nat
        OBVIOUS
    <2>4. QED
        BY <1>2, <2>2, <2>3
<1>3. QED
    BY <1>1, <1>2

LEMMA AtLeastIsTransitive ==
    ASSUME NEW x \in Fractions, NEW y \in Fractions, NEW z \in Fractions,
           AtLeast(x, y), AtLeast(y, z)
    PROVE  AtLeast(x, z)
<1> DEFINE a == x[1]  b == y[1]  c == z[1]  p == x[2]  q == y[2]  r == z[2]
<1>1. /\ a \in Nat /\ b \in Nat /\ c \in Nat
      /\ p \in Nat \ {0} /\ q \in Nat \ {0} /\ r \in Nat \ {0}
      /\ a * q >= b * p /\ b * r >= c * q
    BY DEF Fractions, AtLeast
<1> HIDE DEF a, b, c, p, q, r
<1>2. /\ a * q \in Nat /\ b * p \in Nat /\ b * r \in Nat /\ c * q \in Nat
      /\ a * r \in Nat /\ c * p \in Nat
    BY <1>1
<1>3. (a * q) * r >= (b * p) * r
    BY <1>1, <1>2, TimesKeepsOrder
<1>4. (b * r) * p >= (c * q) * p
    BY <1>1, <1>2, TimesKeepsOrder
<1>5. /\ (a * q) * r = (a * r) * q
      /\ (b * p) * r = (b * r) * p
      /\ (c * q) * p = (c * p) * q
    BY <1>1
<1>6. (a * r) * q \in Nat /\ (b * r) * p \in Nat /\ (c * p) * q \in Nat
    BY <1>1, <1>2
<1>7. (a * r) * q >= (c * p) * q
    BY <1>3, <1>4, <1>5, <1>6
<1>8. a * r >= c * p
    BY <1>1, <1>2, <1>7, TimesKeepsOrder
<1>9. QED
    BY <1>8 DEF AtLeast, a, c, p, r

LEMMA AtLeastIsTotal ==
    ASSUME NEW x \in Fractions, NEW y \in Fractions
    PROVE  AtLeast(x, y) \/ AtLeast(y, x)
<1>1. x[1] * y[2] \in Nat /\ y[1] * x[2] \in Nat
    BY DEF Fractions
<1>2. QED
    BY <1>1 DEF AtLeast

\* More stays more when the same is counted more often.
LEMMA TimesKeepsMore ==
    ASSUME NEW a \in Nat, NEW b \in Nat, NEW c \in Nat \ {0}, a > b
    PROVE  a * c > b * c
<1>1. ~(b * c >= a * c)
    BY TimesKeepsOrder
<1>2. a * c \in Nat /\ b * c \in Nat
    OBVIOUS
<1>3. QED
    BY <1>1, <1>2

\* Of two sums, the one whose terms are both more is more.
LEMMA SumsKeepMore ==
    ASSUME NEW x \in Fractions, NEW y \in Fractions,
           NEW u \in Fractions, NEW v \in Fractions,
           x[1] * u[2] > u[1] * x[2], y[1] * v[2] > v[1] * y[2]
    PROVE  (x[1] * y[2] + y[1] * x[2]) * (u[2] * v[2]) >
               (u[1] * v[2] + v[1] * u[2]) * (x[2] * y[2])
<1> DEFINE a == x[1]  b == y[1]  c == u[1]  d == v[1]
           p == x[2]  q == y[2]  r == u[2]  s == v[2]
<1>1. /\ a \in Nat /\ b \in Nat /\ c \in Nat /\ d \in Nat
      /\ p \in Nat \ {0} /\ q \in Nat \ {0} /\ r \in Nat \ {0} /\ s \in Nat \ {0}
      /\ a * r > c * p /\ b * s > d * q
    BY DEF Fractions
<1> HIDE DEF a, b, c, d, p, q, r, s
<1>2. /\ a * r \in Nat /\ c * p \in Nat /\ b * s \in Nat /\ d * q \in Nat
      /\ q * s \in Nat \ {0} /\ p * r \in Nat \ {0}
    BY <1>1
<1>3. (a * r) * (q * s) > (c * p) * (q * s)
    BY <1>1, <1>2, TimesKeepsMore
<1>4. (b * s) * (p * r) > (d * q) * (p * r)
    BY <1>1, <1>2, TimesKeepsMore
<1>5. /\ (a * q + b * p) * (r * s) = (a * r) * (q * s) + (b * s) * (p * r)
      /\ (c * s + d * r) * (p * q) = (c * p) * (q * s) + (d * q) * (p * r)
    BY <1>1
<1>6. /\ (a * r) * (q * s) \in Nat /\ (b * s) * (p * r) \in Nat
      /\ (c * p) * (q * s) \in Nat /\ (d * q) * (p * r) \in Nat
    BY <1>2
<1>7. (a * q + b * p) * (r * s) > (c * s + d * r) * (p * q)
    BY <1>3, <1>4, <1>5, <1>6
<1>8. QED
    BY <1>7 DEF a, b, c, d, p, q, r, s

-----------------------------------------------------------------------------
(* The order the fused scores put hits in *)

\* All that the order reads of a hit.
Rated(hit) ==
    hit.lexical_rank \in Nat /\ hit.semantic_rank \in Nat /\ hit.inserted \in Nat

LEMMA ReciprocalsAreFractions ==
    ASSUME NEW rank \in Nat
    PROVE  Reciprocal(rank) \in Fractions
BY RetrievalAssumption DEF Reciprocal, Fractions

LEMMA ScoresAreFractions ==
    ASSUME NEW hit, Rated(hit)
    PROVE  FusedScore(hit) \in Fractions
<1> DEFINE l == Reciprocal(hit.lexical_rank)  s == Reciprocal(hit.semantic_rank)
<1>1. l \in Fractions /\ s \in Fractions
    BY ReciprocalsAreFractions DEF Rated
<1>2. FusedScore(hit) = <<l[1] * s[2] + s[1] * l[2], l[2] * s[2]>>
    BY DEF FusedScore
<1> HIDE DEF l, s
<1>3. /\ l[1] \in Nat /\ l[2] \in Nat \ {0} /\ s[1] \in Nat /\ s[2] \in Nat \ {0}
    BY <1>1 DEF Fractions
<1>4. l[1] * s[2] \in Nat /\ s[1] * l[2] \in Nat /\ l[2] * s[2] \in Nat \ {0}
    BY <1>3
<1>5. QED
    BY <1>2, <1>4 DEF Fractions

LEMMA OutranksByScore ==
    ASSUME NEW a, Rated(a), NEW b, Rated(b)
    PROVE  Outranks(a, b) <=>
               /\ AtLeast(FusedScore(a), FusedScore(b))
               /\ AtLeast(FusedScore(b), FusedScore(a)) => a.inserted < b.inserted
<1> DEFINE x == FusedScore(a)  y == FusedScore(b)
<1>1. x \in Fractions /\ y \in Fractions
    BY ScoresAreFractions
<1>2. Outranks(a, b) <=> \/ x[1] * y[2] > y[1] * x[2]
                         \/ x[1] * y[2] = y[1] * x[2] /\ a.inserted < b.inserted
    BY DEF Outranks
<1> HIDE DEF x, y
<1>3. x[1] * y[2] \in Nat /\ y[1] * x[2] \in Nat
    BY <1>1 DEF Fractions
<1>4. QED
    BY <1>2, <1>3 DEF AtLeast, x, y

LEMMA OutranksIsAnOrder ==
    ASSUME NEW a, Rated(a), NEW b, Rated(b), NEW c, Rated(c)
    PROVE  /\ ~Outranks(a, a)
           /\ Outranks(a, b) /\ Outranks(b, c) => Outranks(a, c)
           /\ a.inserted # b.inserted => Outranks(a, b) \/ Outranks(b, a)
<1> DEFINE x == FusedScore(a)  y == FusedScore(b)  z == FusedScore(c)
<1>1. x \in Fractions /\ y \in Fractions /\ z \in Fractions
    BY ScoresAreFractions
<1>2. a.inserted \in Nat /\ b.inserted \in Nat /\ c.inserted \in Nat
    BY DEF Rated
<1>3. AtLeast(x, y) /\ AtLeast(y, z) => AtLeast(x, z)
    BY <1>1, AtLeastIsTransitive
<1>4. /\ AtLeast(z, x) /\ AtLeast(x, y) => AtLeast(z, y)
      /\ AtLeast(y, z) /\ AtLeast(z, x) => AtLeast(y, x)
    BY <1>1, AtLeastIsTransitive
<1>5. AtLeast(x, x) /\ (AtLeast(x, y) \/ AtLeast(y, x))
    BY <1>1, AtLeastIsTotal
<1>6. /\ Outranks(a, a) <=> AtLeast(x, x) /\ (AtLeast(x, x) => a.inserted < a.inserted)
      /\ Outranks(a, b) <=> AtLeast(x, y) /\ (AtLeast(y, x) => a.inserted < b.inserted)
      /\ Outranks(b, a) <=> AtLeast(y, x) /\ (AtLeast(x, y) => b.inserted < a.inserted)
      /\ Outranks(b, c) <=> AtLeast(y, z) /\ (AtLeast(z, y) => b.inserted < c.inserted)
      /\ Outranks(a, c) <=> AtLeast(x, z) /\ (AtLeast(z, x) => a.inserted < c.inserted)
    BY OutranksByScore
<1> HIDE DEF x, y, z
<1>7. QED
    BY <1>2, <1>3, <1>4, <1>5, <1>6

-----------------------------------------------------------------------------
(* The place of each hit among those found *)

\* What is found is finitely much, each rated, and no two inserted together.
Sortable(found) ==
    /\ IsFiniteSet(found)
    /\ \A h \in found : Rated(h)
    /\ \A g, h \in found : g.inserted = h.inserted => g = h

LEMMA PlacesFollowTheOrder ==
    ASSUME NEW found, Sortable(found), NEW a \in found, NEW b \in found, Outranks(a, b)
    PROVE  PlaceAmong(found, a) < PlaceAmong(found, b)
<1> DEFINE before(h) == {g \in found : Outranks(g, h)}
<1>1. before(a) \subseteq before(b)
    BY OutranksIsAnOrder DEF Sortable
<1>2. a \in before(b) /\ a \notin before(a)
    BY OutranksIsAnOrder DEF Sortable
<1>3. IsFiniteSet(before(b))
    BY FS_Subset DEF Sortable
<1>4. /\ IsFiniteSet(before(a)) /\ Cardinality(before(a)) <= Cardinality(before(b))
      /\ Cardinality(before(b)) = Cardinality(before(a)) => before(b) = before(a)
    BY <1>1, <1>3, FS_Subset
<1>5. Cardinality(before(a)) \in Nat /\ Cardinality(before(b)) \in Nat
    BY <1>3, <1>4, FS_CardinalityType
<1>6. PlaceAmong(found, a) = 1 + Cardinality(before(a))
    BY DEF PlaceAmong
<1>7. PlaceAmong(found, b) = 1 + Cardinality(before(b))
    BY DEF PlaceAmong
<1> HIDE DEF before
<1>8. QED
    BY <1>2, <1>4, <1>5, <1>6, <1>7

LEMMA PlacesAreOnTheList ==
    ASSUME NEW found, Sortable(found), NEW a \in found
    PROVE  PlaceAmong(found, a) \in 1..Cardinality(found)
<1> DEFINE before == {g \in found : Outranks(g, a)}
<1>1. before \in SUBSET (found \ {a})
    BY OutranksIsAnOrder DEF Sortable
<1>2. /\ IsFiniteSet(found \ {a})
      /\ Cardinality(found \ {a}) = Cardinality(found) - 1
      /\ Cardinality(found) \in Nat
    BY FS_RemoveElement, FS_CardinalityType DEF Sortable
<1>3. IsFiniteSet(before) /\ Cardinality(before) <= Cardinality(found \ {a})
    BY <1>1, <1>2, FS_Subset
<1>4. Cardinality(before) \in Nat
    BY <1>3, FS_CardinalityType
<1>5. PlaceAmong(found, a) = 1 + Cardinality(before)
    BY DEF PlaceAmong
<1> HIDE DEF before
<1>6. QED
    BY <1>2, <1>3, <1>4, <1>5

\* Every place on the list is somebody's, and one finding's alone.
LEMMA PlacesAreTakenOnce ==
    ASSUME NEW found, Sortable(found)
    PROVE  /\ \A a, b \in found : PlaceAmong(found, a) = PlaceAmong(found, b) => a = b
           /\ \A place \in 1..Cardinality(found) :
                  \E a \in found : PlaceAmong(found, a) = place
<1> DEFINE n     == Cardinality(found)
           place == [a \in found |-> PlaceAmong(found, a)]
<1>1. n \in Nat /\ IsFiniteSet(1..n) /\ Cardinality(1..n) = n
    <2>1. n \in Nat
        BY FS_CardinalityType DEF Sortable
    <2>2. IsFiniteSet(1..n) /\ Cardinality(1..n) = IF 1 > n THEN 0 ELSE n - 1 + 1
        BY <2>1, FS_Interval
    <2>3. QED
        BY <2>1, <2>2
<1>2. ASSUME NEW a \in found, NEW b \in found, a # b
      PROVE  PlaceAmong(found, a) # PlaceAmong(found, b)
    <2>1. Outranks(a, b) \/ Outranks(b, a)
        BY <1>2, OutranksIsAnOrder DEF Sortable
    <2>2. PlaceAmong(found, a) \in Nat /\ PlaceAmong(found, b) \in Nat
        BY <1>1, PlacesAreOnTheList
    <2>3. QED
        BY <2>1, <2>2, PlacesFollowTheOrder
<1>3. place \in Injection(found, 1..n)
    BY <1>2, PlacesAreOnTheList DEF Injection, IsInjective
<1>4. place \in Surjection(found, 1..n)
    BY <1>1, <1>3, FS_Injection
<1>5. \A p \in 1..n : \E a \in found : place[a] = p
    BY <1>4 DEF Surjection
<1>6. QED
    BY <1>2, <1>5

-----------------------------------------------------------------------------
(* What two rankings found, and the list fusion makes of it *)

\* A finding is told apart by when it was inserted: where the words put it,
\* or, for what they did not find, behind them where the meaning put it.
LEMMA InsertedOnce ==
    ASSUME NEW lexical, IsRanking(lexical), NEW semantic, IsRanking(semantic)
    PROVE  \A g, h \in Findings(lexical, semantic) :
               Rated(g) /\ (g.inserted = h.inserted => g = h)
<1> DEFINE l(e) == RankIn(lexical, e)  s(e) == RankIn(semantic, e)
<1>1. Len(lexical) \in Nat /\ Len(semantic) \in Nat
    BY DEF IsRanking
<1>2. \A e : l(e) \in 0..Len(lexical) /\ s(e) \in 0..Len(semantic)
    BY RankFacts
<1>3. \A e : (l(e) # 0 => lexical[l(e)] = e) /\ (s(e) # 0 => semantic[s(e)] = e)
    BY RankFacts
<1>4. \A e \in ToSet(lexical) \cup ToSet(semantic) : l(e) # 0 \/ s(e) # 0
    BY RankFacts
<1>5. \A e : Hit(lexical, semantic, e) =
          [entry |-> e, lexical_rank |-> l(e), semantic_rank |-> s(e),
           inserted |-> IF l(e) # 0 THEN l(e) ELSE Len(lexical) + s(e)]
    BY DEF Hit
<1> HIDE DEF l, s
<1>6. ASSUME NEW e \in ToSet(lexical) \cup ToSet(semantic),
             NEW d \in ToSet(lexical) \cup ToSet(semantic),
             (IF l(e) # 0 THEN l(e) ELSE Len(lexical) + s(e))
                 = (IF l(d) # 0 THEN l(d) ELSE Len(lexical) + s(d))
      PROVE  e = d
    <2>1. CASE l(e) # 0
        <3>1. l(d) # 0 /\ l(e) = l(d)
            BY <1>1, <1>2, <1>4, <1>6, <2>1
        <3>2. QED
            BY <1>3, <2>1, <3>1
    <2>2. CASE l(e) = 0
        <3>1. l(d) = 0 /\ s(e) = s(d) /\ s(e) # 0
            BY <1>1, <1>2, <1>4, <1>6, <2>2
        <3>2. QED
            BY <1>3, <3>1
    <2>3. QED
        BY <2>1, <2>2
<1>7. SUFFICES ASSUME NEW e \in ToSet(lexical) \cup ToSet(semantic),
                      NEW d \in ToSet(lexical) \cup ToSet(semantic)
               PROVE  /\ Rated(Hit(lexical, semantic, e))
                      /\ Hit(lexical, semantic, e).inserted = Hit(lexical, semantic, d).inserted
                             => Hit(lexical, semantic, e) = Hit(lexical, semantic, d)
    BY DEF Findings
<1>8. Rated(Hit(lexical, semantic, e))
    BY <1>1, <1>2, <1>5 DEF Rated
<1>9. QED
    BY <1>5, <1>6, <1>8

LEMMA FindingsAreSortable ==
    ASSUME NEW lexical, IsRanking(lexical), NEW semantic, IsRanking(semantic)
    PROVE  Sortable(Findings(lexical, semantic))
<1> DEFINE found == ToSet(lexical) \cup ToSet(semantic)
           hit   == [e \in found |-> Hit(lexical, semantic, e)]
<1>1. ASSUME NEW ranking, IsRanking(ranking)
      PROVE  IsFiniteSet(ToSet(ranking))
    <2>1. Len(ranking) \in Nat /\ DOMAIN ranking = 1..Len(ranking)
        BY <1>1 DEF IsRanking
    <2>2. ranking \in Surjection(1..Len(ranking), ToSet(ranking))
        BY <1>1, <2>1 DEF Surjection, ToSet, IsRanking
    <2>3. IsFiniteSet(1..Len(ranking))
        BY <2>1, FS_Interval
    <2>4. QED
        BY <2>2, <2>3, FS_Surjection
<1>2. IsFiniteSet(found)
    BY <1>1, FS_Union
<1>3. hit \in Surjection(found, Findings(lexical, semantic))
    BY DEF Surjection, Findings
<1>4. IsFiniteSet(Findings(lexical, semantic))
    BY <1>2, <1>3, FS_Surjection
<1>5. QED
    BY <1>4, InsertedOnce DEF Sortable

LEMMA FuseFacts ==
    ASSUME NEW lexical, IsRanking(lexical), NEW semantic, IsRanking(semantic)
    PROVE  LET found == Findings(lexical, semantic)
               fused == Fuse(lexical, semantic)
           IN  /\ fused \in Seq(found)
               /\ Len(fused) = Cardinality(found)
               /\ \A i \in 1..Len(fused) : PlaceAmong(found, fused[i]) = i
               /\ \A h \in found : /\ PlaceAmong(found, h) \in 1..Len(fused)
                                   /\ fused[PlaceAmong(found, h)] = h
<1> DEFINE found == Findings(lexical, semantic)
           fused == Fuse(lexical, semantic)
           n     == Cardinality(found)
           at(p) == CHOOSE hit \in found : PlaceAmong(found, hit) = p
<1>1. Sortable(found)
    BY FindingsAreSortable
<1>2. n \in Nat
    BY <1>1, FS_CardinalityType DEF Sortable
<1>3. fused = [p \in 1..n |-> at(p)]
    BY DEF Fuse
<1>4. \A p \in 1..n : at(p) \in found /\ PlaceAmong(found, at(p)) = p
    BY <1>1, PlacesAreTakenOnce
<1>5. \A h \in found : PlaceAmong(found, h) \in 1..n
    BY <1>1, PlacesAreOnTheList
<1>6. \A h \in found : at(PlaceAmong(found, h)) = h
    BY <1>1, <1>4, <1>5, PlacesAreTakenOnce
<1> HIDE DEF at, n
<1>7. fused \in Seq(found) /\ Len(fused) = n
    BY <1>2, <1>3, <1>4
<1>8. \A i \in 1..Len(fused) : PlaceAmong(found, fused[i]) = i
    BY <1>3, <1>4, <1>7
<1>9. \A h \in found : /\ PlaceAmong(found, h) \in 1..Len(fused)
                       /\ fused[PlaceAmong(found, h)] = h
    BY <1>3, <1>5, <1>6, <1>7
<1>10. QED
    BY <1>7, <1>8, <1>9 DEF n

\* The page is the top of the fused list, and all of it where that fits.
LEMMA SearchFacts ==
    ASSUME NEW lexical, IsRanking(lexical), NEW semantic, IsRanking(semantic)
    PROVE  LET found == Findings(lexical, semantic)
               fused == Fuse(lexical, semantic)
               page  == Search(lexical, semantic)
           IN  /\ page \in Seq(found)
               /\ Len(page) = IF Len(fused) < Limit THEN Len(fused) ELSE Limit
               /\ \A i \in 1..Len(page) : page[i] = fused[i]
<1> DEFINE found == Findings(lexical, semantic)
           fused == Fuse(lexical, semantic)
           m     == IF Len(fused) < Limit THEN Len(fused) ELSE Limit
<1>1. fused \in Seq(found)
    BY FuseFacts
<1>2. m \in 0..Len(fused)
    BY <1>1, RetrievalAssumption
<1>3. Search(lexical, semantic) = SubSeq(fused, 1, m)
    BY DEF Search
<1> HIDE DEF fused, m, found
<1>4. /\ SubSeq(fused, 1, m) \in Seq(found)
      /\ Len(SubSeq(fused, 1, m)) = m
      /\ \A i \in 1..m : SubSeq(fused, 1, m)[i] = fused[i]
    BY <1>1, <1>2
<1>5. QED
    BY <1>3, <1>4 DEF fused, m, found

\* A finding that outranks one on the page is on it too, and further up.
LEMMA PageKeepsTheOrder ==
    ASSUME NEW lexical, IsRanking(lexical), NEW semantic, IsRanking(semantic),
           NEW a \in Findings(lexical, semantic), NEW j \in 1..Len(Search(lexical, semantic)),
           Outranks(a, Search(lexical, semantic)[j])
    PROVE  \E i \in 1..Len(Search(lexical, semantic)) :
               i < j /\ Search(lexical, semantic)[i] = a
<1> DEFINE found == Findings(lexical, semantic)
           fused == Fuse(lexical, semantic)
           page  == Search(lexical, semantic)
           i     == PlaceAmong(found, a)
<1>1. /\ page[j] = fused[j] /\ j \in 1..Len(fused)
      /\ Len(page) \in Nat /\ Len(page) <= Len(fused) /\ Len(fused) \in Nat
      /\ \A p \in 1..Len(page) : page[p] = fused[p]
    <2>1. /\ page \in Seq(found)
          /\ Len(page) = IF Len(fused) < Limit THEN Len(fused) ELSE Limit
          /\ \A p \in 1..Len(page) : page[p] = fused[p]
        BY SearchFacts
    <2>2. fused \in Seq(found)
        BY FuseFacts
    <2>3. QED
        BY <2>1, <2>2, RetrievalAssumption
<1>2. fused[j] \in found /\ PlaceAmong(found, fused[j]) = j
    <2>1. fused \in Seq(found) /\ \A p \in 1..Len(fused) : PlaceAmong(found, fused[p]) = p
        BY FuseFacts
    <2>2. QED
        BY <1>1, <2>1
<1>3. i < j
    BY <1>1, <1>2, FindingsAreSortable, PlacesFollowTheOrder
<1>4. i \in 1..Len(fused) /\ fused[i] = a
    BY FuseFacts
<1>5. i \in 1..Len(page) /\ page[i] = a
    BY <1>1, <1>3, <1>4
<1>6. QED
    BY <1>3, <1>5

-----------------------------------------------------------------------------
(* Who outranks whom *)

\* What both rankers place before another entry outranks it.
LEMMA PreferredOutranks ==
    ASSUME NEW e, Rated(e), NEW d, Rated(d),
           e.lexical_rank # 0, e.semantic_rank # 0,
           d.lexical_rank = 0 \/ e.lexical_rank < d.lexical_rank,
           d.semantic_rank = 0 \/ e.semantic_rank < d.semantic_rank
    PROVE  Outranks(e, d)
<1> DEFINE x == Reciprocal(e.lexical_rank)  y == Reciprocal(e.semantic_rank)
           u == Reciprocal(d.lexical_rank)  v == Reciprocal(d.semantic_rank)
<1>1. x \in Fractions /\ y \in Fractions /\ u \in Fractions /\ v \in Fractions
    BY ReciprocalsAreFractions DEF Rated
<1>2. ASSUME NEW p \in Nat \ {0}, NEW q \in Nat, q = 0 \/ p < q
      PROVE  Reciprocal(p)[1] * Reciprocal(q)[2] > Reciprocal(q)[1] * Reciprocal(p)[2]
    <2>1. CASE q = 0
        <3>1. Reciprocal(p) = <<1, RRF_K + p>> /\ Reciprocal(q) = <<0, 1>>
            BY <2>1 DEF Reciprocal
        <3>2. 1 * 1 > 0 * (RRF_K + p)
            BY RetrievalAssumption
        <3>3. QED
            BY <3>1, <3>2
    <2>2. CASE q # 0
        <3>1. Reciprocal(p) = <<1, RRF_K + p>> /\ Reciprocal(q) = <<1, RRF_K + q>> /\ p < q
            BY <1>2, <2>2 DEF Reciprocal
        <3>2. QED
            BY <3>1, RetrievalAssumption
    <2>3. QED
        BY <2>1, <2>2
<1>3. x[1] * u[2] > u[1] * x[2] /\ y[1] * v[2] > v[1] * y[2]
    BY <1>2 DEF Rated
<1> HIDE DEF x, y, u, v
<1>4. (x[1] * y[2] + y[1] * x[2]) * (u[2] * v[2]) >
          (u[1] * v[2] + v[1] * u[2]) * (x[2] * y[2])
    BY <1>1, <1>3, SumsKeepMore
<1>5. /\ FusedScore(e) = <<x[1] * y[2] + y[1] * x[2], x[2] * y[2]>>
      /\ FusedScore(d) = <<u[1] * v[2] + v[1] * u[2], u[2] * v[2]>>
    BY DEF FusedScore, x, y, u, v
<1>6. QED
    BY <1>4, <1>5 DEF Outranks

\* Two reciprocals down to rank RRF_K + 1 add up to more than any one.
LEMMA TwoBeatOne ==
    ASSUME NEW a \in Nat, NEW b \in Nat, NEW c \in Nat, NEW k \in Nat,
           k < a, k < b, k < c, a <= 2 * k + 1, b <= 2 * k + 1
    PROVE  (a + b) * c > a * b
<1>1. 2 * c > a /\ 2 * c > b
    OBVIOUS
<1>2. (2 * c) * b > a * b /\ (2 * c) * a > b * a
    BY <1>1, TimesKeepsMore
<1>3. (2 * c) * b + (2 * c) * a = 2 * ((a + b) * c) /\ b * a = a * b
    OBVIOUS
<1>4. /\ (2 * c) * b \in Nat /\ (2 * c) * a \in Nat /\ a * b \in Nat
      /\ (a + b) * c \in Nat
    OBVIOUS
<1>5. QED
    BY <1>2, <1>3, <1>4

\* What both found outranks what one found, as long as neither ranking goes
\* on beyond RRF_K + 1 entries: there the bottom of both ties with the top of
\* one, and beyond it falls behind.
LEMMA CorroboratedOutranks ==
    ASSUME NEW e, Rated(e), NEW d, Rated(d),
           e.lexical_rank \in 1..(RRF_K + 1), e.semantic_rank \in 1..(RRF_K + 1),
           (d.lexical_rank = 0) # (d.semantic_rank = 0)
    PROVE  Outranks(e, d)
<1> DEFINE a == RRF_K + e.lexical_rank
           b == RRF_K + e.semantic_rank
           c == RRF_K + d.lexical_rank + d.semantic_rank
<1>1. /\ a \in Nat /\ b \in Nat /\ c \in Nat /\ RRF_K < a /\ RRF_K < b /\ RRF_K < c
      /\ a <= 2 * RRF_K + 1 /\ b <= 2 * RRF_K + 1
    BY RetrievalAssumption DEF Rated
<1>2. FusedScore(e) = <<a + b, a * b>>
    <2>1. /\ Reciprocal(e.lexical_rank) = <<1, a>>
          /\ Reciprocal(e.semantic_rank) = <<1, b>>
        BY DEF Reciprocal
    <2>2. 1 * b + 1 * a = a + b
        BY <1>1
    <2>3. QED
        BY <2>1, <2>2 DEF FusedScore
<1>3. FusedScore(d) = <<1, c>>
    <2>1. CASE d.lexical_rank = 0
        <3>1. /\ Reciprocal(d.lexical_rank) = <<0, 1>>
              /\ Reciprocal(d.semantic_rank) = <<1, c>>
            BY <2>1, RetrievalAssumption DEF Reciprocal, Rated
        <3>2. QED
            BY <1>1, <3>1 DEF FusedScore
    <2>2. CASE d.lexical_rank # 0
        <3>1. /\ Reciprocal(d.lexical_rank) = <<1, c>>
              /\ Reciprocal(d.semantic_rank) = <<0, 1>>
            BY <2>2, RetrievalAssumption DEF Reciprocal, Rated
        <3>2. QED
            BY <1>1, <3>1 DEF FusedScore
    <2>3. QED
        BY <2>1, <2>2
<1> HIDE DEF a, b, c
<1>4. (a + b) * c > a * b
    BY <1>1, RetrievalAssumption, TwoBeatOne
<1>5. (a + b) * c > 1 * (a * b)
    BY <1>1, <1>4
<1>6. QED
    BY <1>2, <1>3, <1>5 DEF Outranks

\* With nothing found by meaning the words' order stands.
LEMMA WordsAloneOutrank ==
    ASSUME NEW e, Rated(e), NEW d, Rated(d), e.semantic_rank = 0, d.semantic_rank = 0,
           e.lexical_rank # 0, e.lexical_rank < d.lexical_rank
    PROVE  Outranks(e, d)
<1>1. ASSUME NEW h, Rated(h), h.semantic_rank = 0, h.lexical_rank # 0
      PROVE  FusedScore(h) = <<1, RRF_K + h.lexical_rank>>
    <2>1. /\ Reciprocal(h.lexical_rank) = <<1, RRF_K + h.lexical_rank>>
          /\ Reciprocal(h.semantic_rank) = <<0, 1>>
        BY <1>1 DEF Reciprocal
    <2>2. RRF_K + h.lexical_rank \in Nat
        BY <1>1, RetrievalAssumption DEF Rated
    <2>3. QED
        BY <2>1, <2>2 DEF FusedScore
<1>2. e.lexical_rank \in Nat /\ d.lexical_rank \in Nat /\ d.lexical_rank # 0
    BY DEF Rated
<1>3. /\ FusedScore(e) = <<1, RRF_K + e.lexical_rank>>
      /\ FusedScore(d) = <<1, RRF_K + d.lexical_rank>>
    BY <1>1, <1>2
<1>4. 1 * (RRF_K + d.lexical_rank) > 1 * (RRF_K + e.lexical_rank)
    BY <1>2, RetrievalAssumption
<1>5. QED
    BY <1>3, <1>4 DEF Outranks

-----------------------------------------------------------------------------
(* The page and its relevance *)

LEMMA HitsOnThePage ==
    ASSUME NEW lexical, IsRanking(lexical), NEW semantic, IsRanking(semantic),
           NEW h \in ToSet(Search(lexical, semantic))
    PROVE  /\ h = Hit(lexical, semantic, h.entry)
           /\ h \in Findings(lexical, semantic)
           /\ h.entry \in ToSet(lexical) \cup ToSet(semantic)
           /\ h.lexical_rank = RankIn(lexical, h.entry)
           /\ h.semantic_rank = RankIn(semantic, h.entry)
<1>1. h \in Findings(lexical, semantic)
    <2>1. Search(lexical, semantic) \in Seq(Findings(lexical, semantic))
        BY SearchFacts
    <2>2. QED
        BY <2>1 DEF ToSet
<1>2. QED
    BY <1>1 DEF Findings, Hit

LEMMA LeadersAreFirst ==
    ASSUME NEW ranking, IsRanking(ranking), NEW e, RankIn(ranking, e) = 1
    PROVE  ranking # <<>> /\ e = ranking[1]
<1>1. e \in ToSet(ranking) /\ ranking[1] = e
    BY RankFacts
<1>2. QED
    BY <1>1 DEF ToSet

\* An entry every other finding is outranked by leads the page.
LEMMA BestLeadsThePage ==
    ASSUME NEW lexical, IsRanking(lexical), NEW semantic, IsRanking(semantic),
           Search(lexical, semantic) # <<>>, NEW a \in Findings(lexical, semantic),
           \A d \in Findings(lexical, semantic) \ {a} : Outranks(a, d)
    PROVE  Search(lexical, semantic)[1] = a
<1> DEFINE page == Search(lexical, semantic)
<1>1. 1 \in 1..Len(page) /\ page[1] \in Findings(lexical, semantic)
    <2>1. page \in Seq(Findings(lexical, semantic))
        BY SearchFacts
    <2>2. QED
        BY <2>1
<1>2. ASSUME page[1] # a
      PROVE  FALSE
    <2>1. Outranks(a, page[1])
        BY <1>1, <1>2
    <2>2. \E i \in 1..Len(page) : i < 1 /\ page[i] = a
        BY <1>1, <2>1, PageKeepsTheOrder
    <2>3. QED
        BY <2>2
<1>3. QED
    BY <1>2

\* What both rankings lead with leads the page.
LEMMA CommonLeaderIsCited ==
    ASSUME NEW lexical, IsRanking(lexical), NEW semantic, IsRanking(semantic),
           lexical # <<>>, semantic # <<>>, lexical[1] = semantic[1],
           Search(lexical, semantic) # <<>>
    PROVE  Search(lexical, semantic)[1] = Hit(lexical, semantic, lexical[1])
<1> DEFINE best == Hit(lexical, semantic, lexical[1])
<1>1. 1 \in 1..Len(lexical) /\ 1 \in 1..Len(semantic)
    BY DEF IsRanking
<1>2. RankIn(lexical, lexical[1]) = 1 /\ RankIn(semantic, lexical[1]) = 1
    BY <1>1, RankFacts
<1>3. lexical[1] \in ToSet(lexical)
    BY <1>2, RankFacts
<1>4. best \in Findings(lexical, semantic) /\ best.lexical_rank = 1 /\ best.semantic_rank = 1
    BY <1>2, <1>3 DEF Findings, Hit
<1>5. ASSUME NEW d \in Findings(lexical, semantic) \ {best}
      PROVE  Outranks(best, d)
    <2>1. PICK e \in ToSet(lexical) \cup ToSet(semantic) : d = Hit(lexical, semantic, e)
        BY DEF Findings
    <2>2. e # lexical[1]
        BY <1>5, <2>1
    <2>3. d.lexical_rank = RankIn(lexical, e) /\ d.semantic_rank = RankIn(semantic, e)
        BY <2>1 DEF Hit
    <2>4. /\ d.lexical_rank \in Nat /\ d.lexical_rank # 1
          /\ d.semantic_rank \in Nat /\ d.semantic_rank # 1
        BY <2>2, <2>3, RankFacts, LeadersAreFirst DEF IsRanking
    <2>5. Rated(best) /\ Rated(d)
        BY <1>4, InsertedOnce
    <2>6. QED
        BY <1>4, <2>4, <2>5, PreferredOutranks
<1>6. QED
    BY <1>4, <1>5, BestLeadsThePage

\* What a page rated good enough to answer from shows: the words' first entry
\* is on it, and for the best rating it is the meaning's first entry as well.
LEMMA RelevanceShows ==
    ASSUME NEW lexical, IsRanking(lexical), NEW semantic, IsRanking(semantic),
           RelevanceOf(Search(lexical, semantic)) \in {READY, ACCEPTABLE}
    PROVE  /\ Search(lexical, semantic) # <<>>
           /\ lexical # <<>>
           /\ RelevanceOf(Search(lexical, semantic)) = READY =>
                  semantic # <<>> /\ lexical[1] = semantic[1]
           /\ RelevanceOf(Search(lexical, semantic)) = ACCEPTABLE =>
                  \A h \in ToSet(Search(lexical, semantic)) : h.semantic_rank # 1
<1> DEFINE page          == Search(lexical, semantic)
           wordsFirst    == {g \in ToSet(page) : g.lexical_rank = 1}
           meaningFirst  == {g \in ToSet(page) : g.semantic_rank = 1}
           lexicalFirst  == {h.entry : h \in wordsFirst}
           semanticFirst == {h.entry : h \in meaningFirst}
<1>1. RelevanceOf(page) =
          CASE page = <<>>                               -> UNUSABLE
            [] page # <<>> /\ lexicalFirst = {}          -> REVIEW_ONLY
            [] lexicalFirst # {} /\ semanticFirst = {}   -> ACCEPTABLE
            [] lexicalFirst # {} /\ lexicalFirst = semanticFirst -> READY
            [] OTHER                                     -> REVIEW_ONLY
    BY DEF RelevanceOf
<1>2. page = <<>> => lexicalFirst = {}
    BY DEF ToSet
<1> HIDE DEF page, lexicalFirst, semanticFirst
<1>3. /\ page # <<>> /\ lexicalFirst # {}
      /\ RelevanceOf(page) = READY => lexicalFirst = semanticFirst
      /\ RelevanceOf(page) = ACCEPTABLE => semanticFirst = {}
    <2>1. RelevanceOf(page) \in {2, 3}
        BY DEF page, READY, ACCEPTABLE
    <2>2. QED
        BY <1>1, <1>2, <2>1 DEF UNUSABLE, REVIEW_ONLY, ACCEPTABLE, READY
<1>4. PICK h \in ToSet(page) : h.lexical_rank = 1
    BY <1>3 DEF lexicalFirst
<1>5. lexical # <<>> /\ h.entry = lexical[1]
    BY <1>4, HitsOnThePage, LeadersAreFirst DEF page
<1>6. ASSUME RelevanceOf(page) = READY
      PROVE  semantic # <<>> /\ lexical[1] = semantic[1]
    <2>1. h.entry \in semanticFirst
        BY <1>3, <1>4, <1>6 DEF lexicalFirst
    <2>2. PICK g \in ToSet(page) : g.semantic_rank = 1 /\ g.entry = h.entry
        BY <2>1 DEF semanticFirst
    <2>3. QED
        BY <1>5, <2>2, HitsOnThePage, LeadersAreFirst DEF page
<1>7. ASSUME RelevanceOf(page) = ACCEPTABLE
      PROVE  \A g \in ToSet(page) : g.semantic_rank # 1
    BY <1>3, <1>7 DEF semanticFirst
<1>8. QED
    BY <1>3, <1>5, <1>6, <1>7 DEF page

=============================================================================
