----------------------- MODULE KalamelaResults_proofs -----------------------
(***************************************************************************)
(* Proofs about KalamelaResults.  That the loop of the ranking gives every *)
(* card its place among the marks - one more than the number of better     *)
(* ones - is proved for every list the ranking may read; from it, that     *)
(* recalculations put events in order, and from the place, that points     *)
(* follow marks.                                                           *)
(***************************************************************************)
EXTENDS KalamelaResults, FiniteSetTheorems, NaturalsInduction, TLAPS

-----------------------------------------------------------------------------
(* Numbers and finite sets.                                                *)

LEMMA FirstOf ==
  ASSUME NEW I, I \subseteq Nat, I # {}
  PROVE  \E i \in I : \A j \in I : i <= j
<1>1. \E x \in I : \A y \in I : ~(<<y, x>> \in OpToRel(<, Nat))
  BY NatLessThanWellFounded, WFMin
<1>2. PICK x \in I : \A y \in I : ~(<<y, x>> \in OpToRel(<, Nat))
  BY <1>1
<1>3. ASSUME NEW y \in I  PROVE x <= y
  <2>1. x \in Nat /\ y \in Nat
    OBVIOUS
  <2>2. ~(y < x)
    BY <1>2, <2>1 DEF OpToRel
  <2>3. QED
    BY <2>1, <2>2
<1>4. QED
  BY <1>3

LEMMA LastOf ==
  ASSUME NEW n \in Nat, NEW I, I \subseteq 0 .. n, I # {}
  PROVE  \E i \in I : \A j \in I : j <= i
<1> DEFINE below == {n - i : i \in I}
<1>1. \A i \in I : i \in Nat /\ n - i \in Nat
  OBVIOUS
<1>2. below \subseteq Nat /\ below # {}
  BY <1>1
<1> HIDE DEF below
<1>3. PICK x \in below : \A y \in below : x <= y
  BY <1>2, FirstOf
<1>4. PICK i \in I : x = n - i
  BY DEF below
<1>5. ASSUME NEW j \in I  PROVE j <= i
  <2>1. n - j \in below
    BY DEF below
  <2>2. n - i <= n - j
    BY <1>3, <1>4, <2>1
  <2>3. QED
    BY <1>1, <2>2
<1>6. QED
  BY <1>5

LEMMA LastIsMax ==
  ASSUME NEW n \in Nat, NEW I, I \subseteq 0 .. n, I # {}
  PROVE  Max(I) \in I /\ \A j \in I : j <= Max(I)
<1>1. \E x \in I : \A y \in I : x >= y
  <2>1. PICK i \in I : \A j \in I : j <= i
    BY LastOf
  <2>2. \A j \in I : i \in Int /\ j \in Int
    OBVIOUS
  <2>3. QED
    BY <2>1, <2>2
<1>2. Max(I) \in I /\ \A y \in I : Max(I) >= y
  BY <1>1 DEF Max
<1>3. QED
  BY <1>2

-----------------------------------------------------------------------------
(* The loop of the ranking.                                                *)

(* A list of a set in descending order has every element once.             *)
LEMMA DescendingLists ==
  ASSUME NEW S, IsFiniteSet(S), NEW mark, NEW order \in Descending(S, mark)
  PROVE  /\ Cardinality(S) \in Nat
         /\ order \in [1 .. Cardinality(S) -> S]
         /\ IsInjective(order)
         /\ \A x \in S : \E k \in 1 .. Cardinality(S) : order[k] = x
<1>1. Cardinality(S) \in Nat
  BY FS_CardinalityType
<1>2. order \in [1 .. Cardinality(S) -> S] /\ IsInjective(order)
  BY DEF Descending
<1>3. order \in Injection(1 .. Cardinality(S), S)
  BY <1>2 DEF Injection
<1>4. Cardinality(1 .. Cardinality(S)) = Cardinality(S)
  BY <1>1, FS_Interval
<1>5. order \in Surjection(1 .. Cardinality(S), S)
  BY <1>3, <1>4, FS_Injection
<1>6. QED
  BY <1>1, <1>2, <1>5 DEF Surjection

(* Where the marks last fell before k: everything before is better than k, *)
(* everything from there to k is as good.                                  *)
LEMMA CurrentRankSplits ==
  ASSUME NEW S, IsFiniteSet(S), NEW mark \in [S -> Int],
         NEW order \in Descending(S, mark), NEW k \in 1 .. Cardinality(S)
  PROVE  /\ CurrentRank(order, mark, k) \in 1 .. k
         /\ \A j \in 1 .. Cardinality(S) :
              mark[order[j]] > mark[order[k]] <=> j < CurrentRank(order, mark, k)
<1> DEFINE n == Cardinality(S)
           falls == {1} \union {j \in 2 .. k : mark[order[j]] < mark[order[j - 1]]}
           m(j) == mark[order[j]]
<1> PICK r : r = CurrentRank(order, mark, k)
  OBVIOUS
<1>1. n \in Nat /\ order \in [1 .. n -> S]
  BY DescendingLists
<1>2. \A j \in 1 .. n : m(j) \in Int
  BY <1>1
<1>3. \A i, j \in 1 .. n : i <= j => m(i) >= m(j)
  <2>1. \A i, j \in DOMAIN order : i < j => m(i) >= m(j)
    BY DEF Descending
  <2>2. QED
    BY <1>1, <1>2, <2>1
<1>4. r \in falls /\ \A j \in falls : j <= r
  <2>1. falls \subseteq 0 .. k /\ falls # {} /\ k \in Nat
    BY <1>1
  <2>2. r = Max(falls)
    BY DEF CurrentRank
  <2> HIDE DEF falls
  <2>3. QED
    BY <2>1, <2>2, LastIsMax
<1>5. r \in 1 .. k /\ k \in 1 .. n
  BY <1>1, <1>4
<1>6. \A j \in r .. k : m(j) = m(r)
  <2> DEFINE bad == {j \in r .. k : m(j) # m(r)}
  <2> SUFFICES ASSUME bad # {}  PROVE FALSE
    OBVIOUS
  <2>1. bad \subseteq Nat
    BY <1>1, <1>5
  <2>2. PICK i \in bad : \A j \in bad : i <= j
    <3> HIDE DEF bad
    <3> QED BY <2>1, FirstOf
  <2>3. i \in r .. k /\ i # r /\ m(i) # m(r)
    BY <2>2
  <2>4. i - 1 \in r .. k /\ i \in 2 .. k /\ i - 1 \in 1 .. n /\ i \in 1 .. n
    BY <1>1, <1>5, <2>3
  <2>5. m(i - 1) = m(r)
    <3>1. i - 1 \notin bad
      BY <2>2, <2>4
    <3>2. QED
      BY <2>4, <3>1
  <2>6. i \notin falls
    BY <1>4, <1>5, <2>3
  <2>7. ~(m(i) < m(i - 1))
    BY <2>4, <2>6
  <2>8. m(i - 1) >= m(i)
    BY <1>3, <2>4
  <2>9. QED
    BY <1>2, <2>3, <2>4, <2>5, <2>7, <2>8
<1>7. m(k) = m(r)
  BY <1>5, <1>6
<1>8. ASSUME NEW j \in 1 .. n  PROVE m(j) > m(k) <=> j < r
  <2>1. CASE j < r
    <3>1. r # 1 /\ r - 1 \in 1 .. n /\ j <= r - 1 /\ r \in 1 .. n
      BY <1>1, <1>5, <2>1
    <3>2. m(r) < m(r - 1)
      BY <1>4, <3>1
    <3>3. m(j) >= m(r - 1)
      BY <1>3, <3>1
    <3>4. QED
      BY <1>2, <1>7, <2>1, <3>1, <3>2, <3>3
  <2>2. CASE ~(j < r)
    <3>1. r <= j /\ r \in 1 .. n
      BY <1>1, <1>5, <2>2
    <3>2. m(r) >= m(j)
      BY <1>3, <3>1
    <3>3. QED
      BY <1>2, <1>7, <2>2, <3>1, <3>2
  <2>3. QED
    BY <2>1, <2>2
<1>9. QED
  BY <1>5, <1>8

(* The rank the loop gives is the place among the marks.                   *)
LEMMA RankIsPlace ==
  ASSUME NEW S, IsFiniteSet(S), NEW mark \in [S -> Int],
         NEW order \in Descending(S, mark), NEW x \in S,
         NEW p, p = 1 + Cardinality({y \in S : mark[y] > mark[x]})
  PROVE  PlaceOf(order, mark, x) = IF p <= 3 THEN p ELSE 0
<1> DEFINE n == Cardinality(S)
           better == {y \in S : mark[y] > mark[x]}
<1>1. /\ n \in Nat /\ order \in [1 .. n -> S] /\ IsInjective(order)
      /\ \A y \in S : \E k \in 1 .. n : order[k] = y
  BY DescendingLists
<1> PICK k : k = CHOOSE i \in DOMAIN order : order[i] = x
  OBVIOUS
<1>2. k \in 1 .. n /\ order[k] = x
  BY <1>1
<1> PICK r : r = CurrentRank(order, mark, k)
  OBVIOUS
<1>3. /\ r \in 1 .. k
      /\ \A j \in 1 .. n : mark[order[j]] > mark[x] <=> j < r
  BY <1>2, CurrentRankSplits
<1> DEFINE first == [j \in 1 .. (r - 1) |-> order[j]]
<1>4. 1 .. (r - 1) \subseteq 1 .. n /\ r - 1 \in Nat
  <2>1. n \in Nat /\ k \in 1 .. n /\ r \in 1 .. k
    BY <1>1, <1>2, <1>3
  <2> HIDE DEF n
  <2>2. n \in Int /\ r \in Int /\ 1 <= r /\ r <= n
    BY <2>1
  <2>3. r - 1 \in Nat
    BY <2>2
  <2>4. \A j \in 1 .. (r - 1) : j \in 1 .. n
    BY <2>2
  <2>5. QED
    BY <2>3, <2>4
<1>5. \A j \in 1 .. n : order[j] \in better <=> j \in 1 .. (r - 1)
  BY <1>1, <1>3
<1>6. first \in Bijection(1 .. (r - 1), better)
  <2>1. first \in [1 .. (r - 1) -> better]
    BY <1>4, <1>5
  <2>2. IsInjective(first)
    BY <1>1, <1>4 DEF IsInjective
  <2>3. ASSUME NEW y \in better  PROVE \E j \in 1 .. (r - 1) : first[j] = y
    <3>1. PICK j \in 1 .. n : order[j] = y
      BY <1>1
    <3>2. QED
      BY <1>5, <3>1
  <2>4. QED
    BY <2>1, <2>2, <2>3 DEF Bijection, Injection, Surjection
<1>7. Cardinality(better) = r - 1
  <2>1. IsFiniteSet(1 .. (r - 1)) /\ Cardinality(1 .. (r - 1)) = r - 1
    BY <1>4, FS_Interval
  <2>2. QED
    BY <1>6, <2>1, FS_Bijection DEF ExistsBijection
<1>8. p = r
  <2>1. p = 1 + Cardinality(better) /\ r \in Int
    BY <1>3
  <2> HIDE DEF better
  <2>2. QED
    BY <1>7, <2>1
<1>9. QED
  BY <1>1, <1>2, <1>8 DEF PlaceOf, Places

-----------------------------------------------------------------------------
(* Cards and their types.                                                  *)

LEMMA RankPointsRange ==
  /\ \A m \in Int : GradePoints(m) \in 0 .. 5
  /\ \A r \in Int : RankPoints(r) \in 0 .. 5
  /\ \A v : \A m \in Int, r \in Int : Total(v, m, r) \in 0 .. 10
<1>1. \A m \in Int : GradePoints(m) \in 0 .. 5
  BY DEF GradePoints
<1>2. \A r \in Int : RankPoints(r) \in 0 .. 5
  BY DEF RankPoints
<1>3. QED
  BY <1>1, <1>2 DEF Total

LEMMA CardsFinite ==
  ASSUME ResultsTypeOK
  PROVE  /\ IsFiniteSet(Ids) /\ IsFiniteSet(DOMAIN cards)
         /\ FreeIds \subseteq Ids /\ IsFiniteSet(FreeIds)
         /\ \A v : IsFiniteSet(CardsOf(v))
<1>1. IsFiniteSet(Ids)
  BY FS_Interval, ResultsAssumption DEF Ids
<1>2. FreeIds \subseteq Ids
  BY DEF FreeIds
<1>3. IsFiniteSet(DOMAIN cards) /\ IsFiniteSet(FreeIds)
  BY <1>1, <1>2, FS_Subset DEF ResultsTypeOK, IsTable
<1>4. ASSUME NEW v  PROVE IsFiniteSet(CardsOf(v))
  <2>1. CardsOf(v) \subseteq DOMAIN cards
    BY DEF CardsOf
  <2>2. QED
    BY <1>3, <2>1, FS_Subset
<1>5. QED
  BY <1>1, <1>2, <1>3, <1>4

LEMMA CardsTyped ==
  ASSUME ResultsTypeOK, NEW i \in DOMAIN cards
  PROVE  /\ i \in Ids
         /\ cards[i] \in Card
         /\ cards[i].event \in Events /\ cards[i].who \in Chests
         /\ cards[i].mark \in Marks /\ cards[i].mark \in 0 .. 100
  BY ResultsAssumption DEF ResultsTypeOK, IsTable, Card

(* A smaller finite set has its own element of a larger one for each of    *)
(* its elements.                                                           *)
LEMMA SmallerInjects ==
  ASSUME NEW S, NEW T, IsFiniteSet(S), IsFiniteSet(T),
         Cardinality(S) <= Cardinality(T)
  PROVE  \E f \in [S -> T] : \A x, y \in S : x # y => f[x] # f[y]
<1> DEFINE n == Cardinality(S)
<1>1. n \in Nat /\ Cardinality(T) \in Nat
  BY FS_CardinalityType
<1>2. PICK a \in Bijection(1 .. n, S) : TRUE
  BY FS_CardinalityType DEF ExistsBijection
<1>3. PICK b \in Bijection(1 .. Cardinality(T), T) : TRUE
  BY FS_CardinalityType DEF ExistsBijection
<1>4. /\ \A x \in S : \E k \in 1 .. n : a[k] = x
      /\ b \in [1 .. Cardinality(T) -> T] /\ IsInjective(b)
  BY <1>2, <1>3 DEF Bijection, Injection, Surjection
<1> DEFINE pos(x) == CHOOSE k \in 1 .. n : a[k] = x
<1>5. \A x \in S : pos(x) \in 1 .. n /\ a[pos(x)] = x
  BY <1>4
<1> HIDE DEF pos
<1>6. \A x \in S : pos(x) \in 1 .. Cardinality(T)
  BY <1>1, <1>5
<1>7. [x \in S |-> b[pos(x)]] \in [S -> T]
  BY <1>4, <1>6
<1>8. ASSUME NEW x \in S, NEW y \in S, x # y  PROVE b[pos(x)] # b[pos(y)]
  BY <1>4, <1>5, <1>6, <1>8 DEF IsInjective
<1>9. QED
  BY <1>7, <1>8

(* A batch adds a card to the event for each of its chest numbers.         *)
CardsMade(v, batch, rank, points) ==
  /\ DOMAIN cards \subseteq DOMAIN cards' /\ DOMAIN cards' \subseteq Ids
  /\ DOMAIN cards' # DOMAIN cards /\ DOMAIN cards' \ DOMAIN cards \subseteq FreeIds
  /\ \A i \in DOMAIN cards : cards'[i] = cards[i]
  /\ \A i \in DOMAIN cards' \ DOMAIN cards : \E w \in DOMAIN batch :
       cards'[i] = [event |-> v, who |-> w, mark |-> batch[w],
                    rank |-> rank[w], points |-> points[w], open |-> TRUE]

LEMMA NewCards ==
  ASSUME ResultsTypeOK, NEW v \in Events, NEW batch \in Batches(v),
         Cardinality(DOMAIN batch) <= Cardinality(FreeIds),
         NEW rank, NEW points, cards' = WithNewCards(v, batch, rank, points)
  PROVE  /\ CardsMade(v, batch, rank, points)
         /\ DOMAIN batch \subseteq Chests /\ IsFiniteSet(DOMAIN batch)
         /\ batch \in [DOMAIN batch -> Marks]
<1>1. PICK W \in (SUBSET Candidates(v)) \ {{}} : batch \in [W -> Marks]
  BY DEF Batches
<1>2. DOMAIN batch = W /\ W # {} /\ W \subseteq Chests
  BY <1>1 DEF Candidates, Chests
<1>3. IsFiniteSet(W)
  BY <1>2, FS_Subset, ResultsAssumption DEF Chests
<1> PICK new : new = CHOOSE f \in [W -> FreeIds] : \A x, y \in W : x # y => f[x] # f[y]
  OBVIOUS
<1>4. new \in [W -> FreeIds] /\ \A x, y \in W : x # y => new[x] # new[y]
  BY <1>2, <1>3, CardsFinite, SmallerInjects
<1> DEFINE at == {new[w] : w \in W}
           made(w) == [event |-> v, who |-> w, mark |-> batch[w],
                       rank |-> rank[w], points |-> points[w], open |-> TRUE]
<1>5. cards' = [i \in DOMAIN cards \union at |->
                  IF i \in DOMAIN cards THEN cards[i]
                  ELSE made(CHOOSE w \in W : new[w] = i)]
  BY <1>2 DEF WithNewCards
<1> HIDE DEF made
<1>6. at # {} /\ at \subseteq FreeIds
  <2>1. PICK w \in W : TRUE
    BY <1>2
  <2>2. new[w] \in at
    OBVIOUS
  <2>3. QED
    BY <1>4, <2>2
<1>7. /\ DOMAIN cards' = DOMAIN cards \union at
      /\ \A i \in DOMAIN cards : cards'[i] = cards[i]
      /\ \A i \in at \ DOMAIN cards : \E w \in W : cards'[i] = made(w)
  <2>1. /\ DOMAIN cards' = DOMAIN cards \union at
        /\ \A i \in DOMAIN cards : cards'[i] = cards[i]
        /\ \A i \in at \ DOMAIN cards : cards'[i] = made(CHOOSE w \in W : new[w] = i)
    BY <1>5
  <2>2. \A i \in at : (CHOOSE w \in W : new[w] = i) \in W
    OBVIOUS
  <2>3. QED
    BY <2>1, <2>2
<1>8. DOMAIN cards \subseteq Ids /\ at \subseteq Ids /\ at \intersect DOMAIN cards = {}
  BY <1>6 DEF ResultsTypeOK, IsTable, FreeIds
<1>9. QED
  BY <1>1, <1>2, <1>3, <1>6, <1>7, <1>8 DEF made, CardsMade

(* Ranks given within a batch are places.                                  *)
LEMMA BatchRanks ==
  ASSUME NEW W, IsFiniteSet(W), NEW batch \in [W -> Marks],
         NEW order \in Descending(W, batch), NEW w \in W
  PROVE  PlaceOf(order, batch, w) \in 0 .. 3
<1> DEFINE better == {y \in W : batch[y] > batch[w]}
<1>1. batch \in [W -> Int]
  <2>1. Marks \subseteq Int
    BY ResultsAssumption
  <2>2. QED
    BY <2>1
<1>2. Cardinality(better) \in Nat
  BY FS_Subset, FS_CardinalityType
<1> HIDE DEF better
<1>3. 1 + Cardinality(better) \in Nat \ {0}
  BY <1>2
<1>4. PlaceOf(order, batch, w) =
        IF 1 + Cardinality(better) <= 3 THEN 1 + Cardinality(better) ELSE 0
  BY <1>1, RankIsPlace DEF better
<1>5. QED
  BY <1>2, <1>4

(* Adding scores, ranked among themselves or not at all.                   *)
LEMMA ScoresAdded ==
  ASSUME ResultsTypeOK, NEW v \in Events, NEW batch \in Batches(v),
         AddScores(v, batch) \/ AddUnranked(v, batch)
  PROVE  /\ DOMAIN cards \subseteq DOMAIN cards' /\ DOMAIN cards' \subseteq Ids
         /\ DOMAIN cards' # DOMAIN cards /\ DOMAIN cards' \ DOMAIN cards \subseteq FreeIds
         /\ \A i \in DOMAIN cards : cards'[i] = cards[i]
         /\ \A i \in DOMAIN cards' \ DOMAIN cards :
              cards'[i] \in Card /\ cards'[i].event = v
         /\ UNCHANGED <<appeals, calls, filing>>
<1>1. PICK rank \in [DOMAIN batch -> 0 .. 3] :
             /\ Cardinality(DOMAIN batch) <= Cardinality(FreeIds)
             /\ cards' = WithNewCards(v, batch, rank,
                           [w \in DOMAIN batch |-> Total(v, batch[w], rank[w])])
             /\ UNCHANGED <<appeals, calls, filing>>
  <2>1. CASE AddUnranked(v, batch)
    <3> DEFINE none == [w \in DOMAIN batch |-> 0]
    <3>1. /\ Cardinality(DOMAIN batch) <= Cardinality(FreeIds)
          /\ cards' = WithNewCards(v, batch, none,
                        [w \in DOMAIN batch |-> Total(v, batch[w], 0)])
          /\ UNCHANGED <<appeals, calls, filing>>
      BY <2>1 DEF AddUnranked
    <3>2. [w \in DOMAIN batch |-> Total(v, batch[w], 0)]
            = [w \in DOMAIN batch |-> Total(v, batch[w], none[w])]
      OBVIOUS
    <3>3. none \in [DOMAIN batch -> 0 .. 3]
      OBVIOUS
    <3> HIDE DEF none
    <3>4. QED
      BY <3>1, <3>2, <3>3
  <2>2. CASE AddScores(v, batch)
    <3>1. PICK order \in Descending(DOMAIN batch, batch) :
            cards' = WithNewCards(v, batch,
                       [w \in DOMAIN batch |-> PlaceOf(order, batch, w)],
                       [w \in DOMAIN batch |->
                          Total(v, batch[w], [x \in DOMAIN batch |-> PlaceOf(order, batch, x)][w])])
      BY <2>2 DEF AddScores
    <3> DEFINE rank == [w \in DOMAIN batch |-> PlaceOf(order, batch, w)]
    <3>2. Cardinality(DOMAIN batch) <= Cardinality(FreeIds)
          /\ UNCHANGED <<appeals, calls, filing>>
      BY <2>2 DEF AddScores
    <3>3. IsFiniteSet(DOMAIN batch) /\ batch \in [DOMAIN batch -> Marks]
      BY <3>1, <3>2, NewCards
    <3>4. rank \in [DOMAIN batch -> 0 .. 3]
      BY <3>3, BatchRanks
    <3>5. QED
      BY <3>1, <3>2, <3>4
  <2>3. QED
    BY <2>1, <2>2
<1> DEFINE points == [w \in DOMAIN batch |-> Total(v, batch[w], rank[w])]
<1>0. /\ cards' = WithNewCards(v, batch, rank, points)
      /\ Cardinality(DOMAIN batch) <= Cardinality(FreeIds)
  BY <1>1
<1> HIDE DEF points
<1>2. /\ CardsMade(v, batch, rank, points)
      /\ DOMAIN batch \subseteq Chests
      /\ batch \in [DOMAIN batch -> Marks]
  BY <1>0, NewCards
<1>3. ASSUME NEW w \in DOMAIN batch
      PROVE  [event |-> v, who |-> w, mark |-> batch[w],
              rank |-> rank[w], points |-> points[w], open |-> TRUE] \in Card
  <2>1. batch[w] \in Marks /\ batch[w] \in Int /\ rank[w] \in 0 .. 3
    BY <1>1, <1>2, ResultsAssumption
  <2>2. points[w] \in 0 .. 10
    BY <2>1, RankPointsRange DEF points
  <2>3. QED
    BY <1>2, <2>1, <2>2 DEF Card
<1>4. ASSUME NEW i \in DOMAIN cards' \ DOMAIN cards
      PROVE  cards'[i] \in Card /\ cards'[i].event = v
  <2>1. PICK w \in DOMAIN batch :
               cards'[i] = [event |-> v, who |-> w, mark |-> batch[w],
                            rank |-> rank[w], points |-> points[w], open |-> TRUE]
    BY <1>2 DEF CardsMade
  <2>2. QED
    BY <1>3, <2>1
<1>5. QED
  BY <1>1, <1>2, <1>4 DEF CardsMade

-----------------------------------------------------------------------------
(* What a recalculation does.                                              *)

RankAmong(v, i) == IF PlaceAmong(v, i) <= 3 THEN PlaceAmong(v, i) ELSE 0

LEMMA PlacesAreNumbers ==
  ASSUME ResultsTypeOK, NEW v, NEW i
  PROVE  /\ PlaceAmong(v, i) \in Nat \ {0}
         /\ RankAmong(v, i) \in 0 .. 3
<1> DEFINE better == {j \in CardsOf(v) : cards[j].mark > cards[i].mark}
<1>1. Cardinality(better) \in Nat
  BY CardsFinite, FS_Subset, FS_CardinalityType
<1> HIDE DEF better
<1>2. PlaceAmong(v, i) = 1 + Cardinality(better)
  BY DEF PlaceAmong, better
<1>3. QED
  BY <1>1, <1>2 DEF RankAmong

LEMMA PlaceOfCard ==
  ASSUME ResultsTypeOK, NEW v, NEW order \in Descending(CardsOf(v), MarksOf(v)),
         NEW i \in CardsOf(v)
  PROVE  PlaceOf(order, MarksOf(v), i) = RankAmong(v, i)
<1>1. MarksOf(v) \in [CardsOf(v) -> Int] /\ IsFiniteSet(CardsOf(v))
  <2>1. \A j \in CardsOf(v) : cards[j].mark \in Int
    BY CardsTyped DEF CardsOf
  <2>2. QED
    BY <2>1, CardsFinite DEF MarksOf
<1>2. \A j \in CardsOf(v) : MarksOf(v)[j] = cards[j].mark
  BY DEF MarksOf
<1>3. {j \in CardsOf(v) : MarksOf(v)[j] > MarksOf(v)[i]}
        = {j \in CardsOf(v) : cards[j].mark > cards[i].mark}
  BY <1>2
<1>4. PlaceAmong(v, i) = 1 + Cardinality({j \in CardsOf(v) : MarksOf(v)[j] > MarksOf(v)[i]})
  BY <1>3 DEF PlaceAmong
<1>5. QED
  BY <1>1, <1>4, RankIsPlace DEF RankAmong

LEMMA PlacedCard ==
  ASSUME NEW x \in Card, NEW p \in 0 .. 3
  PROVE  /\ Placed(x, p) \in Card
         /\ Placed(x, p).event = x.event /\ Placed(x, p).mark = x.mark
         /\ Placed(x, p).rank = p
         /\ Placed(x, p).points = Total(x.event, x.mark, p)
<1>1. x.mark \in Int
  <2>1. x.mark \in Marks /\ Marks \subseteq Int
    BY ResultsAssumption DEF Card
  <2>2. QED
    BY <2>1
<1>2. Total(x.event, x.mark, p) \in 0 .. 10
  BY <1>1, RankPointsRange
<1>3. QED
  BY <1>2 DEF Placed, Card

-----------------------------------------------------------------------------
(* Sessions.                                                               *)

(* The rank the loop gives is one of the four, in whatever order the list  *)
(* has the marks that it compares.                                         *)
LEMMA PlaceInRange ==
  ASSUME NEW S, IsFiniteSet(S), NEW mark, NEW order \in Descending(S, mark),
         NEW other, NEW x \in S
  PROVE  PlaceOf(order, other, x) \in 0 .. 3
<1>1. /\ Cardinality(S) \in Nat /\ order \in [1 .. Cardinality(S) -> S]
      /\ \A y \in S : \E k \in 1 .. Cardinality(S) : order[k] = y
  BY DescendingLists
<1> PICK k : k = CHOOSE i \in DOMAIN order : order[i] = x
  OBVIOUS
<1>2. k \in 1 .. Cardinality(S) /\ k \in DOMAIN order
  BY <1>1
<1> DEFINE falls == {1} \union {j \in 2 .. k : other[order[j]] < other[order[j - 1]]}
<1>3. k \in Nat /\ falls \subseteq 0 .. k /\ falls # {} /\ \A j \in falls : j \in Nat \ {0}
  BY <1>1, <1>2
<1>4. CurrentRank(order, other, k) = Max(falls)
  BY DEF CurrentRank
<1> HIDE DEF falls
<1>5. Max(falls) \in falls
  BY <1>3, LastIsMax
<1>6. CurrentRank(order, other, k) \in Nat \ {0}
  BY <1>3, <1>4, <1>5
<1>7. PlaceOf(order, other, x) =
        IF CurrentRank(order, other, k) <= 3 THEN CurrentRank(order, other, k) ELSE 0
  BY <1>2 DEF PlaceOf, Places
<1>8. QED
  BY <1>6, <1>7

(* What a commit writes into a row.                                        *)
LEMMA OverCard ==
  ASSUME NEW old, NEW new \in Card, NEW row \in Card
  PROVE  /\ Over(old, new, row) \in Card
         /\ Over(old, new, row).event = row.event
         /\ Over(old, new, row).who = row.who
         /\ Over(old, new, row).mark = IF new.mark # old.mark THEN new.mark ELSE row.mark
         /\ Over(old, new, row).rank = IF new.rank # old.rank THEN new.rank ELSE row.rank
         /\ Over(old, new, row).points =
              IF new.points # old.points THEN new.points ELSE row.points
         /\ new = old => Over(old, new, row) = row
<1> DEFINE m == IF new.mark # old.mark THEN new.mark ELSE row.mark
           k == IF new.rank # old.rank THEN new.rank ELSE row.rank
           p == IF new.points # old.points THEN new.points ELSE row.points
<1>1. m \in Marks /\ k \in 0 .. 3 /\ p \in 0 .. 10
  BY DEF Card
<1>2. Over(old, new, row) = [row EXCEPT !.mark = m, !.rank = k, !.points = p]
  BY DEF Over, Card
<1>3. new = old => m = row.mark /\ k = row.rank /\ p = row.points
  OBVIOUS
<1> HIDE DEF m, k, p
<1>4. /\ Over(old, new, row) \in Card
      /\ Over(old, new, row).event = row.event /\ Over(old, new, row).who = row.who
      /\ Over(old, new, row).mark = m /\ Over(old, new, row).rank = k
      /\ Over(old, new, row).points = p
  BY <1>1, <1>2 DEF Card
<1>5. new = old => Over(old, new, row) = row
  BY <1>2, <1>3 DEF Card
<1>6. QED
  BY <1>4, <1>5 DEF m, k, p

(* A commit leaves the rows where they are and writes those of the         *)
(* session that the handler changed.                                       *)
LEMMA FlushedCards ==
  ASSUME ResultsTypeOK, NEW s, IsSession(s), Flush(s)
  PROVE  /\ DOMAIN cards' = DOMAIN cards
         /\ \A i \in DOMAIN cards :
              /\ cards'[i] \in Card
              /\ cards'[i].event = cards[i].event
              /\ i \notin DOMAIN s.read => cards'[i] = cards[i]
              /\ i \in DOMAIN s.read =>
                   cards'[i] = Over(s.read[i], s.now[i], cards[i])
              /\ i \in DOMAIN s.read /\ s.now[i] = s.read[i] => cards'[i] = cards[i]
<1>1. /\ DOMAIN cards' = DOMAIN cards /\ DOMAIN s.now = DOMAIN s.read
      /\ \A i \in DOMAIN cards :
           cards'[i] = IF i \in DOMAIN s.now THEN Over(s.read[i], s.now[i], cards[i])
                       ELSE cards[i]
  BY DEF Flush, IsSession
<1>2. \A i \in DOMAIN s.now : s.now[i] \in Card
  BY DEF IsSession, IsTable
<1>3. ASSUME NEW i \in DOMAIN cards, i \in DOMAIN s.read
      PROVE  /\ cards'[i] \in Card /\ cards'[i].event = cards[i].event
             /\ s.now[i] = s.read[i] => cards'[i] = cards[i]
  <2>1. /\ cards[i] \in Card /\ s.now[i] \in Card
        /\ cards'[i] = Over(s.read[i], s.now[i], cards[i])
    BY <1>1, <1>2, <1>3, CardsTyped
  <2>0. PICK old : old = s.read[i]
    OBVIOUS
  <2>2. PICK new \in Card, row \in Card : new = s.now[i] /\ row = cards[i]
    BY <2>1
  <2>3. PICK x : x = Over(old, new, row)
    OBVIOUS
  <2>4. x \in Card /\ x.event = row.event /\ (new = old => x = row)
    BY <2>3, OverCard
  <2>5. QED
    BY <2>0, <2>1, <2>2, <2>3, <2>4
<1>4. QED
  BY <1>1, <1>3, CardsTyped

(* What the handlers keep of their sessions: when it is at rest nothing;   *)
(* the cards are of the events that are due; only the marks, and then only *)
(* the cards of the event being ranked, are changed and not yet committed. *)
Coherent(s) ==
  /\ s.step = "rest" => s = Rest
  /\ s.step = "ranks" => s.on \in s.due
  /\ s.step # "ranks" => s.on = Nil
  /\ \A i \in DOMAIN s.read :
       /\ s.now[i].event = s.read[i].event /\ s.read[i].event \in s.due
       /\ s.step = "due" => s.now[i] = s.read[i]
       /\ s.step = "marks" =>
            s.now[i].rank = s.read[i].rank /\ s.now[i].points = s.read[i].points
       /\ s.step = "ranks" /\ s.read[i].event # s.on => s.now[i] = s.read[i]

Alike(x, y) ==
  x.event = y.event /\ x.mark = y.mark /\ x.rank = y.rank /\ x.points = y.points

(* A card that is still in the table t is in the event it was read in.     *)
EventsKept(s, t) ==
  \A i \in DOMAIN s.read \intersect DOMAIN t : t[i].event = s.read[i].event

(* The cards that a session has of an event are those of the table t.      *)
UpToDate(s, t, v) ==
  \A i \in DOMAIN s.read :
    s.read[i].event = v => i \in DOMAIN t /\ Alike(t[i], s.read[i])

(* The session has all the cards of the event, and given them their places *)
(* among the table's marks.                                                *)
RankedWhole(s, v) ==
  \A i \in CardsOf(v) :
    /\ i \in DOMAIN s.read
    /\ s.now[i].mark = s.read[i].mark
    /\ s.now[i].rank = RankAmong(v, i)
    /\ s.now[i].points = Total(v, cards[i].mark, RankAmong(v, i))

(* So it is for every event that others have not disturbed since.          *)
Sound(r, s) ==
  /\ Coherent(s)
  /\ EventsKept(s, cards)
  /\ \A v \in s.due : v \notin overtaken[r] =>
       UpToDate(s, cards, v) /\ (s.on = v => RankedWhole(s, v))

SessionsOK == \A r \in Requests : \A s : s = calls[r] => Sound(r, s)

ResultsInv == ResultsTypeOK /\ SessionsOK

(* Where Overtaking puts an event among the undisturbed ones.              *)
LEMMA Undisturbed ==
  ASSUME Overtaking, NEW r \in Requests, NEW v \in calls'[r].due, v \notin overtaken'[r]
  PROVE  /\ v \notin overtaken[r]
         /\ calls'[r] = calls[r] => ~Disturbs(calls[r], v)
BY DEF Overtaking

LEMMA OvertakingTyped ==
  ASSUME Overtaking, DOMAIN calls' = Requests, \A r \in Requests : IsSession(calls'[r])
  PROVE  overtaken' \in [Requests -> SUBSET Events]
<1>1. ASSUME NEW r \in Requests
      PROVE  {v \in calls'[r].due :
                v \in overtaken[r] \/ (calls'[r] = calls[r] /\ Disturbs(calls[r], v))}
               \in SUBSET Events
  <2>1. IsSession(calls'[r])
    OBVIOUS
  <2>2. calls'[r].due \subseteq Events
    BY <2>1 DEF IsSession
  <2>3. QED
    BY <2>2
<1>2. QED
  BY <1>1 DEF Overtaking

(* Whether an event is in order depends on its cards alone.                *)
LEMMA OrderFollowsCards ==
  ASSUME NEW v, InOrder(v), CardsOf(v)' = CardsOf(v),
         \A i \in CardsOf(v) :
           /\ cards'[i].mark = cards[i].mark
           /\ cards'[i].rank = cards[i].rank
           /\ cards'[i].points = cards[i].points
  PROVE  InOrder(v)'
<1>1. ASSUME NEW i \in CardsOf(v)  PROVE PlaceAmong(v, i)' = PlaceAmong(v, i)
  <2>1. {j \in CardsOf(v) : cards'[j].mark > cards'[i].mark}
          = {j \in CardsOf(v) : cards[j].mark > cards[i].mark}
    OBVIOUS
  <2>2. QED
    BY <2>1 DEF PlaceAmong
<1>2. QED
  BY <1>1 DEF InOrder

LEMMA RankedWholeStays ==
  ASSUME NEW v, NEW s, CardsOf(v)' = CardsOf(v), RankedWhole(s, v),
         \A i \in CardsOf(v) : cards'[i].mark = cards[i].mark
  PROVE  RankedWhole(s, v)'
<1>1. ASSUME NEW i \in CardsOf(v)  PROVE RankAmong(v, i)' = RankAmong(v, i)
  <2>1. {j \in CardsOf(v) : cards'[j].mark > cards'[i].mark}
          = {j \in CardsOf(v) : cards[j].mark > cards[i].mark}
    OBVIOUS
  <2>2. PlaceAmong(v, i)' = PlaceAmong(v, i)
    BY <2>1 DEF PlaceAmong
  <2>3. QED
    BY <2>2 DEF RankAmong
<1>2. QED
  BY <1>1 DEF RankedWhole

(* A request that does not move: what others do leaves its cards of the    *)
(* events they do not disturb.                                             *)
LEMMA OthersKeep ==
  ASSUME ResultsInv, NEW r \in Requests, calls'[r] = calls[r],
         \A i \in DOMAIN cards' \intersect DOMAIN cards : cards'[i].event = cards[i].event,
         \A i \in DOMAIN cards' \ DOMAIN cards : i \notin DOMAIN calls[r].read,
         \/ Overtaking
         \/ /\ overtaken' = overtaken /\ DOMAIN cards' = DOMAIN cards
            /\ \A i \in DOMAIN cards : Alike(cards'[i], cards[i]),
         NEW s, s = calls'[r]
  PROVE  Sound(r, s)'
<1>0. s = calls[r] /\ Sound(r, s)
  BY DEF ResultsInv, SessionsOK
<1>1. Coherent(s)
  BY <1>0 DEF Sound
<1>2. EventsKept(s, cards')
  BY <1>0 DEF Sound, EventsKept
<1>3. ASSUME NEW v \in s.due, v \notin overtaken'[r]
      PROVE  UpToDate(s, cards', v) /\ (s.on = v => RankedWhole(s, v)')
  <2>1. v \notin overtaken[r]
    BY <1>0, <1>3, Undisturbed
  <2>2. UpToDate(s, cards, v) /\ (s.on = v => RankedWhole(s, v))
    BY <1>0, <1>3, <2>1 DEF Sound
  <2>3. CASE Overtaking
    <3>1. ~Disturbs(s, v)
      BY <1>0, <1>3, <2>3, Undisturbed
    <3>2. ASSUME NEW i \in DOMAIN s.read, s.read[i].event = v
          PROVE  i \in DOMAIN cards /\ i \in DOMAIN cards' /\ cards'[i] = cards[i]
      <4>1. i \in DOMAIN cards
        BY <2>2, <3>2 DEF UpToDate
      <4>2. ~Touches(i)
        BY <3>1, <3>2 DEF Disturbs
      <4>3. QED
        BY <4>1, <4>2 DEF Touches
    <3>3. UpToDate(s, cards', v)
      BY <2>2, <3>2 DEF UpToDate
    <3>4. ASSUME s.on = v  PROVE RankedWhole(s, v)'
      <4>1. \A i \in CardsOf(v)' : i \in DOMAIN cards /\ cards'[i] = cards[i]
        <5>1. \A i \in CardsOf(v)' : ~Touches(i) /\ i \in DOMAIN cards'
          BY <3>1, <3>4 DEF Disturbs, CardsOf
        <5>2. QED
          BY <5>1 DEF Touches
      <4>2. \A i \in CardsOf(v) : i \in DOMAIN s.read /\ s.read[i].event = v
        <5>1. \A i \in CardsOf(v) : i \in DOMAIN s.read /\ i \in DOMAIN cards /\ cards[i].event = v
          BY <2>2, <3>4 DEF RankedWhole, CardsOf
        <5>2. EventsKept(s, cards)
          BY <1>0 DEF Sound
        <5>3. QED
          BY <5>1, <5>2 DEF EventsKept
      <4>3. CardsOf(v)' = CardsOf(v)
        BY <3>2, <4>1, <4>2 DEF CardsOf
      <4>4. \A i \in CardsOf(v) : cards'[i].mark = cards[i].mark
        BY <3>2, <4>2
      <4>5. QED
        BY <2>2, <3>4, <4>3, <4>4, RankedWholeStays
    <3>5. QED
      BY <3>3, <3>4
  <2>4. CASE /\ overtaken' = overtaken /\ DOMAIN cards' = DOMAIN cards
             /\ \A i \in DOMAIN cards : Alike(cards'[i], cards[i])
    <3>1. UpToDate(s, cards', v)
      BY <2>2, <2>4 DEF UpToDate, Alike
    <3>2. CardsOf(v)' = CardsOf(v)
      BY <2>4 DEF CardsOf, Alike
    <3>3. \A i \in CardsOf(v) : cards'[i].mark = cards[i].mark
      BY <2>4 DEF CardsOf, Alike
    <3>4. QED
      BY <2>2, <3>1, <3>2, <3>3, RankedWholeStays
  <2>5. QED
    BY <2>3, <2>4
<1>4. QED
  BY <1>1, <1>2, <1>3 DEF Sound

-----------------------------------------------------------------------------
(* What a ranking reads.                                                   *)

(* A session between two steps: nothing is changed and not committed.      *)
Settled(s) ==
  /\ IsSession(s) /\ EventsKept(s, cards)
  /\ \A i \in DOMAIN s.read : s.now[i] = s.read[i] /\ s.read[i].event \in s.due

LEMMA OwnCards ==
  ASSUME ResultsTypeOK, NEW s, Settled(s), NEW v, NEW own, own = SessionCards(s, v),
         NEW i \in CardsOf(v)
  PROVE  /\ i \in Ids /\ i \in DOMAIN cards /\ cards[i].event = v
         /\ own[i] \in Card /\ own[i].event = v /\ own[i].mark \in Int
         /\ own[i] = IF i \in DOMAIN s.read THEN s.read[i] ELSE cards[i]
<1>1. i \in Ids /\ i \in DOMAIN cards /\ cards[i].event = v /\ cards[i] \in Card
  BY CardsTyped DEF CardsOf
<1>2. own[i] = IF i \in DOMAIN s.read THEN s.read[i] ELSE cards[i]
  BY <1>1 DEF SessionCards, Settled, IsSession
<1>3. i \in DOMAIN s.read => s.read[i] \in Card /\ s.read[i].event = v
  BY <1>1 DEF Settled, IsSession, IsTable, EventsKept
<1>4. own[i] \in Card /\ own[i].event = v
  BY <1>1, <1>2, <1>3
<1>5. own[i].mark \in Int
  <2>1. own[i].mark \in Marks /\ Marks \subseteq Int
    BY <1>4, ResultsAssumption DEF Card
  <2>2. QED
    BY <2>1
<1>6. QED
  BY <1>1, <1>2, <1>4, <1>5

(* What the session is afterwards.                                         *)
RanksRead(n, s, v, order) ==
  /\ n.step = "ranks" /\ n.due = s.due /\ n.on = v
  /\ DOMAIN n.now = DOMAIN n.read
  /\ DOMAIN n.read = CardsOf(v) \union {i \in DOMAIN s.read : s.read[i].event # v}
  /\ \A i \in DOMAIN n.read \ CardsOf(v) : n.read[i] = s.read[i] /\ n.now[i] = s.read[i]
  /\ \A i \in CardsOf(v) :
       /\ n.read[i] = SessionCards(s, v)[i]
       /\ n.now[i] = Placed(SessionCards(s, v)[i],
            PlaceOf(order, [j \in CardsOf(v) |-> SessionCards(s, v)[j].mark], i))

LEMMA RanksAreRead ==
  ASSUME ResultsTypeOK, NEW r \in Requests, NEW s, Settled(s), NEW v \in Events,
         ReadForRanks(r, s, v)
  PROVE  /\ DOMAIN calls' = Requests
         /\ \A q \in Requests : q # r => calls'[q] = calls[q]
         /\ \E order \in Descending(CardsOf(v), MarksOf(v)) :
              \A n : n = calls'[r] => RanksRead(n, s, v, order)
<1> PICK own : own = SessionCards(s, v)
  OBVIOUS
<1> DEFINE marks == [i \in CardsOf(v) |-> own[i].mark]
           placed(order) == [i \in CardsOf(v) |-> Placed(own[i], PlaceOf(order, marks, i))]
<1>1. PICK order \in Descending(CardsOf(v), MarksOf(v)) :
        calls' = [calls EXCEPT ![r] =
          [step |-> "ranks", read |-> With(own, But(s.read, v)),
           now |-> With(placed(order), But(s.now, v)), due |-> s.due, on |-> v]]
  BY DEF ReadForRanks
<1>2. DOMAIN calls = Requests
  BY DEF ResultsTypeOK
<1>3. ASSUME NEW n, n = calls'[r]  PROVE RanksRead(n, s, v, order)
  <2>1. /\ n.step = "ranks" /\ n.due = s.due /\ n.on = v
        /\ n.read = With(own, But(s.read, v))
        /\ n.now = With(placed(order), But(s.now, v))
    BY <1>1, <1>2, <1>3
  <2>2. DOMAIN own = CardsOf(v) /\ DOMAIN placed(order) = CardsOf(v)
    BY DEF SessionCards
  <2>3. DOMAIN s.now = DOMAIN s.read /\ \A i \in DOMAIN s.read : s.now[i] = s.read[i]
    BY DEF Settled, IsSession
  <2>4. /\ DOMAIN But(s.read, v) = {i \in DOMAIN s.read : s.read[i].event # v}
        /\ DOMAIN But(s.now, v) = {i \in DOMAIN s.read : s.read[i].event # v}
        /\ \A i \in DOMAIN But(s.read, v) :
             But(s.read, v)[i] = s.read[i] /\ But(s.now, v)[i] = s.read[i]
    BY <2>3 DEF But
  <2>5. /\ DOMAIN n.read = CardsOf(v) \union {i \in DOMAIN s.read : s.read[i].event # v}
        /\ DOMAIN n.now = DOMAIN n.read
        /\ \A i \in DOMAIN n.read :
             n.read[i] = IF i \in CardsOf(v) THEN own[i] ELSE s.read[i]
        /\ \A i \in DOMAIN n.read :
             n.now[i] = IF i \in CardsOf(v) THEN placed(order)[i] ELSE s.read[i]
    <3> HIDE DEF placed
    <3>1. /\ DOMAIN n.read = DOMAIN own \union DOMAIN But(s.read, v)
          /\ \A i \in DOMAIN n.read :
               n.read[i] = IF i \in DOMAIN own THEN own[i] ELSE But(s.read, v)[i]
      BY <2>1 DEF With
    <3>2. /\ DOMAIN n.now = DOMAIN placed(order) \union DOMAIN But(s.now, v)
          /\ \A i \in DOMAIN n.now :
               n.now[i] = IF i \in DOMAIN placed(order) THEN placed(order)[i]
                          ELSE But(s.now, v)[i]
      BY <2>1 DEF With
    <3>3. QED
      BY <2>2, <2>4, <3>1, <3>2
  <2>6. \A i \in CardsOf(v) : placed(order)[i] = Placed(own[i], PlaceOf(order, marks, i))
    OBVIOUS
  <2>7. QED
    BY <2>1, <2>5, <2>6 DEF RanksRead
<1>4. DOMAIN calls' = Requests /\ \A q \in Requests : q # r => calls'[q] = calls[q]
  BY <1>1, <1>2
<1>5. QED
  BY <1>3, <1>4

(* It is a session again, and where its cards were up to date they still   *)
(* are and the places are those among the table's marks.                   *)
LEMMA RanksReadSound ==
  ASSUME ResultsTypeOK, NEW s, Settled(s), NEW v \in s.due,
         NEW order \in Descending(CardsOf(v), MarksOf(v)),
         NEW n, RanksRead(n, s, v, order)
  PROVE  /\ IsSession(n) /\ Coherent(n) /\ EventsKept(n, cards)
         /\ \A w : UpToDate(s, cards, w) => UpToDate(n, cards, w)
         /\ UpToDate(s, cards, v) => RankedWhole(n, v)
<1> PICK own : own = SessionCards(s, v)
  OBVIOUS
<1> PICK marks : marks = [i \in CardsOf(v) |-> own[i].mark]
  OBVIOUS
<1>1. /\ v \in Events /\ s.due \subseteq Events
      /\ \A i \in DOMAIN s.read :
           i \in Ids /\ s.read[i] \in Card /\ s.now[i] = s.read[i] /\ s.read[i].event \in s.due
  BY DEF Settled, IsSession, IsTable
<1>2. /\ n.step = "ranks" /\ n.due = s.due /\ n.on = v
      /\ DOMAIN n.now = DOMAIN n.read
      /\ DOMAIN n.read = CardsOf(v) \union {i \in DOMAIN s.read : s.read[i].event # v}
      /\ \A i \in DOMAIN n.read \ CardsOf(v) : n.read[i] = s.read[i] /\ n.now[i] = s.read[i]
      /\ \A i \in CardsOf(v) :
           n.read[i] = own[i] /\ n.now[i] = Placed(own[i], PlaceOf(order, marks, i))
  BY DEF RanksRead
<1>3. \A i \in CardsOf(v) :
        /\ i \in Ids /\ i \in DOMAIN cards /\ cards[i].event = v
        /\ own[i] \in Card /\ own[i].event = v /\ own[i].mark \in Int
        /\ own[i] = IF i \in DOMAIN s.read THEN s.read[i] ELSE cards[i]
  BY OwnCards
<1>4. \A i \in CardsOf(v) : PlaceOf(order, marks, i) \in 0 .. 3
  BY CardsFinite, PlaceInRange
<1>5. \A i \in CardsOf(v) :
        /\ n.now[i] \in Card /\ n.now[i].event = v /\ n.now[i].mark = own[i].mark
        /\ n.now[i].rank = PlaceOf(order, marks, i)
        /\ n.now[i].points = Total(v, own[i].mark, PlaceOf(order, marks, i))
  <2> SUFFICES ASSUME NEW i \in CardsOf(v)
               PROVE  /\ n.now[i] \in Card /\ n.now[i].event = v
                      /\ n.now[i].mark = own[i].mark
                      /\ n.now[i].rank = PlaceOf(order, marks, i)
                      /\ n.now[i].points = Total(v, own[i].mark, PlaceOf(order, marks, i))
    OBVIOUS
  <2>1. PICK x \in Card : x = own[i]
    BY <1>3
  <2>2. PICK p \in 0 .. 3 : p = PlaceOf(order, marks, i)
    BY <1>4
  <2>3. n.now[i] = Placed(x, p) /\ x.event = v
    BY <1>2, <1>3, <2>1, <2>2
  <2>4. QED
    BY <2>1, <2>2, <2>3, PlacedCard
<1>6. IsSession(n)
  <2>1. \A i \in DOMAIN n.read : i \in Ids /\ n.read[i] \in Card /\ n.now[i] \in Card
    BY <1>1, <1>2, <1>3, <1>5
  <2>2. QED
    BY <1>1, <1>2, <2>1 DEF IsSession, IsTable
<1>7. Coherent(n)
  <2>1. \A i \in DOMAIN n.read :
          /\ n.now[i].event = n.read[i].event /\ n.read[i].event \in n.due
          /\ n.read[i].event # v => n.now[i] = n.read[i]
    <3> SUFFICES ASSUME NEW i \in DOMAIN n.read
                 PROVE  /\ n.now[i].event = n.read[i].event /\ n.read[i].event \in n.due
                        /\ n.read[i].event # v => n.now[i] = n.read[i]
      OBVIOUS
    <3>1. CASE i \in CardsOf(v)
      BY <1>2, <1>3, <1>5, <3>1
    <3>2. CASE i \notin CardsOf(v)
      BY <1>1, <1>2, <3>2
    <3>3. QED
      BY <3>1, <3>2
  <2>2. QED
    BY <1>2, <2>1 DEF Coherent
<1>8. EventsKept(n, cards)
  <2> SUFFICES ASSUME NEW i \in DOMAIN n.read, i \in DOMAIN cards
               PROVE  cards[i].event = n.read[i].event
    BY DEF EventsKept
  <2>1. CASE i \in CardsOf(v)
    BY <1>2, <1>3, <2>1
  <2>2. CASE i \notin CardsOf(v)
    BY <1>2, <2>2 DEF EventsKept, Settled
  <2>3. QED
    BY <2>1, <2>2
<1>9. ASSUME NEW w, UpToDate(s, cards, w)  PROVE UpToDate(n, cards, w)
  <2> SUFFICES ASSUME NEW i \in DOMAIN n.read, n.read[i].event = w
               PROVE  i \in DOMAIN cards /\ Alike(cards[i], n.read[i])
    BY DEF UpToDate
  <2>1. CASE i \in CardsOf(v)
    <3>1. i \in DOMAIN cards /\ n.read[i] = own[i]
      BY <1>2, <1>3, <2>1
    <3>2. CASE i \in DOMAIN s.read
      <4>1. own[i] = s.read[i]
        BY <1>3, <2>1, <3>2
      <4>2. QED
        BY <1>9, <3>1, <3>2, <4>1 DEF UpToDate
    <3>3. CASE i \notin DOMAIN s.read
      <4>1. own[i] = cards[i]
        BY <1>3, <2>1, <3>3
      <4>2. QED
        BY <3>1, <4>1 DEF Alike
    <3>4. QED
      BY <3>2, <3>3
  <2>2. CASE i \notin CardsOf(v)
    BY <1>2, <1>9, <2>2 DEF UpToDate
  <2>3. QED
    BY <2>1, <2>2
<1>10. ASSUME UpToDate(s, cards, v)  PROVE RankedWhole(n, v)
  <2>1. \A i \in CardsOf(v) : own[i].mark = cards[i].mark
    BY <1>3, <1>10 DEF UpToDate, Alike
  <2>2. marks = MarksOf(v)
    BY <2>1 DEF MarksOf
  <2>3. \A i \in CardsOf(v) : PlaceOf(order, marks, i) = RankAmong(v, i)
    BY <2>2, PlaceOfCard
  <2>4. QED
    BY <1>2, <1>5, <2>1, <2>3 DEF RankedWhole
<1>11. QED
  BY <1>6, <1>7, <1>8, <1>9, <1>10

-----------------------------------------------------------------------------
(* What the steps of a request leave of its session.                       *)

LEMMA RestIsSession ==
  /\ IsSession(Rest) /\ Coherent(Rest) /\ Rest.due = {}
  /\ \A t : EventsKept(Rest, t)
  /\ \A v \in Events : LET s == [Rest EXCEPT !.due = {v}]
                       IN  Settled(s) /\ s.due = {v} /\ \A t, w : UpToDate(s, t, w)
<1>1. DOMAIN Rest.read = {} /\ DOMAIN Rest.now = {} /\ Rest.step = "rest" /\ Rest.due = {}
      /\ Rest.on = Nil
  BY DEF Rest
<1>2. IsSession(Rest) /\ Coherent(Rest)
  BY <1>1 DEF IsSession, IsTable, Coherent
<1>3. \A t : EventsKept(Rest, t)
  BY <1>1 DEF EventsKept
<1>4. ASSUME NEW v \in Events, NEW s, s = [Rest EXCEPT !.due = {v}]
      PROVE  Settled(s) /\ s.due = {v} /\ \A t, w : UpToDate(s, t, w)
  <2>1. DOMAIN s.read = {} /\ DOMAIN s.now = {} /\ s.step = "rest" /\ s.due = {v}
        /\ s.on = Nil
    BY <1>4 DEF Rest
  <2>2. QED
    BY <2>1 DEF Settled, IsSession, IsTable, EventsKept, UpToDate
<1>5. QED
  BY <1>1, <1>2, <1>3, <1>4

(* Without its ranked event.                                               *)
LEMMA RankedSession ==
  ASSUME NEW s, IsSession(s), NEW v, NEW t, EventsKept(s, t),
         \A i \in DOMAIN s.read :
           s.now[i].event = s.read[i].event /\ s.read[i].event \in s.due,
         \A i \in DOMAIN s.read : s.read[i].event # v => s.now[i] = s.read[i],
         NEW n, n = Ranked(s, v)
  PROVE  /\ IsSession(n) /\ Coherent(n) /\ EventsKept(n, t)
         /\ n.due \subseteq s.due \ {v} /\ n.on = Nil
         /\ \A w \in n.due : UpToDate(s, t, w) => UpToDate(n, t, w)
<1>1. CASE s.due = {v}
  <2>1. n = Rest
    BY <1>1 DEF Ranked
  <2>2. n.due = {} /\ n.on = Nil
    BY <2>1 DEF Rest
  <2>3. QED
    BY <2>1, <2>2, RestIsSession
<1>2. CASE s.due # {v}
  <2>1. /\ n.step = "due" /\ n.due = s.due \ {v} /\ n.on = Nil
        /\ n.read = But(s.read, v) /\ n.now = But(s.now, v)
    BY <1>2 DEF Ranked
  <2>2. /\ DOMAIN s.now = DOMAIN s.read
        /\ \A i \in DOMAIN s.read : /\ i \in Ids /\ s.read[i] \in Card /\ s.now[i] \in Card
                                    /\ s.read[i].event \in Events
    BY DEF IsSession, IsTable, Card
  <2>3. \A i : i \in DOMAIN n.read <=> i \in DOMAIN s.read /\ s.read[i].event # v
    BY <2>1 DEF But
  <2>4. \A i : i \in DOMAIN n.now <=> i \in DOMAIN s.read /\ s.read[i].event # v
    BY <2>1, <2>2 DEF But
  <2>5. \A i \in DOMAIN n.read :
          /\ n.read[i] = s.read[i] /\ n.now[i] = s.read[i] /\ i \in DOMAIN s.read
          /\ s.read[i].event # v
    BY <2>1, <2>2, <2>3, <2>4 DEF But
  <2>6. DOMAIN n.now = DOMAIN n.read
    BY <2>3, <2>4
  <2>7. IsSession(n)
    <3>1. \A i \in DOMAIN n.read : i \in Ids /\ n.read[i] \in Card /\ n.now[i] \in Card
      BY <2>2, <2>5
    <3>2. n.due \subseteq Events
      BY <2>1 DEF IsSession
    <3>3. QED
      BY <2>1, <2>6, <3>1, <3>2 DEF IsSession, IsTable
  <2>8. Coherent(n)
    <3>1. \A i \in DOMAIN n.read : n.now[i] = n.read[i] /\ n.read[i].event \in n.due
      BY <2>1, <2>5
    <3>2. QED
      BY <2>1, <3>1 DEF Coherent
  <2>9. EventsKept(n, t)
    BY <2>5 DEF EventsKept
  <2>10. ASSUME NEW w, UpToDate(s, t, w)  PROVE UpToDate(n, t, w)
    BY <2>5, <2>10 DEF UpToDate
  <2>11. QED
    BY <2>1, <2>7, <2>8, <2>9, <2>10
<1>3. QED
  BY <1>1, <1>2

(* What a request's step has to leave: a session that is sound; the others *)
(* have theirs.                                                            *)
Moved(r) ==
  /\ DOMAIN calls' = Requests
  /\ \A q \in Requests : q # r => calls'[q] = calls[q]
  /\ \A n : n = calls'[r] => IsSession(n) /\ (Overtaking => Sound(r, n)')

LEMMA MarksRead ==
  ASSUME ResultsInv, NEW r \in Requests, NEW u \in Updates, ReadForUpdate(r, u)
  PROVE  Moved(r) /\ cards' = cards
<1>1. DOMAIN calls = Requests /\ ResultsTypeOK
  BY DEF ResultsInv, ResultsTypeOK
<1>2. /\ cards' = cards
      /\ calls' = [calls EXCEPT ![r] =
           [step |-> "marks", read |-> [i \in Rescored(u) |-> cards[i]],
            now |-> [i \in Rescored(u) |-> [cards[i] EXCEPT !.mark = MarkFor(u, i)]],
            due |-> Touched(u), on |-> Nil]]
  BY DEF ReadForUpdate
<1>3. DOMAIN calls' = Requests /\ \A q \in Requests : q # r => calls'[q] = calls[q]
  BY <1>1, <1>2
<1>4. ASSUME NEW i \in Rescored(u)
      PROVE  /\ i \in DOMAIN cards /\ cards[i] \in Card /\ i \in Ids
             /\ cards[i].event \in Touched(u) /\ cards[i].event \in Events
             /\ MarkFor(u, i) \in Marks
  <2>1. i \in DOMAIN cards /\ \E k \in Given(u) : i \in CardsFor(k)
    BY DEF Rescored, CardsFor
  <2>2. PICK k \in Given(u) : k = CHOOSE x \in Given(u) : i \in CardsFor(x)
    BY <2>1
  <2>3. u[k] \in Marks
    BY DEF Given, Updates
  <2>4. MarkFor(u, i) \in Marks
    BY <2>2, <2>3 DEF MarkFor
  <2>5. QED
    BY <1>1, <2>1, <2>4, CardsTyped DEF Touched
<1>5. ASSUME NEW n, n = calls'[r]  PROVE IsSession(n) /\ Sound(r, n)'
  <2>1. /\ n.step = "marks" /\ n.due = Touched(u) /\ n.on = Nil
        /\ DOMAIN n.read = Rescored(u) /\ DOMAIN n.now = Rescored(u)
        /\ \A i \in Rescored(u) : /\ n.read[i] = cards[i]
                                  /\ n.now[i] = [cards[i] EXCEPT !.mark = MarkFor(u, i)]
    BY <1>1, <1>2, <1>5
  <2>2. ASSUME NEW i \in Rescored(u)
        PROVE  /\ n.now[i] \in Card /\ n.now[i].event = cards[i].event
               /\ n.now[i].rank = cards[i].rank /\ n.now[i].points = cards[i].points
    <3>1. PICK x \in Card, m \in Marks : x = cards[i] /\ m = MarkFor(u, i)
      BY <1>4
    <3>2. n.now[i] = [x EXCEPT !.mark = m]
      BY <2>1, <3>1
    <3>3. QED
      BY <3>1, <3>2 DEF Card
  <2>3. Touched(u) \subseteq Events
    BY <1>4 DEF Touched
  <2>4. IsSession(n)
    BY <1>4, <2>1, <2>2, <2>3 DEF IsSession, IsTable
  <2>5. Coherent(n)
    <3>1. \A i \in DOMAIN n.read :
            /\ n.now[i].event = n.read[i].event /\ n.read[i].event \in n.due
            /\ n.now[i].rank = n.read[i].rank /\ n.now[i].points = n.read[i].points
      <4> SUFFICES ASSUME NEW i \in Rescored(u)
                   PROVE  /\ n.now[i].event = n.read[i].event /\ n.read[i].event \in n.due
                          /\ n.now[i].rank = n.read[i].rank
                          /\ n.now[i].points = n.read[i].points
        BY <2>1
      <4>1. n.read[i] = cards[i] /\ cards[i].event \in n.due
        BY <1>4, <2>1
      <4>2. QED
        BY <2>2, <4>1
    <3>2. QED
      BY <2>1, <3>1 DEF Coherent
  <2>6. EventsKept(n, cards') /\ \A v : UpToDate(n, cards', v)
    BY <1>2, <1>4, <2>1 DEF EventsKept, UpToDate, Alike
  <2>7. \A v \in n.due : n.on # v
    BY <2>1, <2>3, ResultsAssumption DEF Events
  <2>8. QED
    BY <2>4, <2>5, <2>6, <2>7 DEF Sound
<1>6. QED
  BY <1>2, <1>3, <1>5 DEF Moved

LEMMA MarksCommitted ==
  ASSUME ResultsInv, NEW r \in Requests, CommitMarks(r)
  PROVE  Moved(r)
<1>1. DOMAIN calls = Requests /\ ResultsTypeOK
  BY DEF ResultsInv, ResultsTypeOK
<1> PICK s : s = calls[r]
  OBVIOUS
<1>2. IsSession(s) /\ Sound(r, s) /\ s.step = "marks" /\ Flush(s)
  BY DEF ResultsInv, ResultsTypeOK, SessionsOK, CommitMarks
<1>3. /\ DOMAIN cards' = DOMAIN cards
      /\ \A i \in DOMAIN cards :
           /\ cards'[i] \in Card /\ cards'[i].event = cards[i].event
           /\ i \in DOMAIN s.read => cards'[i] = Over(s.read[i], s.now[i], cards[i])
  BY <1>1, <1>2, FlushedCards
<1>4. calls' = [calls EXCEPT ![r] = 
       [step |-> "due", read |-> s.now, now |-> s.now, due |-> s.due, on |-> Nil]]
  BY <1>1 DEF CommitMarks
<1>5. DOMAIN calls' = Requests /\ \A q \in Requests : q # r => calls'[q] = calls[q]
  BY <1>1, <1>4
<1>6. ASSUME NEW n, n = calls'[r]  PROVE IsSession(n) /\ (Overtaking => Sound(r, n)')
  <2>1. /\ n.step = "due" /\ n.read = s.now /\ n.now = s.now /\ n.due = s.due
        /\ n.on = Nil
    BY <1>1, <1>4, <1>6
  <2>2. /\ DOMAIN s.now = DOMAIN s.read /\ s.due \subseteq Events
        /\ \A i \in DOMAIN s.read :
             /\ i \in Ids /\ s.now[i] \in Card
             /\ s.now[i].event = s.read[i].event /\ s.read[i].event \in s.due
             /\ s.now[i].rank = s.read[i].rank /\ s.now[i].points = s.read[i].points
    BY <1>2 DEF IsSession, IsTable, Sound, Coherent
  <2>3. IsSession(n)
    BY <1>2, <2>1, <2>2 DEF IsSession, IsTable
  <2>4. Coherent(n)
    BY <2>1, <2>2 DEF Coherent
  <2>5. EventsKept(n, cards')
    BY <1>2, <1>3, <2>1, <2>2 DEF EventsKept, Sound
  <2>6. ASSUME Overtaking, NEW v \in n.due, v \notin overtaken'[r]
        PROVE  UpToDate(n, cards', v) /\ n.on # v
    <3>1. UpToDate(s, cards, v)
      BY <1>2, <1>6, <2>1, <2>6, Undisturbed DEF Sound
    <3>2. ASSUME NEW i \in DOMAIN n.read, n.read[i].event = v
          PROVE  i \in DOMAIN cards' /\ Alike(cards'[i], n.read[i])
      <4>1. /\ i \in DOMAIN s.read /\ n.read[i] = s.now[i] /\ s.read[i].event = v
            /\ i \in DOMAIN cards /\ Alike(cards[i], s.read[i])
        BY <2>1, <2>2, <3>1, <3>2 DEF UpToDate
      <4>2. PICK new \in Card, row \in Card : new = s.now[i] /\ row = cards[i]
        BY <1>1, <2>2, <4>1, CardsTyped
      <4>3. PICK old : old = s.read[i]
        OBVIOUS
      <4>4. cards'[i] = Over(old, new, row)
        BY <1>3, <4>1, <4>2, <4>3
      <4>5. new.event = old.event /\ new.rank = old.rank /\ new.points = old.points
        BY <2>2, <4>1, <4>2, <4>3
      <4>6. Alike(row, old)
        BY <4>1, <4>2, <4>3
      <4>7. Alike(cards'[i], new)
        BY <4>4, <4>5, <4>6, OverCard DEF Alike
      <4>8. QED
        BY <1>3, <4>1, <4>2, <4>7
    <3>3. v # Nil
      BY <2>1, <2>2, ResultsAssumption DEF Events
    <3>4. QED
      BY <2>1, <3>2, <3>3 DEF UpToDate
  <2>7. QED
    BY <2>3, <2>4, <2>5, <2>6 DEF Sound
<1>7. QED
  BY <1>5, <1>6 DEF Moved

LEMMA DueRanksRead ==
  ASSUME ResultsInv, NEW r \in Requests, NEW v \in Events, RankDue(r, v)
  PROVE  Moved(r) /\ cards' = cards
<1>1. DOMAIN calls = Requests /\ ResultsTypeOK /\ cards' = cards
  BY DEF ResultsInv, ResultsTypeOK, RankDue
<1> PICK s : s = calls[r]
  OBVIOUS
<1>2. IsSession(s) /\ Sound(r, s) /\ s.step = "due" /\ v \in s.due
  BY DEF ResultsInv, ResultsTypeOK, SessionsOK, RankDue
<1>3. Settled(s) /\ Coherent(s) /\ EventsKept(s, cards)
  BY <1>2 DEF Sound, Coherent, Settled
<1>4. CASE CardsOf(v) = {}
  <2>1. calls' = [calls EXCEPT ![r] = Ranked(s, v)]
    BY <1>1, <1>4 DEF RankDue
  <2>2. DOMAIN calls' = Requests /\ \A q \in Requests : q # r => calls'[q] = calls[q]
    BY <1>1, <2>1
  <2>3. ASSUME NEW n, n = calls'[r]  PROVE IsSession(n) /\ (Overtaking => Sound(r, n)')
    <3>1. n = Ranked(s, v)
      BY <1>1, <2>1, <2>3
    <3>2. \A i \in DOMAIN s.read :
            /\ s.now[i].event = s.read[i].event /\ s.read[i].event \in s.due
            /\ s.read[i].event # v => s.now[i] = s.read[i]
      BY <1>3 DEF Settled
    <3>3. /\ IsSession(n) /\ Coherent(n) /\ EventsKept(n, cards)
          /\ n.due \subseteq s.due \ {v} /\ n.on = Nil
          /\ \A w \in n.due : UpToDate(s, cards, w) => UpToDate(n, cards, w)
      BY <1>2, <1>3, <3>1, <3>2, RankedSession
    <3>4. ASSUME Overtaking, NEW w \in n.due, w \notin overtaken'[r]
          PROVE  UpToDate(n, cards, w) /\ n.on # w
      <4>1. w \in s.due /\ w \notin overtaken[r] /\ w # Nil
        BY <1>2, <2>3, <3>3, <3>4, Undisturbed, ResultsAssumption DEF IsSession, Events
      <4>2. UpToDate(s, cards, w)
        BY <1>2, <4>1 DEF Sound
      <4>3. QED
        BY <3>3, <4>1, <4>2
    <3>5. QED
      BY <1>1, <3>3, <3>4 DEF Sound
  <2>4. QED
    BY <1>1, <2>2, <2>3 DEF Moved
<1>5. CASE CardsOf(v) # {}
  <2>1. ReadForRanks(r, s, v)
    BY <1>5 DEF RankDue
  <2>2. /\ DOMAIN calls' = Requests
        /\ \A q \in Requests : q # r => calls'[q] = calls[q]
        /\ \E order \in Descending(CardsOf(v), MarksOf(v)) :
             \A n : n = calls'[r] => RanksRead(n, s, v, order)
    BY <1>1, <1>3, <2>1, RanksAreRead
  <2>3. PICK order \in Descending(CardsOf(v), MarksOf(v)) :
               \A n : n = calls'[r] => RanksRead(n, s, v, order)
    BY <2>2
  <2>4. ASSUME NEW n, n = calls'[r]  PROVE IsSession(n) /\ (Overtaking => Sound(r, n)')
    <3>1. /\ IsSession(n) /\ Coherent(n) /\ EventsKept(n, cards)
          /\ \A w : UpToDate(s, cards, w) => UpToDate(n, cards, w)
          /\ UpToDate(s, cards, v) => RankedWhole(n, v)
      BY <1>1, <1>2, <1>3, <2>3, <2>4, RanksReadSound
    <3>2. n.due = s.due /\ n.on = v
      BY <2>3, <2>4 DEF RanksRead
    <3>3. ASSUME Overtaking, NEW w \in n.due, w \notin overtaken'[r]
          PROVE  UpToDate(n, cards, w) /\ (n.on = w => RankedWhole(n, w)')
      <4>1. w \in s.due /\ w \notin overtaken[r]
        BY <2>4, <3>2, <3>3, Undisturbed
      <4>2. UpToDate(s, cards, w)
        BY <1>2, <4>1 DEF Sound
      <4>3. n.on = w => RankedWhole(n, w)
        BY <3>1, <3>2, <4>2
      <4>4. CardsOf(w)' = CardsOf(w) /\ \A i \in CardsOf(w) : cards'[i].mark = cards[i].mark
        BY <1>1 DEF CardsOf
      <4>5. QED
        BY <3>1, <4>2, <4>3, <4>4, RankedWholeStays
    <3>4. QED
      BY <1>1, <3>1, <3>3 DEF Sound
  <2>5. QED
    BY <1>1, <2>2, <2>4 DEF Moved
<1>6. QED
  BY <1>4, <1>5

LEMMA AllRanksRead ==
  ASSUME ResultsInv, NEW r \in Requests, NEW v \in Events, Recalculate(r, v)
  PROVE  Moved(r) /\ cards' = cards
<1>1. ResultsTypeOK /\ cards' = cards
  BY DEF ResultsInv, Recalculate
<1> PICK s : s = [Rest EXCEPT !.due = {v}]
  OBVIOUS
<1>2. Settled(s) /\ s.due = {v} /\ \A t, w : UpToDate(s, t, w)
  BY RestIsSession
<1>3. ReadForRanks(r, s, v)
  BY DEF Recalculate
<1>4. /\ DOMAIN calls' = Requests
      /\ \A q \in Requests : q # r => calls'[q] = calls[q]
      /\ \E order \in Descending(CardsOf(v), MarksOf(v)) :
           \A n : n = calls'[r] => RanksRead(n, s, v, order)
  BY <1>1, <1>2, <1>3, RanksAreRead
<1>5. PICK order \in Descending(CardsOf(v), MarksOf(v)) :
             \A n : n = calls'[r] => RanksRead(n, s, v, order)
  BY <1>4
<1>6. ASSUME NEW n, n = calls'[r]  PROVE IsSession(n) /\ Sound(r, n)'
  <2>1. /\ IsSession(n) /\ Coherent(n) /\ EventsKept(n, cards)
        /\ \A w : UpToDate(n, cards, w)
        /\ RankedWhole(n, v)
    BY <1>1, <1>2, <1>5, <1>6, RanksReadSound
  <2>2. n.due = {v} /\ n.on = v
    BY <1>2, <1>5, <1>6 DEF RanksRead
  <2>3. CardsOf(v)' = CardsOf(v) /\ \A i \in CardsOf(v) : cards'[i].mark = cards[i].mark
    BY <1>1 DEF CardsOf
  <2>4. RankedWhole(n, v)'
    BY <2>1, <2>3, RankedWholeStays
  <2>5. \A w \in n.due : n.on = w => RankedWhole(n, w)'
    BY <2>2, <2>4
  <2>6. QED
    BY <1>1, <2>1, <2>5 DEF Sound
<1>7. QED
  BY <1>1, <1>4, <1>6 DEF Moved

LEMMA RanksCommitted ==
  ASSUME ResultsInv, NEW r \in Requests, CommitRanks(r)
  PROVE  Moved(r)
<1>1. DOMAIN calls = Requests /\ ResultsTypeOK
  BY DEF ResultsInv, ResultsTypeOK
<1> PICK s : s = calls[r]
  OBVIOUS
<1>2. IsSession(s) /\ Sound(r, s) /\ s.step = "ranks" /\ Flush(s)
  BY DEF ResultsInv, ResultsTypeOK, SessionsOK, CommitRanks
<1>3. /\ DOMAIN cards' = DOMAIN cards
      /\ \A i \in DOMAIN cards :
           /\ cards'[i].event = cards[i].event
           /\ i \in DOMAIN s.read /\ s.now[i] = s.read[i] => cards'[i] = cards[i]
  BY <1>1, <1>2, FlushedCards
<1>4. /\ s.on \in s.due
      /\ \A i \in DOMAIN s.read :
           /\ s.now[i].event = s.read[i].event /\ s.read[i].event \in s.due
           /\ s.read[i].event # s.on => s.now[i] = s.read[i]
  BY <1>2 DEF Sound, Coherent
<1>5. calls' = [calls EXCEPT ![r] = Ranked(s, s.on)]
  BY <1>1 DEF CommitRanks
<1>6. DOMAIN calls' = Requests /\ \A q \in Requests : q # r => calls'[q] = calls[q]
  BY <1>1, <1>5
<1>7. EventsKept(s, cards')
  BY <1>2, <1>3 DEF EventsKept, Sound
<1>8. ASSUME NEW n, n = calls'[r]  PROVE IsSession(n) /\ (Overtaking => Sound(r, n)')
  <2>1. n = Ranked(s, s.on)
    BY <1>1, <1>5, <1>8
  <2>2. PICK v, t : v = s.on /\ t = cards'
    OBVIOUS
  <2>3. /\ IsSession(n) /\ Coherent(n) /\ EventsKept(n, t)
        /\ n.due \subseteq s.due \ {v} /\ n.on = Nil
        /\ \A w \in n.due : UpToDate(s, t, w) => UpToDate(n, t, w)
    BY <1>2, <1>4, <1>7, <2>1, <2>2, RankedSession
  <2>4. ASSUME Overtaking, NEW w \in n.due, w \notin overtaken'[r]
        PROVE  UpToDate(n, t, w) /\ n.on # w
    <3>1. w \in s.due /\ w \notin overtaken[r] /\ w # Nil /\ w # s.on
      BY <1>2, <1>8, <2>2, <2>3, <2>4, Undisturbed, ResultsAssumption DEF IsSession, Events
    <3>2. UpToDate(s, cards, w)
      BY <1>2, <3>1 DEF Sound
    <3>3. UpToDate(s, t, w)
      BY <1>3, <1>4, <2>2, <3>1, <3>2 DEF UpToDate
    <3>4. QED
      BY <2>3, <2>4, <3>1, <3>3
  <2>5. QED
    BY <2>2, <2>3, <2>4 DEF Sound
<1>9. QED
  BY <1>6, <1>8 DEF Moved

-----------------------------------------------------------------------------
(* The types and the sessions.                                             *)

LEMMA WithdrawnCards ==
  ASSUME ResultsTypeOK, NEW m, Withdraw(m)
  PROVE  /\ DOMAIN cards' = {i \in DOMAIN cards : cards[i].who # m}
         /\ \A i \in DOMAIN cards' : cards'[i] = cards[i]
  BY DEF Withdraw

LEMMA ClosedCards ==
  ASSUME ResultsTypeOK, NEW k, CloseWindow(k)
  PROVE  /\ DOMAIN cards' = DOMAIN cards
         /\ \A i \in DOMAIN cards : cards'[i] \in Card /\ Alike(cards'[i], cards[i])
<1> DEFINE closed == [cards[k] EXCEPT !.open = FALSE]
<1>1. k \in DOMAIN cards /\ cards[k] \in Card
  BY CardsTyped DEF CloseWindow
<1>2. closed \in Card /\ Alike(closed, cards[k])
  BY <1>1 DEF Card, Alike
<1>3. cards' = [cards EXCEPT ![k] = closed]
  BY DEF CloseWindow
<1> HIDE DEF closed
<1>4. DOMAIN cards' = DOMAIN cards
  BY <1>3
<1>5. \A i \in DOMAIN cards : cards'[i] = IF i = k THEN closed ELSE cards[i]
  BY <1>3
<1>6. \A i \in DOMAIN cards : Alike(cards[i], cards[i])
  BY DEF Alike
<1>7. QED
  BY <1>1, <1>2, <1>4, <1>5, <1>6, CardsTyped

(* A step that leaves the sessions to the requests: the rows of cards keep *)
(* their events, and no session has a card under an id that is new.        *)
CardsKept ==
  /\ IsTable(cards')
  /\ \A i \in DOMAIN cards' \intersect DOMAIN cards : cards'[i].event = cards[i].event
  /\ \A i \in DOMAIN cards' \ DOMAIN cards : \A r \in Requests : i \notin DOMAIN calls[r].read

LEMMA CardsStay == ResultsTypeOK /\ cards' = cards => CardsKept
BY DEF CardsKept, ResultsTypeOK

LEMMA ScoreStepKeeps ==
  ASSUME ResultsTypeOK, ScoreStep
  PROVE  /\ CardsKept /\ UNCHANGED <<calls, filing>>
         /\ appeals' \in [Slots -> Nat]
<1>1. ASSUME NEW v \in Events, NEW batch \in Batches(v),
             AddScores(v, batch) \/ AddUnranked(v, batch)
      PROVE  CardsKept /\ UNCHANGED <<appeals, calls, filing>>
  <2>1. /\ DOMAIN cards' \subseteq Ids
        /\ \A i \in DOMAIN cards : cards'[i] = cards[i]
        /\ \A i \in DOMAIN cards' \ DOMAIN cards : cards'[i] \in Card
        /\ UNCHANGED <<appeals, calls, filing>>
    BY <1>1, ScoresAdded
  <2>2. \A i \in DOMAIN cards' \ DOMAIN cards : i \in FreeIds
    BY <1>1, ScoresAdded
  <2>3. \A i \in FreeIds, r \in Requests : i \notin DOMAIN calls[r].read
    BY DEF FreeIds
  <2>4. IsTable(cards')
    BY <2>1, CardsTyped DEF IsTable
  <2>5. QED
    BY <2>1, <2>2, <2>3, <2>4 DEF CardsKept
<1>2. ASSUME NEW m \in Members, Withdraw(m)
      PROVE  CardsKept /\ UNCHANGED <<calls, filing>> /\ appeals' \in [Slots -> Nat]
  <2>1. CardsKept
    BY <1>2, WithdrawnCards, CardsTyped DEF CardsKept, IsTable
  <2>2. QED
    BY <1>2, <2>1 DEF Withdraw, ResultsTypeOK
<1>3. QED
  BY <1>1, <1>2 DEF ScoreStep, ResultsTypeOK

LEMMA RequestStepKeeps ==
  ASSUME ResultsInv, NEW r \in Requests, RequestStep(r)
  PROVE  /\ CardsKept
         /\ Moved(r) \/ UNCHANGED <<cards, calls>>
         /\ appeals' \in [Slots -> Nat] /\ filing' \in [Requests -> Slots \union {Nil}]
<1>0. ResultsTypeOK /\ DOMAIN calls = Requests
  BY DEF ResultsInv, ResultsTypeOK
<1>1. CASE CommitMarks(r) \/ CommitRanks(r)
  <2>1. Flush(calls[r]) /\ IsSession(calls[r]) /\ UNCHANGED <<appeals, filing>>
    BY <1>0, <1>1 DEF CommitMarks, CommitRanks, ResultsTypeOK
  <2>2. CardsKept
    <3> PICK s : s = calls[r]
      OBVIOUS
    <3>1. DOMAIN cards' = DOMAIN cards
          /\ \A i \in DOMAIN cards : cards'[i] \in Card /\ cards'[i].event = cards[i].event
      BY <1>0, <2>1, FlushedCards
    <3>2. QED
      BY <1>0, <3>1 DEF CardsKept, IsTable, ResultsTypeOK
  <2>3. QED
    BY <1>0, <1>1, <2>1, <2>2, MarksCommitted, RanksCommitted DEF ResultsTypeOK
<1>2. CASE \/ \E u \in Updates : ReadForUpdate(r, u)
           \/ \E v \in Events : RankDue(r, v) \/ Recalculate(r, v)
  <2>1. Moved(r) /\ cards' = cards
    BY <1>2, MarksRead, DueRanksRead, AllRanksRead
  <2>2. UNCHANGED <<appeals, filing>>
    BY <1>2 DEF ReadForUpdate, RankDue, Recalculate
  <2>3. QED
    BY <1>0, <2>1, <2>2, CardsStay DEF ResultsTypeOK
<1>3. ASSUME NEW s \in Slots, CheckAppeal(r, s[1], s[2])
      PROVE  /\ UNCHANGED <<cards, calls, appeals>>
             /\ filing' \in [Requests -> Slots \union {Nil}]
  <2>1. <<s[1], s[2]>> \in Slots
    BY ResultsAssumption
  <2>2. QED
    BY <1>0, <1>3, <2>1 DEF CheckAppeal, ResultsTypeOK
<1>4. CASE FileAppeal(r)
  <2>1. UNCHANGED <<cards, calls>> /\ filing' \in [Requests -> Slots \union {Nil}]
    BY <1>0, <1>4 DEF FileAppeal, ResultsTypeOK
  <2>2. appeals' \in [Slots -> Nat]
    BY <1>0, <1>4 DEF FileAppeal, ResultsTypeOK
  <2>3. QED
    BY <1>0, <2>1, <2>2, CardsStay
<1>5. CASE Abandon(r)
  <2>1. /\ UNCHANGED <<cards, appeals>> /\ calls' = [calls EXCEPT ![r] = Rest]
        /\ filing' \in [Requests -> Slots \union {Nil}]
    BY <1>0, <1>5 DEF Abandon, ResultsTypeOK
  <2>2. calls'[r] = Rest /\ DOMAIN calls' = Requests
        /\ \A q \in Requests : q # r => calls'[q] = calls[q]
    BY <1>0, <2>1
  <2>3. ASSUME NEW n, n = Rest  PROVE IsSession(n) /\ Sound(r, n)'
    BY <2>3, RestIsSession DEF Sound
  <2>4. Moved(r)
    BY <2>2, <2>3 DEF Moved
  <2>5. QED
    BY <1>0, <2>1, <2>4, CardsStay DEF ResultsTypeOK
<1>6. QED
  BY <1>0, <1>1, <1>2, <1>3, <1>4, <1>5, CardsStay DEF RequestStep, ResultsTypeOK

(* Every session after a step is sound: the one of the request that moved, *)
(* and those of the others.                                                *)
LEMMA SessionsStaySound ==
  ASSUME ResultsInv, CardsKept, Overtaking,
         \/ UNCHANGED calls
         \/ \E r \in Requests : Moved(r)
  PROVE  /\ DOMAIN calls' = Requests /\ \A q \in Requests : IsSession(calls'[q])
         /\ SessionsOK'
<1>1. DOMAIN calls = Requests /\ \A q \in Requests : IsSession(calls[q])
  BY DEF ResultsInv, ResultsTypeOK
<1>2. ASSUME NEW q \in Requests, calls'[q] = calls[q], NEW s, s = calls'[q]
      PROVE  Sound(q, s)'
  BY <1>2, OthersKeep DEF CardsKept
<1>3. CASE UNCHANGED calls
  BY <1>1, <1>2, <1>3 DEF SessionsOK
<1>4. ASSUME NEW r \in Requests, Moved(r)
      PROVE  /\ DOMAIN calls' = Requests /\ \A q \in Requests : IsSession(calls'[q])
             /\ SessionsOK'
  <2>1. /\ DOMAIN calls' = Requests
        /\ \A q \in Requests : q # r => calls'[q] = calls[q]
        /\ \A n : n = calls'[r] => IsSession(n) /\ Sound(r, n)'
    BY <1>4 DEF Moved
  <2>2. ASSUME NEW q \in Requests, NEW s, s = calls'[q]
        PROVE  IsSession(s) /\ Sound(q, s)'
    <3>1. CASE q = r
      BY <2>1, <2>2, <3>1
    <3>2. CASE q # r
      BY <1>1, <1>2, <2>1, <2>2, <3>2
    <3>3. QED
      BY <3>1, <3>2
  <2>3. QED
    BY <2>1, <2>2 DEF SessionsOK
<1>5. QED
  BY <1>3, <1>4

LEMMA ResultsStart == ResultsInit => ResultsInv
<1> SUFFICES ASSUME ResultsInit  PROVE ResultsInv
  OBVIOUS
<1>1. \A r \in Requests : calls[r] = Rest
  BY DEF ResultsInit
<1>2. DOMAIN calls = Requests /\ DOMAIN cards = {}
  BY DEF ResultsInit
<1>3. \A r \in Requests : IsSession(calls[r])
  BY <1>1, RestIsSession
<1>4. ResultsTypeOK
  BY <1>2, <1>3 DEF ResultsInit, ResultsTypeOK, IsTable
<1>5. SessionsOK
  <2>1. \A r \in Requests : Sound(r, Rest)
    BY RestIsSession DEF Sound
  <2>2. QED
    BY <1>1, <2>1 DEF SessionsOK
<1>6. QED
  BY <1>4, <1>5 DEF ResultsInv

LEMMA ResultsStep == ResultsInv /\ [ResultsNext]_rvars => ResultsInv'
<1> SUFFICES ASSUME ResultsInv, [ResultsNext]_rvars  PROVE ResultsInv'
  OBVIOUS
<1>0. ResultsTypeOK /\ SessionsOK
  BY DEF ResultsInv
<1>1. CASE (ScoreStep \/ \E r \in Requests : RequestStep(r)) /\ Overtaking
  <2>1. /\ CardsKept /\ appeals' \in [Slots -> Nat]
        /\ filing' \in [Requests -> Slots \union {Nil}]
        /\ UNCHANGED calls \/ \E r \in Requests : Moved(r)
    BY <1>0, <1>1, ScoreStepKeeps, RequestStepKeeps DEF ResultsTypeOK
  <2>2. /\ DOMAIN calls' = Requests /\ \A q \in Requests : IsSession(calls'[q])
        /\ SessionsOK'
    BY <1>1, <2>1, SessionsStaySound
  <2>3. overtaken' \in [Requests -> SUBSET Events]
    BY <1>1, <2>2, OvertakingTyped
  <2>4. IsTable(cards')
    BY <2>1 DEF CardsKept
  <2>5. QED
    BY <2>1, <2>2, <2>3, <2>4 DEF ResultsInv, ResultsTypeOK
<1>2. ASSUME NEW i \in Ids, CloseWindow(i)  PROVE ResultsInv'
  <2>1. /\ DOMAIN cards' = DOMAIN cards
        /\ \A k \in DOMAIN cards : cards'[k] \in Card /\ Alike(cards'[k], cards[k])
    BY <1>0, <1>2, ClosedCards
  <2>2. UNCHANGED <<appeals, calls, overtaken, filing>>
    BY <1>2 DEF CloseWindow
  <2>3. ResultsTypeOK'
    BY <1>0, <2>1, <2>2 DEF ResultsTypeOK, IsTable
  <2>4. ASSUME NEW r \in Requests, NEW s, s = calls'[r]  PROVE Sound(r, s)'
    <3>1. \A k \in DOMAIN cards' \intersect DOMAIN cards : cards'[k].event = cards[k].event
      BY <2>1 DEF Alike
    <3>2. QED
      BY <2>1, <2>2, <2>4, <3>1, OthersKeep
  <2>5. QED
    BY <2>3, <2>4 DEF ResultsInv, SessionsOK
<1>3. CASE UNCHANGED rvars
  <2>1. ResultsTypeOK'
    BY <1>0, <1>3 DEF rvars, ResultsTypeOK
  <2>2. ASSUME NEW r \in Requests, NEW s, s = calls'[r]  PROVE Sound(r, s)'
    <3>1. cards' = cards /\ calls' = calls /\ overtaken' = overtaken
      BY <1>3 DEF rvars
    <3>2. \A k \in DOMAIN cards : Alike(cards'[k], cards[k])
      BY <3>1 DEF Alike
    <3>3. QED
      BY <2>2, <3>1, <3>2, OthersKeep
  <2>3. QED
    BY <2>1, <2>2 DEF ResultsInv, SessionsOK
<1>4. QED
  BY <1>1, <1>2, <1>3 DEF ResultsNext

LEMMA ResultsAlways == ResultsSpec => []ResultsInv
BY ResultsStart, ResultsStep, PTL DEF ResultsSpec

LEMMA ResultsAlwaysTyped == ResultsSpec => []ResultsTypeOK
<1>1. ResultsInv => ResultsTypeOK
  BY DEF ResultsInv
<1>2. QED
  BY <1>1, ResultsAlways, PTL

-----------------------------------------------------------------------------
(* Disorder.                                                               *)

(* A commit of ranks that nothing overtook.                                *)
LEMMA RankedInOrder ==
  ASSUME ResultsInv, NEW r \in Requests, NEW v \in Events, calls[r].on = v,
         v \notin overtaken[r], CommitRanks(r)
  PROVE  InOrder(v)'
<1> PICK s : s = calls[r]
  OBVIOUS
<1>1. /\ ResultsTypeOK /\ IsSession(s) /\ Sound(r, s) /\ Flush(s)
      /\ s.step = "ranks" /\ s.on = v
  BY DEF ResultsInv, ResultsTypeOK, SessionsOK, CommitRanks
<1>2. UpToDate(s, cards, v) /\ RankedWhole(s, v) /\ EventsKept(s, cards)
  BY <1>1 DEF Sound, Coherent
<1>3. DOMAIN s.now = DOMAIN s.read /\ \A i \in DOMAIN s.now : s.now[i] \in Card
  BY <1>1 DEF IsSession, IsTable
<1>4. /\ DOMAIN cards' = DOMAIN cards
      /\ \A i \in DOMAIN cards :
           /\ cards'[i].event = cards[i].event
           /\ i \in DOMAIN s.read => cards'[i] = Over(s.read[i], s.now[i], cards[i])
  BY <1>1, FlushedCards
<1>5. CardsOf(v)' = CardsOf(v)
  BY <1>4 DEF CardsOf
<1>6. ASSUME NEW i \in CardsOf(v)
      PROVE  /\ cards'[i].mark = cards[i].mark
             /\ cards'[i].rank = RankAmong(v, i)
             /\ cards'[i].points = Total(v, cards[i].mark, RankAmong(v, i))
  <2>1. i \in DOMAIN cards /\ cards[i].event = v /\ i \in DOMAIN s.read
    BY <1>2 DEF CardsOf, RankedWhole
  <2>2. Alike(cards[i], s.read[i])
    BY <1>2, <2>1 DEF EventsKept, UpToDate
  <2>3. /\ s.now[i].mark = s.read[i].mark /\ s.now[i].rank = RankAmong(v, i)
        /\ s.now[i].points = Total(v, cards[i].mark, RankAmong(v, i))
    BY <1>2 DEF RankedWhole
  <2>4. PICK new \in Card, row \in Card : new = s.now[i] /\ row = cards[i]
    BY <1>1, <1>3, <2>1, CardsTyped
  <2>5. PICK old, x : old = s.read[i] /\ x = Over(old, new, row)
    OBVIOUS
  <2>6. cards'[i] = x
    BY <1>4, <2>1, <2>4, <2>5
  <2>7. /\ x.mark = IF new.mark # old.mark THEN new.mark ELSE row.mark
        /\ x.rank = IF new.rank # old.rank THEN new.rank ELSE row.rank
        /\ x.points = IF new.points # old.points THEN new.points ELSE row.points
    BY <2>5, OverCard
  <2>8. row.mark = old.mark /\ row.rank = old.rank /\ row.points = old.points
    BY <2>2, <2>4, <2>5 DEF Alike
  <2>9. x.mark = row.mark /\ x.rank = new.rank /\ x.points = new.points
    BY <2>3, <2>4, <2>5, <2>7, <2>8
  <2>10. QED
    BY <2>3, <2>4, <2>6, <2>9
<1>7. ASSUME NEW i \in CardsOf(v)  PROVE PlaceAmong(v, i)' = PlaceAmong(v, i)
  <2>1. {j \in CardsOf(v) : cards'[j].mark > cards'[i].mark}
          = {j \in CardsOf(v) : cards[j].mark > cards[i].mark}
    BY <1>6
  <2>2. QED
    BY <1>5, <2>1 DEF PlaceAmong
<1>8. QED
  BY <1>5, <1>6, <1>7 DEF InOrder, RankAmong

(* A step disturbs the order of an event only in these ways.               *)
Excused(v) ==
  \/ InOrder(v)'
  \/ CardsOf(v)' # CardsOf(v)
  \/ \E r \in Requests : Owes(r, v)'
  \/ \E r \in Requests : calls[r].on = v /\ v \in overtaken[r] /\ CommitRanks(r)

LEMMA SameCardsExcused ==
  ASSUME NEW v, InOrder(v), CardsOf(v)' = CardsOf(v),
         \A i \in CardsOf(v) : cards'[i] = cards[i]
  PROVE  Excused(v)
  BY OrderFollowsCards DEF Excused

LEMMA ScoreStepExcused ==
  ASSUME ResultsTypeOK, NEW v \in Events, InOrder(v), ScoreStep
  PROVE  Excused(v)
<1>1. ASSUME NEW w \in Events, NEW batch \in Batches(w),
             AddScores(w, batch) \/ AddUnranked(w, batch)
      PROVE  Excused(v)
  <2>1. /\ DOMAIN cards \subseteq DOMAIN cards'
        /\ DOMAIN cards' # DOMAIN cards
        /\ \A i \in DOMAIN cards : cards'[i] = cards[i]
        /\ \A i \in DOMAIN cards' \ DOMAIN cards : cards'[i].event = w
    BY <1>1, ScoresAdded
  <2>2. CASE w = v
    <3>1. PICK i \in DOMAIN cards' : i \notin DOMAIN cards
      BY <2>1
    <3>2. i \in CardsOf(v)' /\ i \notin CardsOf(v)
      BY <2>1, <2>2, <3>1 DEF CardsOf
    <3>3. QED
      BY <3>2 DEF Excused
  <2>3. CASE w # v
    <3>1. CardsOf(v)' = CardsOf(v) /\ \A i \in CardsOf(v) : cards'[i] = cards[i]
      BY <2>1, <2>3 DEF CardsOf
    <3>2. QED
      BY <3>1, SameCardsExcused
  <2>4. QED
    BY <2>2, <2>3
<1>2. ASSUME NEW m \in Members, Withdraw(m)  PROVE Excused(v)
  <2>1. \A i \in CardsOf(v)' : cards'[i] = cards[i]
    BY <1>2, WithdrawnCards DEF CardsOf
  <2>2. CASE CardsOf(v)' = CardsOf(v)
    BY <2>1, <2>2, SameCardsExcused
  <2>3. QED
    BY <2>2 DEF Excused
<1>3. QED
  BY <1>1, <1>2 DEF ScoreStep

(* A commit writes rows of the events that the request has yet to rank, of *)
(* ranks only those of the event it ranks.                                 *)
LEMMA MarksExcused ==
  ASSUME ResultsInv, NEW v \in Events, InOrder(v), NEW r \in Requests, CommitMarks(r)
  PROVE  Excused(v)
<1> PICK s : s = calls[r]
  OBVIOUS
<1>1. /\ ResultsTypeOK /\ IsSession(s) /\ Coherent(s) /\ EventsKept(s, cards) /\ Flush(s)
      /\ DOMAIN calls = Requests
  BY DEF ResultsInv, ResultsTypeOK, SessionsOK, CommitMarks, Sound
<1>2. CASE v \in s.due
  <2>1. calls'[r].due = s.due /\ calls'[r].step = "due"
    BY <1>1 DEF CommitMarks
  <2>2. QED
    BY <1>2, <2>1 DEF Excused, Owes
<1>3. CASE v \notin s.due
  <2>1. /\ DOMAIN cards' = DOMAIN cards
        /\ \A i \in DOMAIN cards : cards'[i].event = cards[i].event
                                   /\ (i \notin DOMAIN s.read => cards'[i] = cards[i])
    BY <1>1, FlushedCards
  <2>2. \A i \in CardsOf(v) : i \in DOMAIN cards /\ i \notin DOMAIN s.read
    BY <1>1, <1>3 DEF CardsOf, EventsKept, Coherent
  <2>3. CardsOf(v)' = CardsOf(v)
    BY <2>1 DEF CardsOf
  <2>4. QED
    BY <2>1, <2>2, <2>3, SameCardsExcused
<1>4. QED
  BY <1>2, <1>3

LEMMA RanksExcused ==
  ASSUME ResultsInv, NEW v \in Events, InOrder(v), NEW r \in Requests, CommitRanks(r)
  PROVE  Excused(v)
<1> PICK s : s = calls[r]
  OBVIOUS
<1>1. /\ ResultsTypeOK /\ IsSession(s) /\ Coherent(s) /\ EventsKept(s, cards) /\ Flush(s)
      /\ s.step = "ranks"
  BY DEF ResultsInv, ResultsTypeOK, SessionsOK, CommitRanks, Sound
<1>2. CASE s.on = v
  BY <1>2, RankedInOrder DEF Excused
<1>3. CASE s.on # v
  <2>1. /\ DOMAIN cards' = DOMAIN cards
        /\ \A i \in DOMAIN cards :
             /\ cards'[i].event = cards[i].event
             /\ i \notin DOMAIN s.read => cards'[i] = cards[i]
             /\ i \in DOMAIN s.read /\ s.now[i] = s.read[i] => cards'[i] = cards[i]
    BY <1>1, FlushedCards
  <2>2. \A i \in CardsOf(v) :
          i \in DOMAIN cards /\ (i \in DOMAIN s.read => s.now[i] = s.read[i])
    BY <1>1, <1>3 DEF CardsOf, EventsKept, Coherent
  <2>3. CardsOf(v)' = CardsOf(v)
    BY <2>1 DEF CardsOf
  <2>4. QED
    BY <2>1, <2>2, <2>3, SameCardsExcused
<1>4. QED
  BY <1>2, <1>3

LEMMA ResultsNextExcused ==
  ASSUME ResultsInv, NEW v \in Events, InOrder(v), ResultsNext
  PROVE  Excused(v)
<1>0. ResultsTypeOK
  BY DEF ResultsInv
<1>1. CASE cards' = cards
  <2>1. CardsOf(v)' = CardsOf(v) /\ \A i \in CardsOf(v) : cards'[i] = cards[i]
    BY <1>1 DEF CardsOf
  <2>2. QED
    BY <2>1, SameCardsExcused
<1>2. ASSUME NEW r \in Requests, RequestStep(r)  PROVE Excused(v)
  <2>1. \/ CommitMarks(r) \/ CommitRanks(r) \/ cards' = cards
    BY <1>2 DEF RequestStep, ReadForUpdate, RankDue, Recalculate, CheckAppeal,
                FileAppeal, Abandon
  <2>2. QED
    BY <1>1, <2>1, MarksExcused, RanksExcused
<1>3. ASSUME NEW k \in Ids, CloseWindow(k)  PROVE Excused(v)
  <2>1. DOMAIN cards' = DOMAIN cards /\ \A i \in DOMAIN cards : Alike(cards'[i], cards[i])
    BY <1>0, <1>3, ClosedCards
  <2>2. CardsOf(v)' = CardsOf(v)
    BY <2>1 DEF CardsOf, Alike
  <2>3. \A i \in CardsOf(v) :
          /\ cards'[i].mark = cards[i].mark
          /\ cards'[i].rank = cards[i].rank /\ cards'[i].points = cards[i].points
    BY <2>1 DEF CardsOf, Alike
  <2>4. QED
    BY <2>2, <2>3, OrderFollowsCards DEF Excused
<1>4. QED
  BY <1>0, <1>2, <1>3, ScoreStepExcused DEF ResultsNext

-----------------------------------------------------------------------------
(* Points follow marks.                                                    *)

(* A better mark is a better place; with one of the three places, or       *)
(* ahead of one that has one, it is more points.                           *)
LEMMA BetterPlace ==
  ASSUME ResultsTypeOK, NEW v, NEW i \in CardsOf(v), NEW j \in CardsOf(v),
         cards[i].mark > cards[j].mark
  PROVE  PlaceAmong(v, i) < PlaceAmong(v, j)
<1> DEFINE above(k) == {x \in CardsOf(v) : cards[x].mark > cards[k].mark}
<1>1. \A x \in CardsOf(v) : cards[x].mark \in Int
  BY CardsTyped DEF CardsOf
<1>2. above(i) \union {i} \subseteq above(j) /\ i \notin above(i)
  BY <1>1
<1>3. IsFiniteSet(above(i)) /\ IsFiniteSet(above(j))
  BY CardsFinite, FS_Subset
<1>4. /\ Cardinality(above(i)) \in Nat /\ Cardinality(above(j)) \in Nat
      /\ PlaceAmong(v, i) = 1 + Cardinality(above(i))
      /\ PlaceAmong(v, j) = 1 + Cardinality(above(j))
  BY <1>3, FS_CardinalityType DEF PlaceAmong
<1> HIDE DEF above
<1>5. Cardinality(above(i) \union {i}) = Cardinality(above(i)) + 1
  BY <1>2, <1>3, FS_AddElement
<1>6. Cardinality(above(i) \union {i}) <= Cardinality(above(j))
  BY <1>2, <1>3, FS_Subset
<1>7. QED
  BY <1>4, <1>5, <1>6

LEMMA MorePoints ==
  ASSUME ResultsTypeOK, NEW v, InOrder(v),
         NEW i \in CardsOf(v), NEW j \in CardsOf(v),
         cards[i].mark > cards[j].mark, PlaceAmong(v, i) <= 3
  PROVE  cards[i].points > cards[j].points
<1> DEFINE mi == cards[i].mark  mj == cards[j].mark
           pi == PlaceAmong(v, i)  pj == PlaceAmong(v, j)
<1>1. /\ cards[i].points = Total(v, mi, RankAmong(v, i))
      /\ cards[j].points = Total(v, mj, RankAmong(v, j))
  BY DEF InOrder, RankAmong
<1>2. pi \in Nat \ {0} /\ pj \in Nat \ {0} /\ pi < pj
  BY BetterPlace, PlacesAreNumbers
<1>3. mi \in Int /\ mj \in Int /\ mi > mj
  BY CardsTyped DEF CardsOf
<1>4. RankAmong(v, i) = pi /\ RankAmong(v, j) = IF pj <= 3 THEN pj ELSE 0
  BY DEF RankAmong
<1> HIDE DEF mi, mj, pi, pj
<1>5. RankPoints(RankAmong(v, i)) > RankPoints(RankAmong(v, j))
  <2>1. pi \in {1, 2, 3}
    BY <1>2, <1>4 DEF pi
  <2>2. CASE pj <= 3
    BY <1>2, <1>4, <2>1, <2>2 DEF RankPoints
  <2>3. CASE ~(pj <= 3)
    BY <1>4, <2>1, <2>3 DEF RankPoints
  <2>4. QED
    BY <2>2, <2>3
<1>6. GradePoints(mi) >= GradePoints(mj)
  BY <1>3 DEF GradePoints
<1>7. /\ GradePoints(mi) \in Int /\ GradePoints(mj) \in Int
      /\ RankPoints(RankAmong(v, i)) \in Int /\ RankPoints(RankAmong(v, j)) \in Int
  BY DEF GradePoints, RankPoints
<1>8. QED
  BY <1>1, <1>5, <1>6, <1>7 DEF Total

(* When a card is beyond the third place, three cards are not.             *)
LEMMA ThreePlaced ==
  ASSUME ResultsTypeOK, NEW v, NEW j \in CardsOf(v), PlaceAmong(v, j) > 3
  PROVE  Cardinality({x \in CardsOf(v) : PlaceAmong(v, x) <= 3}) >= 3
<1> DEFINE placed == {x \in CardsOf(v) : PlaceAmong(v, x) <= 3}
           rest   == CardsOf(v) \ placed
           marks  == {cards[x].mark : x \in rest}
<1>1. \A x \in CardsOf(v) : cards[x].mark \in 0 .. 100
  BY CardsTyped DEF CardsOf
<1>2. j \in rest
  BY PlacesAreNumbers
<1>3. marks \subseteq 0 .. 100 /\ marks # {}
  BY <1>1, <1>2
<1> HIDE DEF marks
<1>4. PICK m \in marks : \A y \in marks : y <= m
  BY <1>3, LastOf
<1>5. PICK q \in rest : cards[q].mark = m
  BY DEF marks
<1>6. \A x \in rest : cards[x].mark <= cards[q].mark
  BY <1>4, <1>5 DEF marks
<1> DEFINE above == {x \in CardsOf(v) : cards[x].mark > cards[q].mark}
<1>7. ASSUME NEW x \in above  PROVE x \in placed
  <2>1. x \in CardsOf(v) /\ cards[x].mark \in Int /\ cards[q].mark \in Int
    BY <1>1, <1>5
  <2>2. x \notin rest
    BY <1>6, <2>1
  <2>3. QED
    BY <2>1, <2>2
<1>8. IsFiniteSet(placed) /\ IsFiniteSet(above)
  BY CardsFinite, FS_Subset
<1>9. Cardinality(above) <= Cardinality(placed)
  BY <1>7, <1>8, FS_Subset
<1>10. Cardinality(above) \in Nat /\ Cardinality(placed) \in Nat
  BY <1>8, FS_CardinalityType
<1>11. PlaceAmong(v, q) = 1 + Cardinality(above)
  BY DEF PlaceAmong
<1>12. ~(PlaceAmong(v, q) <= 3)
  BY <1>5
<1> HIDE DEF placed, above
<1>13. Cardinality(placed) >= 3
  BY <1>9, <1>10, <1>11, <1>12
<1>14. QED
  BY <1>13 DEF placed

(* So what is published is not bettered by what is left out: a card left   *)
(* out with a better mark than one shown has more points, or is beyond     *)
(* third place, and then of the three that are not, one was left out that  *)
(* has.                                                                    *)
LEMMA PublishedFollowsMarks ==
  ASSUME ResultsTypeOK, NEW v, InOrder(v), NEW T \in Published(v),
         NEW i \in T, NEW j \in CardsOf(v) \ T
  PROVE  cards[i].mark >= cards[j].mark
<1>1. /\ T \subseteq CardsOf(v)
      /\ \A x \in T, y \in CardsOf(v) \ T : cards[x].points >= cards[y].points
      /\ Cardinality(T) = IF Cardinality(CardsOf(v)) < 3 THEN Cardinality(CardsOf(v)) ELSE 3
  BY DEF Published
<1>2. \A x \in CardsOf(v) : cards[x].mark \in Int /\ cards[x].points \in Int
  BY CardsTyped DEF CardsOf, Card
<1>3. i \in CardsOf(v) /\ j \in CardsOf(v)
  BY <1>1
<1> SUFFICES ASSUME cards[j].mark > cards[i].mark  PROVE FALSE
  BY <1>2, <1>3
<1>4. \A y \in CardsOf(v) \ T : ~(cards[y].points > cards[i].points)
  BY <1>1, <1>2, <1>3
<1>5. PlaceAmong(v, j) \in Nat /\ PlaceAmong(v, j) < PlaceAmong(v, i)
      /\ PlaceAmong(v, i) \in Nat
  BY <1>3, BetterPlace, PlacesAreNumbers
<1>6. ~(PlaceAmong(v, j) <= 3)
  BY <1>3, <1>4, MorePoints
<1> DEFINE placed == {x \in CardsOf(v) : PlaceAmong(v, x) <= 3}
<1>7. i \notin placed
  BY <1>5, <1>6
<1>8. Cardinality(placed) >= 3
  BY <1>3, <1>5, <1>6, ThreePlaced
<1>9. PICK k \in placed : k \notin T
  <2> SUFFICES ASSUME placed \subseteq T  PROVE FALSE
    OBVIOUS
  <2>1. IsFiniteSet(CardsOf(v)) /\ IsFiniteSet(T) /\ IsFiniteSet(placed)
    BY <1>1, CardsFinite, FS_Subset
  <2>2. Cardinality(placed \union {i}) = Cardinality(placed) + 1
    BY <1>7, <2>1, FS_AddElement
  <2> HIDE DEF placed
  <2>3. Cardinality(placed \union {i}) <= Cardinality(T)
    BY <2>1, FS_Subset
  <2>4. /\ Cardinality(T) \in Nat /\ Cardinality(placed) \in Nat
        /\ Cardinality(CardsOf(v)) \in Nat
    BY <2>1, FS_CardinalityType
  <2>5. Cardinality(T) <= 3
    BY <1>1, <2>4
  <2>6. QED
    BY <1>8, <2>2, <2>3, <2>4, <2>5
<1>10. cards[k].mark > cards[i].mark
  <2>1. k \in CardsOf(v) /\ PlaceAmong(v, k) <= 3 /\ PlaceAmong(v, k) \in Nat
    BY <1>9, PlacesAreNumbers
  <2>2. PlaceAmong(v, k) < PlaceAmong(v, i)
    BY <1>5, <1>6, <2>1
  <2>3. PlaceAmong(v, i) <= PlaceAmong(v, k) \/ cards[k].mark > cards[i].mark
    <3> SUFFICES ASSUME cards[k].mark <= cards[i].mark
                 PROVE  PlaceAmong(v, i) <= PlaceAmong(v, k)
      BY <1>2, <1>3, <2>1
    <3> DEFINE above(x) == {y \in CardsOf(v) : cards[y].mark > cards[x].mark}
    <3>1. above(i) \subseteq above(k)
      BY <1>2, <1>3, <2>1
    <3>2. IsFiniteSet(above(k)) /\ IsFiniteSet(above(i))
      BY CardsFinite, FS_Subset
    <3>3. Cardinality(above(i)) <= Cardinality(above(k))
      BY <3>1, <3>2, FS_Subset
    <3>4. /\ Cardinality(above(i)) \in Nat /\ Cardinality(above(k)) \in Nat
          /\ PlaceAmong(v, i) = 1 + Cardinality(above(i))
          /\ PlaceAmong(v, k) = 1 + Cardinality(above(k))
      BY <3>2, FS_CardinalityType DEF PlaceAmong
    <3> HIDE DEF above
    <3>5. QED
      BY <3>3, <3>4
  <2>4. QED
    BY <1>5, <2>1, <2>2, <2>3
<1>11. cards[k].points > cards[i].points
  BY <1>3, <1>9, <1>10, MorePoints
<1>12. QED
  BY <1>4, <1>9, <1>11

-----------------------------------------------------------------------------
(* Appeals.                                                                *)

LEMMA AppealStarts == ResultsInit => AppealQuota!AdmissionInit
BY DEF ResultsInit, AppealQuota!AdmissionInit

LEMMA AppealStep ==
  ASSUME ResultsTypeOK, [ResultsNext]_rvars
  PROVE  [AppealQuota!AdmissionNext]_(AppealQuota!avars)
<1> USE DEF AppealQuota!AdmissionNext, AppealQuota!avars
<1>1. ASSUME NEW r \in Requests, NEW s \in Slots, CheckAppeal(r, s[1], s[2])
      PROVE  AppealQuota!Pass(r, s)
  <2>1. <<s[1], s[2]>> = s
    BY ResultsAssumption
  <2>2. appeals[s] = 0 /\ filing[r] = Nil
    BY <1>1, <2>1 DEF CheckAppeal, MaySubmit, Busy
  <2>3. filing' = [filing EXCEPT ![r] = s] /\ UNCHANGED appeals
    BY <1>1, <2>1 DEF CheckAppeal
  <2>4. appeals[s] < 1
    BY <2>2
  <2>5. QED
    BY <2>2, <2>3, <2>4 DEF AppealQuota!Pass
<1>2. ASSUME NEW r \in Requests, FileAppeal(r)
      PROVE  AppealQuota!Admit(r)
  BY <1>2 DEF FileAppeal, AppealQuota!Admit
<1>3. ASSUME NEW r \in Requests, Abandon(r)
      PROVE  AppealQuota!Refuse(r) \/ UNCHANGED <<appeals, filing>>
  BY <1>3 DEF Abandon, AppealQuota!Refuse, ResultsTypeOK
<1>4. ASSUME NEW m \in Members, Withdraw(m)
      PROVE  AppealQuota!Leave
  BY <1>4 DEF Withdraw, AppealQuota!Leave, ResultsTypeOK
<1>5. CASE UNCHANGED <<appeals, filing>>
  BY <1>5
<1>6. ASSUME NEW r \in Requests, RequestStep(r)
      PROVE  [AppealQuota!AdmissionNext]_(AppealQuota!avars)
  <2>1. CASE \/ \E u \in Updates : ReadForUpdate(r, u)
             \/ CommitMarks(r) \/ CommitRanks(r)
             \/ \E v \in Events : RankDue(r, v) \/ Recalculate(r, v)
    BY <1>5, <2>1 DEF ReadForUpdate, CommitMarks, CommitRanks, RankDue, Recalculate
  <2>2. QED
    BY <1>1, <1>2, <1>3, <1>6, <2>1 DEF RequestStep
<1>7. ASSUME ScoreStep
      PROVE  [AppealQuota!AdmissionNext]_(AppealQuota!avars)
  BY <1>4, <1>5, <1>7 DEF ScoreStep, AddScores, AddUnranked
<1>8. QED
  BY <1>5, <1>6, <1>7 DEF ResultsNext, CloseWindow, rvars

-----------------------------------------------------------------------------
(* The theorems.                                                           *)

(* In an event that is in order the published list leaves out no mark      *)
(* better than one it shows, for any number of cards.                      *)
THEOREM PodiumsFollowMarks == ResultsSpec => []PodiumFollowsMarks
<1>1. ResultsTypeOK => PodiumFollowsMarks
  BY PublishedFollowsMarks DEF PodiumFollowsMarks
<1>2. QED
  BY <1>1, ResultsAlwaysTyped, PTL

(* The order of an event is lost only as cards come or go, to a ranking    *)
(* still owed, or to one that others overtook, for any number of requests, *)
(* cards and events.                                                       *)
THEOREM DisorderAlwaysOwed == ResultsSpec => DisorderIsOwed
<1>1. ResultsInv /\ [ResultsNext]_rvars =>
        [\A v \in Events : InOrder(v) /\ ~InOrder(v)' =>
           \/ CardsOf(v)' # CardsOf(v)
           \/ \E r \in Requests : Owes(r, v)'
           \/ \E r \in Requests :
                calls[r].on = v /\ v \in overtaken[r] /\ CommitRanks(r)]_rvars
  BY ResultsNextExcused DEF Excused
<1>2. QED
  BY <1>1, ResultsAlways, PTL DEF ResultsSpec, DisorderIsOwed

(* Every ranking that others have not overtaken puts its event in order.   *)
THEOREM RankingsRestore == ResultsSpec => RankingRestores
<1>1. ResultsInv /\ [ResultsNext]_rvars =>
        [\A r \in Requests, v \in Events :
           calls[r].on = v /\ v \notin overtaken[r] /\ CommitRanks(r) => InOrder(v)']_rvars
  BY RankedInOrder
<1>2. QED
  BY <1>1, ResultsAlways, PTL DEF ResultsSpec, RankingRestores

(* The appeals are an admission of one for each chest number and event ... *)
THEOREM AppealsImplement == ResultsSpec => AppealQuotaKept
BY AppealStarts, AppealStep, ResultsAlwaysTyped, PTL
DEF ResultsSpec, AppealQuotaKept, AppealQuota!AdmissionSpec

(* ... so there are never more of them than requests at the same time.     *)
THEOREM AppealsBounded == ResultsSpec => []AppealQuota!OvershootBounded
<1>1. AppealQuota!AdmissionConstants
  BY ResultsAssumption DEF AppealQuota!AdmissionConstants, AppealQuota!IsFiniteSet, IsFiniteSet
<1>2. AppealQuota!AdmissionSpec
        => [](AppealQuota!AdmissionInv /\ AppealQuota!OvershootBounded)
  BY <1>1, ResultsAssumption, AppealQuota!AdmissionBounded
<1>3. QED
  BY <1>2, AppealsImplement, PTL DEF AppealQuotaKept

=============================================================================
