---------------------------- MODULE RecallProofs ----------------------------
(***************************************************************************)
(* Proofs about Recall: what is in an answer, in which order, what its     *)
(* trace says of it, and how the hop measures distance, for any memories,  *)
(* graph, settings of the ranker, query, opinions and number of faults.    *)
(*                                                                         *)
(* First what sorting, filtering and cutting lists does to them; then      *)
(* that fusion, the second stage and the reserved places each make a       *)
(* ranking of a ranking: a list of memories, none of them twice, and which *)
(* of them.  The invariant says that at every stage of a recall, and the   *)
(* properties follow from it.                                              *)
(***************************************************************************)
EXTENDS Recall, FiniteSetTheorems, FunctionTheorems, SequenceTheorems, WellFoundedInduction, TLAPS

-----------------------------------------------------------------------------
(* Lists.                                                                   *)

\* A set of numbers with 0 and every member's successor has them all: the
\* induction of these proofs, from the well-foundedness of the numbers.
LEMMA CountingUp ==
  ASSUME NEW S, 0 \in S, \A n \in Nat : n \in S => n + 1 \in S
  PROVE  \A n \in Nat : n \in S
<1> DEFINE R == {ss \in Nat \X Nat : ss[1] < ss[2]}
<1>1. IsWellFoundedOn(R, Nat)
  BY NatLessThanWellFounded DEF OpToRel
<1> SUFFICES ASSUME \E n \in Nat : n \notin S PROVE FALSE
  OBVIOUS
<1> DEFINE T == Nat \ S
<1>2. T \subseteq Nat /\ T # {}
  OBVIOUS
<1>3. PICK x \in T : \A y \in T : ~(<<y, x>> \in R)
  <2> HIDE DEF R, T
  <2> QED BY <1>1, <1>2, WFMin
<1>4. x # 0 /\ x - 1 \in Nat
  BY <1>3
<1>5. x - 1 \in S => x \in S
  BY <1>4
<1>6. <<x - 1, x>> \in R
  BY <1>4
<1> QED BY <1>3, <1>4, <1>5, <1>6

\* R puts the members of S in a line.
StrictTotal(R, S) ==
  /\ \A x \in S : <<x, x>> \notin R
  /\ \A x, y, z \in S : <<x, y>> \in R /\ <<y, z>> \in R => <<x, z>> \in R
  /\ \A x, y \in S : x = y \/ <<x, y>> \in R \/ <<y, x>> \in R

\* A set that an order puts in a line is listed in that order, each once.
LEMMA ListedInOrder ==
  ASSUME NEW S, IsFiniteSet(S), NEW R, StrictTotal(R, S)
  PROVE  /\ Cardinality(S) \in Nat
         /\ Listed(S, R) \in Bijection(1..Cardinality(S), S)
         /\ \A i, j \in 1..Cardinality(S) : i < j => <<Listed(S, R)[i], Listed(S, R)[j]>> \in R
<1> DEFINE n == Cardinality(S)
           Preceding(x) == {y \in S : <<y, x>> \in R}
           rank == [x \in S |-> Cardinality(Preceding(x))]
           list == Listed(S, R)
<1>1. n \in Nat /\ IsFiniteSet(0..n - 1) /\ Cardinality(0..n - 1) = n
  <2>1. n \in Nat
    BY FS_CardinalityType
  <2> HIDE DEF n
  <2>2. /\ IsFiniteSet(0..n - 1)
        /\ Cardinality(0..n - 1) = IF 0 > n - 1 THEN 0 ELSE (n - 1) - 0 + 1
    BY <2>1, FS_Interval
  <2> QED BY <2>1, <2>2
<1>2. ASSUME NEW x \in S PROVE /\ IsFiniteSet(Preceding(x)) /\ Cardinality(Preceding(x)) \in Nat
                                  /\ Cardinality(Preceding(x)) \in 0..n - 1
  <2>1. Preceding(x) \in SUBSET S /\ x \notin Preceding(x)
    BY DEF StrictTotal
  <2>2. /\ IsFiniteSet(Preceding(x)) /\ Cardinality(Preceding(x)) <= n
        /\ Cardinality(Preceding(x)) = n => S = Preceding(x)
    BY <2>1, FS_Subset
  <2>3. Cardinality(Preceding(x)) \in Nat
    BY <2>2, FS_CardinalityType
  <2> QED BY <2>1, <2>2, <2>3, <1>1
<1>3. ASSUME NEW x \in S, NEW y \in S, <<x, y>> \in R
      PROVE  Cardinality(Preceding(x)) < Cardinality(Preceding(y))
  <2>1. Preceding(x) \in SUBSET Preceding(y) /\ x \in Preceding(y) /\ x \notin Preceding(x)
    BY <1>3 DEF StrictTotal
  <2>2. /\ Cardinality(Preceding(x)) <= Cardinality(Preceding(y))
        /\ Cardinality(Preceding(x)) = Cardinality(Preceding(y)) => Preceding(y) = Preceding(x)
    BY <2>1, <1>2, FS_Subset
  <2>4. Preceding(x) # Preceding(y)
    BY <2>1
  <2> HIDE DEF Preceding
  <2>3. Cardinality(Preceding(x)) \in Nat /\ Cardinality(Preceding(y)) \in Nat
    BY <1>2
  <2> QED BY <2>2, <2>3, <2>4
<1>4. rank \in Injection(S, 0..n - 1)
  <2>1. rank \in [S -> 0..n - 1]
    BY <1>2
  <2>2. ASSUME NEW x \in S, NEW y \in S, rank[x] = rank[y] PROVE x = y
    <3>1. Cardinality(Preceding(x)) \in Nat /\ Cardinality(Preceding(x)) = Cardinality(Preceding(y))
      <4>1. rank[x] = Cardinality(Preceding(x)) /\ rank[y] = Cardinality(Preceding(y))
        OBVIOUS
      <4> HIDE DEF Preceding, rank
      <4> QED BY <1>2, <2>2, <4>1
    <3>2. <<x, y>> \notin R /\ <<y, x>> \notin R
      <4> HIDE DEF Preceding
      <4> QED BY <1>3, <3>1
    <3> QED BY <3>2 DEF StrictTotal
  <2> QED BY <2>1, <2>2, Fun_IsInj
<1>5. rank \in Surjection(S, 0..n - 1)
  BY <1>1, <1>4, FS_Injection
<1>6. ASSUME NEW i \in 1..n
      PROVE  list[i] \in S /\ rank[list[i]] = i - 1
  <2>1. \E x \in S : rank[x] = i - 1
    <3>1. i - 1 \in 0..n - 1
      BY <1>1
    <3> HIDE DEF n, rank
    <3>2. \A t \in 0..n - 1 : \E x \in S : rank[x] = t
      BY <1>5, Fun_SurjectionProperties
    <3> QED BY <3>1, <3>2
  <2>2. \E x \in S : Cardinality({y \in S : <<y, x>> \in R}) = i - 1
    BY <2>1
  <2>3. list[i] = CHOOSE x \in S : Cardinality({y \in S : <<y, x>> \in R}) = i - 1
    BY DEF Listed
  <2> QED BY <2>2, <2>3
<1>11. \A x, y \in S : rank[x] = rank[y] => x = y
  BY <1>4, Fun_InjectionProperties
<1>12. rank \in [S -> 0..n - 1]
  BY <1>4, Fun_InjectionProperties
<1> HIDE DEF list, rank, n
<1>7. ASSUME NEW x \in S PROVE rank[x] + 1 \in 1..n /\ list[rank[x] + 1] = x
  <2>1. rank[x] \in 0..n - 1
    BY <1>12
  <2>2. rank[x] + 1 \in 1..n
    BY <2>1, <1>1
  <2>3. rank[list[rank[x] + 1]] = rank[x] /\ list[rank[x] + 1] \in S
    BY <2>1, <2>2, <1>6
  <2> QED BY <2>2, <2>3, <1>11
<1>8. list \in [1..n -> S]
  BY <1>6 DEF list, Listed, n
<1>9. list \in Bijection(1..n, S)
  <2>1. \A i, j \in 1..n : list[i] = list[j] => i = j
    BY <1>1, <1>6
  <2>2. \A x \in S : \E i \in 1..n : list[i] = x
    BY <1>7
  <2> QED BY <1>8, <2>1, <2>2, Fun_IsBij
<1>10. ASSUME NEW i \in 1..n, NEW j \in 1..n, i < j PROVE <<list[i], list[j]>> \in R
  <2>1. list[i] \in S /\ list[j] \in S /\ list[i] # list[j]
    BY <1>6, <1>10, <1>1
  <2>2. <<list[j], list[i]>> \in R => FALSE
    <3> HAVE <<list[j], list[i]>> \in R
    <3>1. rank[list[j]] < rank[list[i]]
      BY <2>1, <1>3 DEF rank
    <3> QED BY <3>1, <1>6, <1>10, <1>1
  <2> QED BY <2>1, <2>2 DEF StrictTotal
<1> QED BY <1>1, <1>9, <1>10 DEF list, n
\* What FS_Interval says of the places of a list.
LEMMA PlacesAreFinite ==
  ASSUME NEW n \in Nat
  PROVE  IsFiniteSet(1..n) /\ Cardinality(1..n) = n
<1>1. /\ IsFiniteSet(1..n)
      /\ Cardinality(1..n) = IF 1 > n THEN 0 ELSE n - 1 + 1
  BY FS_Interval
<1> QED BY <1>1

\* Every non-empty set of numbers has a least one.
LEMMA LeastIsLeast ==
  ASSUME NEW S \in SUBSET Nat, S # {}
  PROVE  Least(S) \in S /\ \A y \in S : Least(S) <= y
<1> DEFINE Low == {n \in Nat : \A y \in S : n <= y}
<1>1. 0 \in Low
  OBVIOUS
<1>2. PICK y \in S : TRUE
  OBVIOUS
<1>3. y + 1 \notin Low
  BY <1>2
<1>4. \E n \in Nat : n \in Low /\ n + 1 \notin Low
  <2> SUFFICES ASSUME \A n \in Nat : n \in Low => n + 1 \in Low PROVE FALSE
    OBVIOUS
  <2>1. \A n \in Nat : n \in Low
    <3> HIDE DEF Low
    <3> QED BY <1>1, CountingUp
  <2> QED BY <1>2, <1>3, <2>1
<1>5. PICK n \in Nat : n \in Low /\ n + 1 \notin Low
  BY <1>4
<1>6. n \in S /\ \A z \in S : n <= z
  BY <1>5
<1> QED BY <1>6 DEF Least

\* R orders the members of T, some of them alike.
StrictWeak(R, T) ==
  /\ \A x, y \in T : <<x, y>> \in R => <<y, x>> \notin R
  /\ \A x, y, z \in T : <<x, y>> \in R => <<x, z>> \in R \/ <<z, y>> \in R

\* StableOrder, of a relation.
PlacesBefore(list, R) ==
  {p \in (DOMAIN list) \X (DOMAIN list) :
     \/ <<list[p[1]], list[p[2]]>> \in R
     \/ <<list[p[2]], list[p[1]]>> \notin R /\ p[1] < p[2]}

\* StableSort, by a relation.
SortedBy(list, R) == [i \in DOMAIN list |-> list[Listed(DOMAIN list, PlacesBefore(list, R))[i]]]

\* A stable sort permutes the list: what comes first is smaller, or no larger
\* and stood first (slice::sort_by).
LEMMA StableSorted ==
  ASSUME NEW T, NEW list \in Seq(T), NEW R, StrictWeak(R, T),
         NEW order, order = Listed(DOMAIN list, PlacesBefore(list, R))
  PROVE  /\ order \in Bijection(DOMAIN list, DOMAIN list)
         /\ \A i, j \in DOMAIN list : i < j =>
              \/ <<list[order[i]], list[order[j]]>> \in R
              \/ <<list[order[j]], list[order[i]]>> \notin R /\ order[i] < order[j]
<1> DEFINE D == DOMAIN list
           Q == PlacesBefore(list, R)
<1>1. D = 1..Len(list) /\ Len(list) \in Nat /\ \A i \in D : list[i] \in T
  OBVIOUS
<1>2. IsFiniteSet(D) /\ Cardinality(D) = Len(list)
  BY <1>1, PlacesAreFinite
<1>3. StrictTotal(Q, D)
  <2> DEFINE W(x, y) == <<list[x], list[y]>> \in R
  <2>1. \A x, y \in D : W(x, y) => ~ W(y, x)
    BY <1>1 DEF StrictWeak
  <2>2. \A x, y, z \in D : W(x, y) => W(x, z) \/ W(z, y)
    BY <1>1 DEF StrictWeak
  <2>3. \A x, y \in D : <<x, y>> \in Q <=> W(x, y) \/ (~ W(y, x) /\ x < y)
    BY DEF PlacesBefore
  <2>4. \A x, y \in D : x \in Int /\ y \in Int
    BY <1>1
  <2> HIDE DEF W, D, Q
  <2>5. \A x \in D : <<x, x>> \notin Q
    BY <2>1, <2>3, <2>4
  <2>6. ASSUME NEW x \in D, NEW y \in D, NEW z \in D, <<x, y>> \in Q, <<y, z>> \in Q
        PROVE  <<x, z>> \in Q
    BY <2>1, <2>2, <2>3, <2>4, <2>6
  <2>7. ASSUME NEW x \in D, NEW y \in D PROVE x = y \/ <<x, y>> \in Q \/ <<y, x>> \in Q
    <3>1. x = y \/ x < y \/ y < x
      BY <2>4
    <3> QED BY <2>3, <3>1
  <2> QED BY <2>5, <2>6, <2>7 DEF StrictTotal
<1>4. /\ order \in Bijection(1..Len(list), D)
      /\ \A i, j \in 1..Len(list) : i < j => <<order[i], order[j]>> \in Q
  BY <1>2, <1>3, ListedInOrder
<1>5. \A i \in D : order[i] \in D
  <2>1. order \in [1..Len(list) -> D]
    BY <1>4, Fun_BijectionProperties
  <2> QED BY <1>1, <2>1
<1>6. ASSUME NEW i \in D, NEW j \in D, i < j
      PROVE  \/ <<list[order[i]], list[order[j]]>> \in R
             \/ <<list[order[j]], list[order[i]]>> \notin R /\ order[i] < order[j]
  BY <1>1, <1>4, <1>5, <1>6 DEF PlacesBefore
<1> QED BY <1>1, <1>4, <1>6

\* What a filter keeps of a list keeps its order (Vec::retain).
LEMMA KeptInOrder ==
  ASSUME NEW T, NEW list \in Seq(T), NEW places \in SUBSET DOMAIN list
  PROVE  \E n \in Nat : \E order \in Bijection(1..n, places) :
           /\ \A i, j \in 1..n : i < j => order[i] < order[j]
           /\ Kept(list, places) = [i \in 1..n |-> list[order[i]]]
           /\ Kept(list, places) \in Seq(T)
           /\ n <= Len(list)
<1> DEFINE n == Cardinality(places)
           Q == {p \in places \X places : p[1] < p[2]}
           order == Listed(places, Q)
<1>1. DOMAIN list = 1..Len(list) /\ Len(list) \in Nat /\ \A i \in DOMAIN list : list[i] \in T
  OBVIOUS
<1>2. IsFiniteSet(places) /\ n <= Len(list)
  <2>1. IsFiniteSet(1..Len(list)) /\ Cardinality(1..Len(list)) = Len(list)
    BY <1>1, PlacesAreFinite
  <2>2. places \in SUBSET (1..Len(list))
    BY <1>1
  <2>3. IsFiniteSet(places) /\ Cardinality(places) <= Cardinality(1..Len(list))
    BY <2>1, <2>2, FS_Subset
  <2> QED BY <1>1, <2>1, <2>3
<1>3. StrictTotal(Q, places)
  <2>1. \A x \in places : x \in Int
    BY <1>1
  <2> QED BY <2>1 DEF StrictTotal
<1>4. /\ n \in Nat
      /\ order \in Bijection(1..n, places)
      /\ \A i, j \in 1..n : i < j => <<order[i], order[j]>> \in Q
  <2> HIDE DEF Q
  <2> QED BY <1>2, <1>3, ListedInOrder
<1>5. Kept(list, places) = [i \in 1..n |-> list[order[i]]]
  BY DEF Kept, Sorted
<1> HIDE DEF order, n
<1>6. \A i \in 1..n : order[i] \in places
  BY <1>4 DEF Bijection, Injection
<1>7. \A i, j \in 1..n : i < j => order[i] < order[j]
  BY <1>4
<1>8. Kept(list, places) \in Seq(T)
  BY <1>1, <1>4, <1>5, <1>6
<1> QED BY <1>2, <1>4, <1>5, <1>7, <1>8

-----------------------------------------------------------------------------
(* What the legs say, and the scores.                                       *)

\* The same of Min.
LEMMA MinIsLeast ==
  ASSUME NEW S \in SUBSET Nat, S # {}
  PROVE  Min(S) \in S /\ \A y \in S : Min(S) <= y
BY LeastIsLeast DEF Min, Least

\* The rank of an id in a leg: its first place, and 0 where it has none.
LEMMA RankOfFinds ==
  ASSUME NEW T, NEW leg \in Seq(T), NEW id
  PROVE  /\ RankOf(leg, id) \in Nat
         /\ RankOf(leg, id) > 0 => RankOf(leg, id) \in DOMAIN leg /\ leg[RankOf(leg, id)] = id
         /\ RankOf(leg, id) = 0 => \A i \in DOMAIN leg : leg[i] # id
         /\ \A i \in DOMAIN leg : leg[i] = id => RankOf(leg, id) <= i
<1> DEFINE at == {i \in 1..Len(leg) : leg[i] = id}
<1>1. RankOf(leg, id) = IF at # {} THEN Min(at) ELSE 0
  BY DEF RankOf, SelectInSeq
<1>2. at \in SUBSET Nat /\ Len(leg) \in Nat /\ DOMAIN leg = 1..Len(leg)
  OBVIOUS
<1>3. at # {} => Min(at) \in at /\ \A y \in at : Min(at) <= y
  <2> HIDE DEF at
  <2> QED BY <1>2, MinIsLeast
<1> QED BY <1>1, <1>2, <1>3

\* The place of an id in the second stage's leg, and 0 where it has none.
LEMMA JudgedAtFinds ==
  ASSUME NEW T, NEW leg \in Seq(T), NEW id
  PROVE  /\ JudgedAt(leg, id) \in Nat
         /\ JudgedAt(leg, id) > 0 => JudgedAt(leg, id) \in DOMAIN leg /\ leg[JudgedAt(leg, id)][1] = id
         /\ JudgedAt(leg, id) = 0 => \A i \in DOMAIN leg : leg[i][1] # id
<1> DEFINE at == {i \in 1..Len(leg) : leg[i][1] = id}
<1>1. JudgedAt(leg, id) = IF at # {} THEN Min(at) ELSE 0
  BY DEF JudgedAt, SelectInSeq
<1>2. at \in SUBSET Nat /\ Len(leg) \in Nat /\ DOMAIN leg = 1..Len(leg)
  OBVIOUS
<1>3. at # {} => Min(at) \in at /\ \A y \in at : Min(at) <= y
  <2> HIDE DEF at
  <2> QED BY <1>2, MinIsLeast
<1> QED BY <1>1, <1>2, <1>3

Told == {About[m] : m \in Memories}
Detailed == [vector : Nat, bm25 : Nat, graph : Nat, rerank : Nat]
Scored == [memory : Told, score : Int, relevance : Int, judged : Int, matched : Detailed]

\* Division stays among the integers, and above zero.
LEMMA Divides ==
  ASSUME NEW a \in Int, NEW b \in Nat, b > 0
  PROVE  /\ a \div b \in Int
         /\ a >= 0 => a \div b >= 0
OBVIOUS

\* The reciprocal of a rank is a natural number.
LEMMA ReciprocalIsNatural ==
  ASSUME NEW rank \in Nat PROVE ReciprocalRank(rank) \in Nat
<1>1. RrfK + rank \in Nat /\ RrfK + rank > 0 /\ Unit \in Int /\ Unit >= 0
  BY DEF RrfK, Unit
<1>2. Unit \div (RrfK + rank) \in Int /\ Unit \div (RrfK + rank) >= 0
  BY <1>1, Divides
<1> QED BY <1>2 DEF ReciprocalRank

\* A dampened factor never falls below 80 percent.
LEMMA FlooredIsBetween ==
  ASSUME NEW value \in Nat
  PROVE  Floored(value) \in Nat /\ Floored(value) >= 80
<1> DEFINE part == (100 - MultiplierFloor) * Least2(value, 100)
<1>1. part \in Int /\ part >= 0
  BY DEF MultiplierFloor, Least2
<1>2. part \div 100 \in Int /\ part \div 100 >= 0
  <2> HIDE DEF part
  <2> QED BY <1>1, Divides
<1> QED BY <1>2 DEF Floored, MultiplierFloor

\* Products of two such factors, in hundredths.
LEMMA Products ==
  ASSUME NEW a \in Int, NEW b \in Int
  PROVE  /\ a * b \in Int
         /\ a >= 0 /\ b >= 0 => a * b >= 0
         /\ a >= 80 /\ b >= 80 => a * b >= 100
OBVIOUS

\* A band is never so narrow that a hundredth of it vanishes.
LEMMA BandIsWide ==
  ASSUME NEW memory \in Told
  PROVE  Band(memory) \in Nat /\ Band(memory) >= 100
<1>1. memory.decay \in Nat /\ memory.worth \in Nat
  BY RecallAssumption DEF Told
<1>2. /\ Floored(memory.decay) \in Nat /\ Floored(memory.decay) >= 80
      /\ Floored(memory.worth) \in Nat /\ Floored(memory.worth) >= 80
  BY <1>1, FlooredIsBetween
<1> QED BY <1>2, Products DEF Band

\* The sum that fusion makes of the ranks is a natural number.
LEMMA LegSumIsNatural ==
  ASSUME NEW rk \in RankerType, NEW d \in Detailed
  PROVE  LegSum(rk, d) \in Nat
<1>1. /\ ReciprocalRank(d.vector) \in Nat /\ ReciprocalRank(d.bm25) \in Nat
      /\ ReciprocalRank(d.graph) \in Nat /\ ReciprocalRank(rk.unanchoredFloor) \in Nat
      /\ rk.graphWeight \in Nat
  BY ReciprocalIsNatural DEF Detailed, RankerType
<1> DEFINE weighed == rk.graphWeight * ReciprocalRank(d.graph)
<1>2. weighed \in Int /\ weighed >= 0
  BY <1>1, Products
<1>3. weighed \div 100 \in Int /\ weighed \div 100 >= 0
  <2> HIDE DEF weighed
  <2> QED BY <1>2, Divides
<1>4. GraphTerm(rk, d) \in Nat
  BY <1>1, <1>3 DEF GraphTerm, Least2
<1> QED BY <1>1, <1>4 DEF LegSum

\* A score is an integer, whatever the ranker's settings.
LEMMA ScoreIsNumber ==
  ASSUME NEW rk \in RankerType, NEW memory \in Told, NEW d \in Detailed
  PROVE  Score(rk, memory, d) \in Int
<1> DEFINE whole == LegSum(rk, d) * Band(memory)
<1>1. whole \in Int
  BY LegSumIsNatural, BandIsWide, Products
<1>2. whole \div 100 \in Int
  <2> HIDE DEF whole
  <2> QED BY <1>1, Divides
<1> QED BY <1>2 DEF Score

\* And so is a relevance.
LEMMA RelevanceIsNumber ==
  ASSUME NEW rk \in RankerType, NEW similarity \in Int, NEW bm25 \in Nat, NEW graphOnly \in BOOLEAN
  PROVE  Relevance(rk, similarity, bm25, graphOnly) \in Int
<1>1. rk.baseline \in Int /\ 100 - rk.baseline \in Nat /\ 100 - rk.baseline > 0
  BY DEF RankerType
<1> DEFINE words     == (100 * bm25) \div (bm25 + BM25Saturation)
           part      == (100 * (similarity - rk.baseline)) \div (100 - rk.baseline)
           corrected == Most2(0, part)
           product   == (100 - corrected) * (100 - words)
<1>2. words \in Int
  BY Divides DEF BM25Saturation
<1>3. part \in Int
  <2>1. 100 * (similarity - rk.baseline) \in Int
    BY <1>1
  <2> QED BY <1>1, <2>1, Divides
<1>4. corrected \in Int
  <2> HIDE DEF part
  <2> QED BY <1>3 DEF Most2
<1>5. product \in Int
  <2> HIDE DEF corrected, words
  <2> QED BY <1>2, <1>4, Products
<1>6. product \div 100 \in Int
  <2> HIDE DEF product
  <2> QED BY <1>5, Divides
<1>7. Relevance(rk, similarity, bm25, graphOnly) \in
        {words, 100 - product \div 100, GraphHopRelevance, 0}
  BY DEF Relevance
<1> HIDE DEF words, product
<1> QED BY <1>2, <1>6, <1>7 DEF GraphHopRelevance
-----------------------------------------------------------------------------
(* Rankings: lists of scored memories, none of them twice.                  *)

IsRanking(list, M) ==
  /\ list \in Seq(Scored)
  /\ \A i, j \in DOMAIN list : list[i].memory.id = list[j].memory.id => i = j
  /\ M = {list[i].memory.id : i \in DOMAIN list}

\* What nothing judged has no trace of it.
Unjudged(s) == s.judged = 0 /\ s.matched.rerank = 0

\* A list whose elements stand elsewhere, whatever else is said of them.
LEMMA PermutedRanking ==
  ASSUME NEW M, NEW list, IsRanking(list, M), NEW out \in Seq(Scored),
         NEW order \in Bijection(DOMAIN list, DOMAIN list), DOMAIN out = DOMAIN list,
         \A i \in DOMAIN list : out[i].memory = list[order[i]].memory
  PROVE  IsRanking(out, M)
<1> DEFINE D == DOMAIN list
<1>1. /\ \A i \in D : order[i] \in D
      /\ \A i, j \in D : order[i] = order[j] => i = j
      /\ \A j \in D : \E i \in D : order[i] = j
  BY Fun_BijectionProperties, Fun_InjectionProperties, Fun_SurjectionProperties DEF Bijection
<1>2. ASSUME NEW i \in D, NEW j \in D, out[i].memory.id = out[j].memory.id PROVE i = j
  <2>1. list[order[i]].memory.id = list[order[j]].memory.id
    BY <1>2
  <2>2. order[i] = order[j]
    BY <1>1, <2>1 DEF IsRanking
  <2> QED BY <1>1, <2>2
<1>3. M = {out[i].memory.id : i \in D}
  <2>1. M = {list[i].memory.id : i \in D}
    BY DEF IsRanking
  <2>2. \A i \in D : out[i].memory.id = list[order[i]].memory.id
    OBVIOUS
  <2> HIDE DEF D
  <2> QED BY <1>1, <2>1, <2>2
<1> QED BY <1>2, <1>3 DEF IsRanking

\* The list itself, whatever else is said of its elements.
LEMMA RestatedRanking ==
  ASSUME NEW M, NEW list, IsRanking(list, M), NEW out \in Seq(Scored), DOMAIN out = DOMAIN list,
         \A i \in DOMAIN list : out[i].memory = list[i].memory
  PROVE  IsRanking(out, M)
BY DEF IsRanking

\* What every element of a ranking is.
LEMMA RankedAreTold ==
  ASSUME NEW M, NEW list, IsRanking(list, M)
  PROVE  /\ Len(list) \in Nat /\ DOMAIN list = 1..Len(list)
         /\ \A i \in DOMAIN list :
              /\ list[i] \in Scored /\ list[i].memory \in Told
              /\ list[i].memory = About[list[i].memory.id]
              /\ list[i].memory.id \in Memories /\ list[i].memory.id \in M
              /\ list[i].memory.id \in Int /\ list[i].memory.created \in Int /\ list[i].score \in Int
              /\ list[i].relevance \in Int /\ list[i].judged \in Int /\ list[i].matched \in Detailed
<1>1. list \in Seq(Scored) /\ M = {list[i].memory.id : i \in DOMAIN list}
  BY DEF IsRanking
<1>2. ASSUME NEW i \in DOMAIN list PROVE list[i] \in Scored
  BY <1>1
<1>3. ASSUME NEW s \in Scored
      PROVE  /\ s.memory \in Told /\ s.memory = About[s.memory.id] /\ s.memory.id \in Memories
             /\ s.memory.id \in Int /\ s.memory.created \in Int
             /\ s.score \in Int /\ s.relevance \in Int /\ s.judged \in Int /\ s.matched \in Detailed
  <2>1. PICK m \in Memories : s.memory = About[m]
    BY DEF Scored, Told
  <2>2. About[m].id = m /\ m \in Int /\ About[m].created \in Int
    BY RecallAssumption
  <2> QED BY <2>1, <2>2 DEF Scored, Told
<1> QED BY <1>1, <1>2, <1>3

\* The memories at some places of a list.
MemoriesAt(list, places) == {list[i].memory.id : i \in places}

\* What is left of a ranking when some of its places are.
LEMMA KeptRanking ==
  ASSUME NEW M, NEW list, IsRanking(list, M), NEW places \in SUBSET DOMAIN list
  PROVE  /\ IsRanking(Kept(list, places), MemoriesAt(list, places))
         /\ \A i \in DOMAIN Kept(list, places) : \E j \in places : Kept(list, places)[i] = list[j]
<1>1. list \in Seq(Scored)
  BY DEF IsRanking
<1>2. PICK n \in Nat : \E order \in Bijection(1..n, places) :
           /\ Kept(list, places) = [i \in 1..n |-> list[order[i]]]
           /\ Kept(list, places) \in Seq(Scored)
  BY <1>1, KeptInOrder
<1>3. PICK order \in Bijection(1..n, places) :
           /\ Kept(list, places) = [i \in 1..n |-> list[order[i]]]
           /\ Kept(list, places) \in Seq(Scored)
  BY <1>2
<1>4. /\ \A i \in 1..n : order[i] \in places
      /\ \A i, j \in 1..n : order[i] = order[j] => i = j
      /\ \A j \in places : \E i \in 1..n : order[i] = j
  BY Fun_BijectionProperties, Fun_InjectionProperties, Fun_SurjectionProperties DEF Bijection
<1> DEFINE out == Kept(list, places)
<1>5. DOMAIN out = 1..n /\ \A i \in 1..n : out[i] = list[order[i]]
  BY <1>3
<1> HIDE DEF out
<1>6. \A i, j \in 1..n : out[i].memory.id = out[j].memory.id => i = j
  BY <1>4, <1>5 DEF IsRanking
<1>7. {list[i].memory.id : i \in places} = {out[i].memory.id : i \in 1..n}
  BY <1>4, <1>5
<1>8. out \in Seq(Scored)
  BY <1>3 DEF out
<1>9. IsRanking(out, MemoriesAt(list, places))
  BY <1>5, <1>6, <1>7, <1>8 DEF IsRanking, MemoriesAt
<1> QED BY <1>4, <1>5, <1>9 DEF out
-----------------------------------------------------------------------------
(* How the ranker sorts.                                                    *)

\* There are finitely many memories, each told by its id.
LEMMA ToldAreFinite ==
  /\ IsFiniteSet(Told)
  /\ \A m \in Told : m.id \in Memories /\ m = About[m.id]
<1> DEFINE tell == [m \in Memories |-> About[m]]
<1>1. tell \in Surjection(Memories, Told)
  BY Fun_IsSurj DEF Told
<1>2. IsFiniteSet(Told)
  BY <1>1, FS_Surjection, RecallAssumption
<1> QED BY <1>2, RecallAssumption DEF Told

\* What the comparisons look at are numbers.
LEMMA ScoredHaveKeys ==
  ASSUME NEW s \in Scored
  PROVE  /\ s.score \in Int /\ s.relevance \in Int /\ s.judged \in Int /\ s.matched \in Detailed
         /\ s.memory \in Told /\ s.memory.id \in Int /\ s.memory.created \in Int
<1>1. PICK m \in Memories : s.memory = About[m]
  BY DEF Scored, Told
<1>2. About[m].id \in Int /\ About[m].created \in Int
  BY RecallAssumption
<1> QED BY <1>1, <1>2 DEF Scored

\* What the ranker sorts by.
ByAhead     == {p \in Scored \X Scored : Ahead(p[1], p[2])}
ByRelevance == {p \in Scored \X Scored : AheadWithRelevance(p[1], p[2])}
ByScore     == {p \in Scored \X Scored : p[1].score > p[2].score}

\* The ranker's order: by score, then newer, then by id.
LEMMA AheadIsWeak == StrictWeak(ByAhead, Scored)
<1>1. ASSUME NEW x \in Scored, NEW y \in Scored, Ahead(x, y) PROVE ~ Ahead(y, x)
  BY <1>1, ScoredHaveKeys DEF Ahead
<1>2. ASSUME NEW x \in Scored, NEW y \in Scored, NEW z \in Scored, Ahead(x, y)
      PROVE  Ahead(x, z) \/ Ahead(z, y)
  BY <1>2, ScoredHaveKeys DEF Ahead
<1> QED BY <1>1, <1>2 DEF StrictWeak, ByAhead

\* The same with relevance for a tie.
LEMMA AheadWithRelevanceIsWeak == StrictWeak(ByRelevance, Scored)
<1>1. ASSUME NEW x \in Scored, NEW y \in Scored, AheadWithRelevance(x, y)
      PROVE  ~ AheadWithRelevance(y, x)
  BY <1>1, ScoredHaveKeys DEF AheadWithRelevance, Ahead
<1>2. ASSUME NEW x \in Scored, NEW y \in Scored, NEW z \in Scored, AheadWithRelevance(x, y)
      PROVE  AheadWithRelevance(x, z) \/ AheadWithRelevance(z, y)
  BY <1>2, ScoredHaveKeys DEF AheadWithRelevance, Ahead
<1> QED BY <1>1, <1>2 DEF StrictWeak, ByRelevance

\* The order by score alone, which leaves ties as they are.
LEMMA ScoreIsWeak == StrictWeak(ByScore, Scored)
<1>1. \A x \in Scored : x.score \in Int
  BY ScoredHaveKeys
<1> QED BY <1>1 DEF StrictWeak, ByScore

\* Of different memories the ranker always puts one first.
LEMMA AheadIsTotal ==
  ASSUME NEW S \in SUBSET Scored, \A x, y \in S : x.memory.id = y.memory.id => x = y
  PROVE  StrictTotal({p \in S \X S : Ahead(p[1], p[2])}, S)
<1>1. \A x \in S : ~ Ahead(x, x)
  BY ScoredHaveKeys DEF Ahead
<1>2. \A x, y, z \in S : Ahead(x, y) /\ Ahead(y, z) => Ahead(x, z)
  BY ScoredHaveKeys DEF Ahead
<1>3. \A x, y \in S : x = y \/ Ahead(x, y) \/ Ahead(y, x)
  BY ScoredHaveKeys DEF Ahead
<1> QED BY <1>1, <1>2, <1>3 DEF StrictTotal

\* Whatever it sorts by, a stable sort of a ranking is one.
LEMMA ResortedRanking ==
  ASSUME NEW M, NEW list, IsRanking(list, M), NEW R, StrictWeak(R, Scored), NEW out,
         out = SortedBy(list, R)
  PROVE  /\ IsRanking(out, M) /\ DOMAIN out = DOMAIN list
         /\ \A i \in DOMAIN list : \E j \in DOMAIN list : out[i] = list[j]
         /\ \A i, j \in DOMAIN list : i < j => <<out[j], out[i]>> \notin R
<1> DEFINE order == Listed(DOMAIN list, PlacesBefore(list, R))
<1>1. list \in Seq(Scored)
  BY DEF IsRanking
<1>2. /\ order \in Bijection(DOMAIN list, DOMAIN list)
      /\ \A i, j \in DOMAIN list : i < j =>
                 \/ <<list[order[i]], list[order[j]]>> \in R
                 \/ <<list[order[j]], list[order[i]]>> \notin R /\ order[i] < order[j]
  <2>1. order = Listed(DOMAIN list, PlacesBefore(list, R))
    OBVIOUS
  <2> HIDE DEF order
  <2> QED BY <1>1, <2>1, StableSorted
<1> HIDE DEF order
<1>3. \A i \in DOMAIN list : order[i] \in DOMAIN list
  BY <1>2, Fun_BijectionProperties
<1>4. out = [i \in DOMAIN list |-> list[order[i]]]
  BY DEF order, SortedBy
<1>5. out \in Seq(Scored)
  <2>1. DOMAIN list = 1..Len(list) /\ Len(list) \in Nat /\ \A i \in DOMAIN list : list[i] \in Scored
    BY <1>1
  <2>2. out \in [1..Len(list) -> Scored]
    BY <1>3, <1>4, <2>1
  <2> QED BY <2>1, <2>2
<1>6. IsRanking(out, M)
  BY <1>2, <1>4, <1>5, PermutedRanking
<1>7. ASSUME NEW i \in DOMAIN list, NEW j \in DOMAIN list, i < j PROVE <<out[j], out[i]>> \notin R
  <2>1. list[order[i]] \in Scored /\ list[order[j]] \in Scored
    BY <1>1, <1>3
  <2> QED BY <1>2, <1>4, <1>7, <2>1 DEF StrictWeak
<1> QED BY <1>3, <1>4, <1>6, <1>7

\* Fusion ranks candidates, each at most once, none with a trace of a judge
\* (RecallRanker, rank_with_graph).
LEMMA RankWithGraphRanks ==
  ASSUME NEW rk \in RankerType, NEW v \in Seq(Memories), NEW k \in Seq(Memories),
         NEW g \in Seq(Memories), NEW candidates \in SUBSET Told
  PROVE  LET list == RankWithGraph(rk, v, k, g, candidates)
         IN \E M \in SUBSET {c.id : c \in candidates} :
              IsRanking(list, M) /\ \A i \in DOMAIN list : Unjudged(list[i])
<1> DEFINE scored(m) == [memory |-> m, score |-> Score(rk, m, Detail(v, k, g, m.id)),
                         relevance |-> 0, judged |-> 0, matched |-> Detail(v, k, g, m.id)]
           mentioned == {m \in candidates : \E leg \in {v, k, g} : RankOf(leg, m.id) > 0}
           S == {scored(m) : m \in mentioned}
           Q == {p \in S \X S : Ahead(p[1], p[2])}
           list == RankWithGraph(rk, v, k, g, candidates)
<1>1. list = Listed(S, Q)
  BY DEF RankWithGraph, Sorted
<1>2. ASSUME NEW m \in mentioned
      PROVE  scored(m) \in Scored /\ scored(m).memory = m /\ Unjudged(scored(m))
  <2>1. m \in Told
    OBVIOUS
  <2>2. Detail(v, k, g, m.id) \in Detailed /\ Detail(v, k, g, m.id).rerank = 0
    BY RankOfFinds DEF Detail, Detailed
  <2>3. Score(rk, m, Detail(v, k, g, m.id)) \in Int
    BY <2>1, <2>2, ScoreIsNumber
  <2> HIDE DEF mentioned
  <2> QED BY <2>1, <2>2, <2>3 DEF Scored, Unjudged
<1>3. IsFiniteSet(S)
  <2>1. IsFiniteSet(mentioned)
    <3>1. mentioned \in SUBSET Told
      OBVIOUS
    <3> HIDE DEF mentioned
    <3> QED BY <3>1, ToldAreFinite, FS_Subset
  <2> DEFINE score == [m \in mentioned |-> scored(m)]
  <2>2. score \in Surjection(mentioned, S)
    <3> HIDE DEF mentioned, scored
    <3> QED BY Fun_IsSurj
  <2> HIDE DEF score, S, mentioned
  <2> QED BY <2>1, <2>2, FS_Surjection
<1>4. S \in SUBSET Scored /\ \A s \in S : s.memory \in candidates /\ Unjudged(s)
  <2>1. \A m \in mentioned : m \in candidates
    OBVIOUS
  <2> HIDE DEF scored, mentioned
  <2> QED BY <1>2, <2>1
<1>5. \A x, y \in S : x.memory.id = y.memory.id => x = y
  <2>1. \A m \in mentioned : m \in Told
    OBVIOUS
  <2>2. \A m, n \in mentioned : m.id = n.id => m = n
    <3> HIDE DEF mentioned
    <3> QED BY <2>1, ToldAreFinite
  <2> HIDE DEF mentioned
  <2>3. \A m \in mentioned : scored(m).memory = m
    BY <1>2
  <2> HIDE DEF scored
  <2> QED BY <2>2, <2>3
<1>6. StrictTotal(Q, S)
  <2> HIDE DEF S
  <2> QED BY <1>4, <1>5, AheadIsTotal
<1>7. /\ Cardinality(S) \in Nat
      /\ list \in Bijection(1..Cardinality(S), S)
  <2> HIDE DEF S, Q, list
  <2> QED BY <1>1, <1>3, <1>6, ListedInOrder
<1> HIDE DEF S, Q, list
<1>8. /\ DOMAIN list = 1..Cardinality(S)
      /\ \A i \in 1..Cardinality(S) : list[i] \in S
      /\ \A i, j \in 1..Cardinality(S) : list[i] = list[j] => i = j
      /\ list \in [1..Cardinality(S) -> S]
  BY <1>7, Fun_BijectionProperties
<1>9. list \in Seq(Scored)
  BY <1>4, <1>7, <1>8
<1> DEFINE M == {list[i].memory.id : i \in DOMAIN list}
<1>10. M \in SUBSET {c.id : c \in candidates}
  BY <1>4, <1>8
<1>11. IsRanking(list, M)
  BY <1>5, <1>8, <1>9 DEF IsRanking
<1>12. \A i \in DOMAIN list : Unjudged(list[i])
  BY <1>4, <1>8
<1> QED BY <1>10, <1>11, <1>12 DEF list
-----------------------------------------------------------------------------
(* What is fetched and ranked.                                              *)

\* A stable sort of a ranking, as the ranker calls for it.
LEMMA StableSortIsListed ==
  ASSUME NEW list \in Seq(Scored)
  PROVE  /\ StableSort(list, Ahead) = SortedBy(list, ByAhead)
         /\ StableSort(list, AheadWithRelevance) = SortedBy(list, ByRelevance)
         /\ StableSort(list, LAMBDA a, b : a.score > b.score) = SortedBy(list, ByScore)
<1>1. \A i \in DOMAIN list : list[i] \in Scored
  OBVIOUS
<1>2. StableOrder(list, Ahead) = PlacesBefore(list, ByAhead)
  BY <1>1 DEF StableOrder, PlacesBefore, ByAhead
<1>3. StableOrder(list, AheadWithRelevance) = PlacesBefore(list, ByRelevance)
  BY <1>1 DEF StableOrder, PlacesBefore, ByRelevance
<1>4. StableOrder(list, LAMBDA a, b : a.score > b.score) = PlacesBefore(list, ByScore)
  BY <1>1 DEF StableOrder, PlacesBefore, ByScore
<1> QED BY <1>2, <1>3, <1>4 DEF StableSort, SortedBy

\* Weighing by relevance changes no member of a ranking.
LEMMA ApplyRelevanceRanks ==
  ASSUME NEW M, NEW list, IsRanking(list, M), NEW rk \in RankerType,
         \A i \in DOMAIN list : Unjudged(list[i])
  PROVE  /\ IsRanking(ApplyRelevance(rk, list), M)
         /\ \A i \in DOMAIN ApplyRelevance(rk, list) : Unjudged(ApplyRelevance(rk, list)[i])
<1> DEFINE lent(s) == (s.score * Affinity(rk, s.relevance)) \div 100
           weighed == [i \in DOMAIN list |-> [list[i] EXCEPT !.score = lent(list[i])]]
           out == StableSort(weighed, AheadWithRelevance)
<1>1. list \in Seq(Scored) /\ DOMAIN list = 1..Len(list) /\ Len(list) \in Nat
  BY DEF IsRanking
<1>2. ASSUME NEW s \in Scored PROVE lent(s) \in Int
  <2>1. s.score \in Int /\ s.relevance \in Int /\ rk.delta \in Int
    BY ScoredHaveKeys DEF RankerType
  <2> DEFINE part == rk.delta * (100 - Least2(s.relevance, 100))
  <2>2. part \in Int
    BY <2>1, Products DEF Least2
  <2>3. part \div 100 \in Int
    <3> HIDE DEF part
    <3> QED BY <2>2, Divides
  <2>4. Affinity(rk, s.relevance) \in Int
    BY <2>3 DEF Affinity
  <2> DEFINE whole == s.score * Affinity(rk, s.relevance)
  <2>5. whole \in Int
    BY <2>1, <2>4, Products
  <2> HIDE DEF whole
  <2>6. whole \div 100 \in Int
    BY <2>5, Divides
  <2> QED BY <2>6 DEF whole
<1> HIDE DEF lent
<1>3. ASSUME NEW i \in DOMAIN list
      PROVE  /\ weighed[i] \in Scored /\ weighed[i].memory = list[i].memory
             /\ Unjudged(weighed[i])
  <2>1. list[i] \in Scored
    BY <1>1
  <2>2. lent(list[i]) \in Int
    BY <2>1, <1>2
  <2>3. weighed[i] = [list[i] EXCEPT !.score = lent(list[i])]
    OBVIOUS
  <2> HIDE DEF weighed
  <2> QED BY <2>1, <2>2, <2>3 DEF Scored, Unjudged
<1>4. weighed \in Seq(Scored) /\ DOMAIN weighed = DOMAIN list
  <2>1. weighed \in [1..Len(list) -> Scored]
    BY <1>1, <1>3
  <2> QED BY <1>1, <2>1
<1> HIDE DEF weighed
<1>5. IsRanking(weighed, M)
  BY <1>3, <1>4, RestatedRanking
<1>6. /\ IsRanking(out, M) /\ DOMAIN out = DOMAIN list
      /\ \A i \in DOMAIN list : \E j \in DOMAIN list : out[i] = weighed[j]
  <2>1. out = SortedBy(weighed, ByRelevance)
    BY <1>4, StableSortIsListed
  <2> HIDE DEF out
  <2>3. /\ IsRanking(out, M) /\ DOMAIN out = DOMAIN weighed
        /\ \A i \in DOMAIN weighed : \E j \in DOMAIN weighed : out[i] = weighed[j]
    BY <1>5, <2>1, AheadWithRelevanceIsWeak, ResortedRanking
  <2> QED BY <1>4, <2>3
<1>7. ApplyRelevance(rk, list) \in {list, out}
  BY DEF ApplyRelevance, weighed, lent
<1> QED BY <1>3, <1>6, <1>7

\* What two of the legs say of a memory is a number.
LEMMA LegsSayNumbers ==
  \A m \in Memories : /\ About[m].id = m /\ Similarity[m] \in Int /\ Weight[m] \in Nat
                     /\ About[m].created \in Nat
<1>1. \A m \in Memories : {About[m].created, About[m].expires, About[m].decay, About[m].worth, Weight[m]}
                              \subseteq Nat
  BY RecallAssumption
<1>2. \A m \in Memories : About[m].id = m /\ Similarity[m] \in Int
  BY RecallAssumption
<1> QED BY <1>1, <1>2

\* What is ranked was fetched and passed the filters, and is there once.
LEMMA FusedRanks ==
  ASSUME ranker \in Rankers, vector \in Seq(Memories), keyword \in Seq(Memories),
         hop \in Seq(Memories)
  PROVE  \E M \in SUBSET {m \in Memories : row[m] # "gone" /\ Matches(m)} :
           IsRanking(Fused, M) /\ \A i \in DOMAIN Fused : Unjudged(Fused[i])
<1> DEFINE mentioned == Range(vector) \cup Range(keyword) \cup Range(hop)
           found == {About[m] : m \in {m \in Memories :
                                         m \in mentioned /\ row[m] # "gone" /\ Matches(m)}}
           list  == RankWithGraph(ranker, vector, keyword, hop, found)
           relevance(s) ==
             Relevance(ranker, IF s.matched.vector > 0 THEN Similarity[s.memory.id] ELSE -1,
                       IF s.matched.bm25 > 0 THEN Weight[s.memory.id] ELSE 0,
                       s.matched.graph > 0 /\ Unanchored(s.matched))
           rated == [i \in DOMAIN list |-> [list[i] EXCEPT !.relevance = relevance(list[i])]]
           weighed == ApplyRelevance(ranker, rated)
           places == {i \in DOMAIN weighed : weighed[i].relevance >= query.floor}
<1>1. Fused = Kept(weighed, places)
  BY DEF Fused
<1>2. ranker \in RankerType
  BY RecallAssumption
<1>3. found \in SUBSET Told
  BY DEF Told
<1>4. \A c \in found : c.id \in {m \in Memories : row[m] # "gone" /\ Matches(m)}
  <2>1. \A m \in Memories : About[m].id = m
    BY LegsSayNumbers
  <2> QED BY <2>1
<1> HIDE DEF found
<1>5. PICK M \in SUBSET {c.id : c \in found} :
        IsRanking(list, M) /\ \A i \in DOMAIN list : Unjudged(list[i])
  BY <1>2, <1>3, RankWithGraphRanks
<1> HIDE DEF list
<1>6. ASSUME NEW i \in DOMAIN list
      PROVE  /\ rated[i] \in Scored /\ rated[i].memory = list[i].memory /\ Unjudged(rated[i])
  <2>1. /\ list[i] \in Scored /\ list[i].memory.id \in Memories /\ list[i].matched \in Detailed
        /\ Unjudged(list[i])
    BY <1>5, RankedAreTold
  <2>2. relevance(list[i]) \in Int
    <3>1. (IF list[i].matched.vector > 0 THEN Similarity[list[i].memory.id] ELSE -1) \in Int
      BY <2>1, LegsSayNumbers
    <3>2. (IF list[i].matched.bm25 > 0 THEN Weight[list[i].memory.id] ELSE 0) \in Nat
      BY <2>1, LegsSayNumbers
    <3>3. (list[i].matched.graph > 0 /\ Unanchored(list[i].matched)) \in BOOLEAN
      OBVIOUS
    <3> QED BY <1>2, <3>1, <3>2, <3>3, RelevanceIsNumber
  <2>3. rated[i] = [list[i] EXCEPT !.relevance = relevance(list[i])]
    OBVIOUS
  <2> HIDE DEF rated, relevance
  <2> QED BY <2>1, <2>2, <2>3 DEF Scored, Unjudged
<1>7. rated \in Seq(Scored) /\ DOMAIN rated = DOMAIN list
  <2>1. DOMAIN list = 1..Len(list) /\ Len(list) \in Nat
    BY <1>5, RankedAreTold
  <2>2. rated \in [1..Len(list) -> Scored]
    BY <1>6, <2>1
  <2> QED BY <2>1, <2>2
<1> HIDE DEF rated
<1>8. IsRanking(rated, M)
  BY <1>5, <1>6, <1>7, RestatedRanking
<1>9. IsRanking(weighed, M) /\ \A i \in DOMAIN weighed : Unjudged(weighed[i])
  BY <1>2, <1>6, <1>7, <1>8, ApplyRelevanceRanks
<1> HIDE DEF weighed
<1>10. places \in SUBSET DOMAIN weighed
  OBVIOUS
<1> HIDE DEF places
<1>11. /\ IsRanking(Kept(weighed, places), MemoriesAt(weighed, places))
       /\ \A i \in DOMAIN Kept(weighed, places) :
            \E j \in places : Kept(weighed, places)[i] = weighed[j]
  BY <1>9, <1>10, KeptRanking
<1>12. MemoriesAt(weighed, places) \in SUBSET {m \in Memories : row[m] # "gone" /\ Matches(m)}
  <2>1. \A id \in MemoriesAt(weighed, places) : id \in M
    BY <1>9, <1>10, RankedAreTold DEF MemoriesAt
  <2>2. M \in SUBSET {m \in Memories : row[m] # "gone" /\ Matches(m)}
    BY <1>4, <1>5
  <2> QED BY <2>1, <2>2
<1> QED BY <1>1, <1>9, <1>10, <1>11, <1>12
-----------------------------------------------------------------------------
(* What the second stage judged.                                            *)

Judgements == Memories \X (1..100)

\* A leg of the second stage: opinions of some memories, one of each.
IsLeg(leg, M) ==
  /\ leg \in Seq(Judgements)
  /\ \A i, j \in DOMAIN leg : leg[i][1] = leg[j][1] => i = j
  /\ \A i \in DOMAIN leg : leg[i][1] \in M

Opined(leg, id) == IF JudgedAt(leg, id) = 0 THEN 0 ELSE leg[JudgedAt(leg, id)][2]

ByOpinion == {p \in Judgements \X Judgements : p[1][2] > p[2][2]}

\* The model's leg is its opinions, best first and ties as ranked.
LEMMA BestFirstSorts ==
  ASSUME NEW pairs \in Seq(Judgements)
  PROVE  \E order \in Bijection(DOMAIN pairs, DOMAIN pairs) :
           /\ BestFirst(pairs) = [i \in DOMAIN pairs |-> pairs[order[i]]]
           /\ \A i, j \in DOMAIN pairs : i < j =>
                \/ pairs[order[i]][2] > pairs[order[j]][2]
                \/ pairs[order[i]][2] = pairs[order[j]][2] /\ order[i] < order[j]
<1> DEFINE order == Listed(DOMAIN pairs, PlacesBefore(pairs, ByOpinion))
<1>1. \A i \in DOMAIN pairs : pairs[i] \in Judgements
  OBVIOUS
<1>2. StableOrder(pairs, LAMBDA a, b : a[2] > b[2]) = PlacesBefore(pairs, ByOpinion)
  BY <1>1 DEF StableOrder, PlacesBefore, ByOpinion
<1>3. BestFirst(pairs) = [i \in DOMAIN pairs |-> pairs[order[i]]]
  BY <1>2 DEF BestFirst, StableSort
<1>4. \A a \in Judgements : a[2] \in Int
  <2>1. ASSUME NEW a \in Judgements PROVE a[2] \in Int
    <3>1. a[2] \in 1..100
      BY DEF Judgements
    <3>2. \A n \in 1..100 : n \in Int
      OBVIOUS
    <3> QED BY <3>1, <3>2
  <2> QED BY <2>1
<1>5. StrictWeak(ByOpinion, Judgements)
  BY <1>4 DEF StrictWeak, ByOpinion
<1>6. order = Listed(DOMAIN pairs, PlacesBefore(pairs, ByOpinion))
  OBVIOUS
<1> HIDE DEF order
<1>7. /\ order \in Bijection(DOMAIN pairs, DOMAIN pairs)
      /\ \A i, j \in DOMAIN pairs : i < j =>
           \/ <<pairs[order[i]], pairs[order[j]]>> \in ByOpinion
           \/ <<pairs[order[j]], pairs[order[i]]>> \notin ByOpinion /\ order[i] < order[j]
  BY <1>5, <1>6, StableSorted
<1>8. \A i \in DOMAIN pairs : order[i] \in DOMAIN pairs
  BY <1>7, Fun_BijectionProperties
<1>9. ASSUME NEW i \in DOMAIN pairs, NEW j \in DOMAIN pairs, i < j
      PROVE  \/ pairs[order[i]][2] > pairs[order[j]][2]
             \/ pairs[order[i]][2] = pairs[order[j]][2] /\ order[i] < order[j]
  <2>1. pairs[order[i]] \in Judgements /\ pairs[order[j]] \in Judgements
    BY <1>1, <1>8
  <2>2. pairs[order[i]][2] \in Int /\ pairs[order[j]][2] \in Int
    BY <1>4, <2>1
  <2>3. /\ <<pairs[order[i]], pairs[order[j]]>> \in ByOpinion
             <=> pairs[order[i]][2] > pairs[order[j]][2]
        /\ <<pairs[order[j]], pairs[order[i]]>> \in ByOpinion
             <=> pairs[order[j]][2] > pairs[order[i]][2]
    BY <2>1 DEF ByOpinion
  <2> QED BY <1>7, <1>9, <2>2, <2>3
<1> QED BY <1>3, <1>7, <1>9

\* What a leg says of a memory: nothing, or what the model thought.
LEMMA OpinedIsOpinion ==
  ASSUME NEW M, NEW leg, IsLeg(leg, M), NEW id
  PROVE  /\ JudgedAt(leg, id) \in Nat /\ Opined(leg, id) \in 0..100
         /\ JudgedAt(leg, id) > 0 => Opined(leg, id) > 0 /\ Opined(leg, id) = leg[JudgedAt(leg, id)][2]
         /\ JudgedAt(leg, id) = 0 => Opined(leg, id) = 0
<1>1. leg \in Seq(Judgements)
  BY DEF IsLeg
<1>2. \A i \in DOMAIN leg : leg[i][2] \in 1..100
  BY <1>1 DEF Judgements
<1>3. /\ JudgedAt(leg, id) \in Nat
      /\ JudgedAt(leg, id) > 0 => JudgedAt(leg, id) \in DOMAIN leg
  BY <1>1, JudgedAtFinds
<1> QED BY <1>2, <1>3 DEF Opined

\* What a judged memory is told anew.
Anew(s, n, word, total) == [s EXCEPT !.matched.rerank = n, !.judged = word, !.score = total]

\* A memory told anew is the same memory.
LEMMA AnewIsScored ==
  ASSUME NEW s \in Scored, NEW n \in Nat, NEW word \in Int, NEW total \in Int
  PROVE  /\ Anew(s, n, word, total) \in Scored /\ Anew(s, n, word, total).memory = s.memory
         /\ Anew(s, n, word, total).judged = word /\ Anew(s, n, word, total).score = total
<1>1. s \in [memory : Told, score : Int, relevance : Int, judged : Int, matched : Detailed]
  BY DEF Scored
<1> DEFINE d == [s.matched EXCEPT !.rerank = n]
           e == [s EXCEPT !.matched = d]
           f == [e EXCEPT !.judged = word]
           g == [f EXCEPT !.score = total]
<1>2. d \in Detailed
  BY <1>1 DEF Detailed
<1> HIDE DEF d
<1>3. /\ e \in [memory : Told, score : Int, relevance : Int, judged : Int, matched : Detailed]
      /\ e.memory = s.memory
  BY <1>1, <1>2
<1> HIDE DEF e
<1>4. /\ f \in [memory : Told, score : Int, relevance : Int, judged : Int, matched : Detailed]
      /\ f.memory = s.memory /\ f.judged = word
  BY <1>3
<1> HIDE DEF f
<1>5. /\ g \in [memory : Told, score : Int, relevance : Int, judged : Int, matched : Detailed]
      /\ g.memory = s.memory /\ g.judged = word /\ g.score = total
  BY <1>4
<1>6. Anew(s, n, word, total) = g
  BY DEF Anew, f, e, d
<1> QED BY <1>5, <1>6 DEF Scored

\* A list of which each memory has the score that it was given.
BearsOpinions(list, leg) ==
  \A i \in DOMAIN list : list[i].judged = Opined(leg, list[i].memory.id)

\* Adding the model's term to a score changes no memory.
LEMMA WithTermRestates ==
  ASSUME NEW M, NEW leg, IsLeg(leg, M), NEW rk \in RankerType,
         NEW s \in Scored, Unjudged(s)
  PROVE  /\ WithTerm(rk, s, leg) \in Scored
         /\ WithTerm(rk, s, leg).memory = s.memory
         /\ WithTerm(rk, s, leg).judged = Opined(leg, s.memory.id)
<1> DEFINE at == JudgedAt(leg, s.memory.id)
           base == LegSum(rk, s.matched)
           term == (rk.weight * ReciprocalRank(at)) \div 100
           score == IF base > 0 THEN ((base + term) * s.score) \div base ELSE s.score
           moved == Anew(s, at, leg[at][2], score)
<1>1. /\ at \in Nat /\ Opined(leg, s.memory.id) \in Int
      /\ at > 0 => Opined(leg, s.memory.id) = leg[at][2]
      /\ at = 0 => Opined(leg, s.memory.id) = 0
  BY OpinedIsOpinion
<1>2. s.score \in Int /\ s.matched \in Detailed /\ rk.weight \in Nat
  BY ScoredHaveKeys DEF RankerType
<1>3. base \in Nat
  BY <1>2, LegSumIsNatural
<1>4. term \in Int
  <2> DEFINE weighed == rk.weight * ReciprocalRank(at)
  <2>1. weighed \in Int
    BY <1>1, <1>2, ReciprocalIsNatural, Products
  <2> HIDE DEF weighed
  <2>2. weighed \div 100 \in Int
    BY <2>1, Divides
  <2> QED BY <2>2 DEF weighed
<1>5. score \in Int
  <2> DEFINE whole == (base + term) * s.score
  <2> HIDE DEF base, term
  <2>1. base + term \in Int
    BY <1>3, <1>4
  <2>2. whole \in Int
    BY <1>2, <2>1, Products
  <2> HIDE DEF whole
  <2>3. base > 0 => whole \div base \in Int
    BY <1>3, <2>2, Divides
  <2> QED BY <1>2, <2>3 DEF whole
<1>6. WithTerm(rk, s, leg) = IF at = 0 THEN s ELSE moved
  BY DEF WithTerm, Anew
<1> HIDE DEF at, score
<1>7. at > 0 => moved \in Scored /\ moved.memory = s.memory /\ moved.judged = leg[at][2]
  BY <1>1, <1>2, <1>5, AnewIsScored
<1> HIDE DEF moved
<1> QED BY <1>1, <1>6, <1>7 DEF Unjudged, at

\* A list whose elements are those of two others, one after the other.
Joins(out, head, tail) ==
  \A i \in DOMAIN out :
    \/ i \in DOMAIN head /\ out[i] = head[i]
    \/ i - Len(head) \in DOMAIN tail /\ out[i] = tail[i - Len(head)]

\* Two rankings of different memories, one after the other.
LEMMA JoinedRanking ==
  ASSUME NEW M, NEW N, NEW head, NEW tail, IsRanking(head, M), IsRanking(tail, N), M \cap N = {}
  PROVE  /\ IsRanking(head \o tail, M \cup N)
         /\ Joins(head \o tail, head, tail)
<1> DEFINE out == head \o tail
<1>1. head \in Seq(Scored) /\ tail \in Seq(Scored)
  BY DEF IsRanking
<1>2. /\ Len(head) \in Nat /\ Len(tail) \in Nat
      /\ DOMAIN head = 1..Len(head) /\ DOMAIN tail = 1..Len(tail)
  BY <1>1
<1>3. /\ out \in Seq(Scored) /\ DOMAIN out = 1..(Len(head) + Len(tail))
      /\ \A i \in 1..Len(head) : out[i] = head[i]
      /\ \A i \in 1..Len(tail) : out[Len(head) + i] = tail[i]
  BY <1>1, <1>2
<1> HIDE DEF out
<1>4. ASSUME NEW i \in DOMAIN out
      PROVE  \/ i \in DOMAIN head /\ out[i] = head[i]
             \/ i - Len(head) \in DOMAIN tail /\ out[i] = tail[i - Len(head)] /\ i > Len(head)
  <2>1. i \in Nat
    BY <1>2, <1>3
  <2>2. CASE i <= Len(head)
    BY <1>2, <1>3, <2>1, <2>2
  <2>3. CASE i > Len(head)
    <3>1. i - Len(head) \in 1..Len(tail) /\ i = Len(head) + (i - Len(head))
      BY <1>2, <1>3, <2>1, <2>3
    <3> QED BY <1>2, <1>3, <2>3, <3>1
  <2> QED BY <1>2, <2>1, <2>2, <2>3
<1>5. /\ \A i \in DOMAIN head : head[i].memory.id \in M
      /\ \A i \in DOMAIN tail : tail[i].memory.id \in N
  BY RankedAreTold
<1>6. ASSUME NEW i \in DOMAIN out, NEW j \in DOMAIN out, out[i].memory.id = out[j].memory.id
      PROVE  i = j
  <2>1. CASE i \in DOMAIN head /\ out[i] = head[i] /\ j \in DOMAIN head /\ out[j] = head[j]
    BY <1>6, <2>1 DEF IsRanking
  <2>2. CASE /\ i - Len(head) \in DOMAIN tail /\ out[i] = tail[i - Len(head)]
             /\ j - Len(head) \in DOMAIN tail /\ out[j] = tail[j - Len(head)]
    <3>1. i - Len(head) = j - Len(head)
      BY <1>6, <2>2 DEF IsRanking
    <3>2. i \in Int /\ j \in Int
      BY <1>2, <1>3
    <3> QED BY <1>2, <3>1, <3>2
  <2> QED BY <1>4, <1>5, <1>6, <2>1, <2>2
<1>7. M \cup N = {out[i].memory.id : i \in DOMAIN out}
  <2>1. ASSUME NEW id \in M \cup N PROVE \E i \in DOMAIN out : out[i].memory.id = id
    <3>1. CASE id \in M
      <4>1. PICK i \in DOMAIN head : head[i].memory.id = id
        BY <3>1 DEF IsRanking
      <4>2. i \in DOMAIN out /\ out[i] = head[i]
        BY <1>2, <1>3, <4>1
      <4> QED BY <4>1, <4>2
    <3>2. CASE id \in N
      <4>1. PICK i \in DOMAIN tail : tail[i].memory.id = id
        BY <3>2 DEF IsRanking
      <4>2. Len(head) + i \in DOMAIN out /\ out[Len(head) + i] = tail[i]
        BY <1>2, <1>3, <4>1
      <4> QED BY <4>1, <4>2
    <3> QED BY <3>1, <3>2
  <2>2. \A i \in DOMAIN out : out[i].memory.id \in M \cup N
    BY <1>4, <1>5
  <2> QED BY <2>1, <2>2
<1>8. IsRanking(out, M \cup N)
  BY <1>3, <1>6, <1>7 DEF IsRanking
<1> QED BY <1>4, <1>8 DEF out, Joins

\* The model's word, inside the band: what it judged comes before what it did
\* not, and by a score that says which it judged better.
ByTheirWord(list) ==
  \A i, j \in DOMAIN list : i < j =>
    /\ list[i].judged = 0 => list[j].judged = 0
    /\ list[j].judged # 0 =>
         (list[i].judged * Band(list[i].memory)) \div 100 >= (list[j].judged * Band(list[j].memory)) \div 100

\* What no opinion reached stands in the order that it had.
KeepsTheRest(out, list) ==
  \A i, j \in DOMAIN out : i < j /\ out[i].judged = 0 /\ out[j].judged = 0 =>
    \E k, l \in DOMAIN list : k < l /\ list[k] = out[i] /\ list[l] = out[j]

\* Where the model's word replaces the ranking, no memory is lost, each has
\* the opinion that the leg has of it, and that decides (RecallRanker, replace).
LEMMA ReplacedRanks ==
  ASSUME NEW M, NEW list, IsRanking(list, M), NEW leg, IsLeg(leg, M),
         \A i \in DOMAIN list : Unjudged(list[i])
  PROVE  /\ IsRanking(Replaced(list, leg), M)
         /\ BearsOpinions(Replaced(list, leg), leg)
         /\ ByTheirWord(Replaced(list, leg)) /\ KeepsTheRest(Replaced(list, leg), list)
<1> DEFINE at(s) == JudgedAt(leg, s.memory.id)
           word(s) == (leg[at(s)][2] * Band(s.memory)) \div 100
           banded(s) == Anew(s, at(s), leg[at(s)][2], word(s))
           reached == {i \in DOMAIN list : at(list[i]) > 0}
           rest == DOMAIN list \ reached
           head == Kept(list, reached)
           tail == Kept(list, rest)
           marked == [i \in DOMAIN head |-> banded(head[i])]
           first == StableSort(marked, LAMBDA a, b : a.score > b.score)
           H == MemoriesAt(list, reached)
           T == MemoriesAt(list, rest)
<1>1. Replaced(list, leg) = first \o tail
  BY DEF Replaced, Anew
<1>2. /\ reached \in SUBSET DOMAIN list /\ rest \in SUBSET DOMAIN list
      /\ reached \cup rest = DOMAIN list /\ reached \cap rest = {}
  OBVIOUS
<1>3. /\ \A i \in reached : at(list[i]) > 0
      /\ \A i \in rest : at(list[i]) = 0
  <2>1. \A i \in DOMAIN list : at(list[i]) \in Nat
    BY OpinedIsOpinion
  <2> QED BY <2>1
<1> HIDE DEF reached, rest
<1>4. /\ IsRanking(head, H)
      /\ \A i \in DOMAIN head : at(head[i]) > 0 /\ Unjudged(head[i])
  <2>1. /\ IsRanking(head, H)
        /\ \A i \in DOMAIN head : \E j \in reached : head[i] = list[j]
    BY <1>2, KeptRanking
  <2> HIDE DEF head
  <2> QED BY <1>2, <1>3, <2>1
<1>5. /\ IsRanking(tail, T)
      /\ \A i \in DOMAIN tail : at(tail[i]) = 0 /\ Unjudged(tail[i])
  <2>1. /\ IsRanking(tail, T)
        /\ \A i \in DOMAIN tail : \E j \in rest : tail[i] = list[j]
    BY <1>2, KeptRanking
  <2> HIDE DEF tail
  <2> QED BY <1>2, <1>3, <2>1
<1>18. /\ DOMAIN tail \subseteq Nat
       /\ \A i, j \in DOMAIN tail : i < j =>
            \E k, l \in DOMAIN list : k < l /\ list[k] = tail[i] /\ list[l] = tail[j]
  <2>1. list \in Seq(Scored) /\ rest \in SUBSET DOMAIN list
    BY <1>2 DEF IsRanking
  <2>2. PICK n \in Nat : \E order \in Bijection(1..n, rest) :
           /\ \A i, j \in 1..n : i < j => order[i] < order[j]
           /\ tail = [i \in 1..n |-> list[order[i]]]
    BY <2>1, KeptInOrder
  <2>3. PICK order \in Bijection(1..n, rest) :
           /\ \A i, j \in 1..n : i < j => order[i] < order[j]
           /\ tail = [i \in 1..n |-> list[order[i]]]
    BY <2>2
  <2> HIDE DEF tail
  <2>4. \A i \in 1..n : order[i] \in DOMAIN list /\ tail[i] = list[order[i]]
    BY <1>2, <2>3 DEF Bijection, Injection
  <2> QED BY <2>3, <2>4
<1>6. H \cap T = {} /\ H \cup T = M
  BY <1>2 DEF MemoriesAt, IsRanking
<1> HIDE DEF head, tail, H, T
<1>7. ASSUME NEW i \in DOMAIN head
      PROVE  /\ marked[i] \in Scored /\ marked[i].memory = head[i].memory
             /\ marked[i].judged = Opined(leg, marked[i].memory.id) /\ marked[i].judged > 0
             /\ marked[i].score = (marked[i].judged * Band(marked[i].memory)) \div 100
  <2>1. head[i] \in Scored /\ head[i].memory \in Told /\ head[i].matched \in Detailed
    BY <1>4, RankedAreTold
  <2>2. /\ at(head[i]) \in Nat /\ Opined(leg, head[i].memory.id) \in Int
        /\ Opined(leg, head[i].memory.id) = leg[at(head[i])][2] /\ Opined(leg, head[i].memory.id) > 0
    BY <1>4, OpinedIsOpinion
  <2>3. word(head[i]) \in Int
    <3> DEFINE whole == leg[at(head[i])][2] * Band(head[i].memory)
    <3>1. whole \in Int
      <4> HIDE DEF at
      <4> QED BY <2>1, <2>2, BandIsWide, Products
    <3> HIDE DEF whole
    <3>2. whole \div 100 \in Int
      BY <3>1, Divides
    <3> QED BY <3>2 DEF whole
  <2>4. marked[i] = banded(head[i])
    OBVIOUS
  <2>5. /\ marked[i].memory = head[i].memory /\ marked[i].judged = leg[at(head[i])][2]
        /\ marked[i].score = word(head[i]) /\ marked[i] \in Scored
    <3>1. leg[at(head[i])][2] \in Int
      BY <2>2
    <3> HIDE DEF marked, at, word
    <3>2. /\ banded(head[i]) \in Scored /\ banded(head[i]).memory = head[i].memory
          /\ banded(head[i]).judged = leg[at(head[i])][2] /\ banded(head[i]).score = word(head[i])
      BY <2>1, <2>2, <2>3, <3>1, AnewIsScored
    <3> HIDE DEF banded
    <3> QED BY <2>4, <3>2
  <2> HIDE DEF marked
  <2> QED BY <2>2, <2>5
<1>8. marked \in Seq(Scored) /\ DOMAIN marked = DOMAIN head
  <2>1. DOMAIN head = 1..Len(head) /\ Len(head) \in Nat
    BY <1>4, RankedAreTold
  <2>2. marked = [i \in 1..Len(head) |-> banded(head[i])]
    BY <2>1
  <2>3. \A i \in 1..Len(head) : marked[i] \in Scored
    BY <1>7, <2>1
  <2> HIDE DEF banded
  <2>4. \A i \in 1..Len(head) : banded(head[i]) \in Scored
    BY <2>2, <2>3
  <2>5. marked \in [1..Len(head) -> Scored]
    BY <2>2, <2>4
  <2> HIDE DEF marked
  <2> QED BY <2>1, <2>2, <2>5
<1> HIDE DEF marked, banded, word, at
<1>9. IsRanking(marked, H)
  BY <1>4, <1>7, <1>8, RestatedRanking
<1>10. /\ IsRanking(first, H) /\ DOMAIN first = DOMAIN marked
       /\ \A i \in DOMAIN marked : \E j \in DOMAIN marked : first[i] = marked[j]
       /\ \A i, j \in DOMAIN marked : i < j => <<first[j], first[i]>> \notin ByScore
  <2>1. first = SortedBy(marked, ByScore)
    BY <1>8, StableSortIsListed
  <2> HIDE DEF first
  <2> QED BY <1>9, <2>1, ScoreIsWeak, ResortedRanking
<1> HIDE DEF first
<1>11. ASSUME NEW i \in DOMAIN first
       PROVE  /\ first[i] \in Scored
              /\ first[i].judged = Opined(leg, first[i].memory.id) /\ first[i].judged > 0
              /\ first[i].score = (first[i].judged * Band(first[i].memory)) \div 100
  BY <1>7, <1>8, <1>10
<1>12. ASSUME NEW i \in DOMAIN first, NEW j \in DOMAIN first, i < j
       PROVE  first[i].score >= first[j].score
  <2>1. first[i].score \in Int /\ first[j].score \in Int
    BY <1>11, ScoredHaveKeys
  <2>2. first[i] \in Scored /\ first[j] \in Scored /\ <<first[j], first[i]>> \notin ByScore
    BY <1>10, <1>11, <1>12
  <2>3. ~ (first[j].score > first[i].score)
    BY <2>2 DEF ByScore
  <2> QED BY <2>1, <2>3
<1>13. ASSUME NEW i \in DOMAIN tail
       PROVE  tail[i].judged = 0 /\ Opined(leg, tail[i].memory.id) = 0
  BY <1>5 DEF Unjudged, Opined, at
<1> DEFINE out == first \o tail
<1>14. /\ IsRanking(out, M)
       /\ \A i \in DOMAIN out :
              \/ i \in DOMAIN first /\ out[i] = first[i]
              \/ i - Len(first) \in DOMAIN tail /\ out[i] = tail[i - Len(first)]
  <2>1. IsRanking(out, H \cup T) /\ Joins(out, first, tail)
    BY <1>5, <1>6, <1>10, JoinedRanking
  <2> HIDE DEF out
  <2> QED BY <1>6, <2>1 DEF Joins
<1> HIDE DEF out
<1>15. BearsOpinions(out, leg)
  BY <1>11, <1>13, <1>14 DEF BearsOpinions
<1>16. ASSUME NEW i \in DOMAIN out, NEW j \in DOMAIN out, i < j
       PROVE  /\ out[i].judged = 0 => out[j].judged = 0
              /\ out[j].judged # 0 =>
                   (out[i].judged * Band(out[i].memory)) \div 100 >=
                   (out[j].judged * Band(out[j].memory)) \div 100
  <2>1. /\ DOMAIN first = 1..Len(first) /\ Len(first) \in Nat
        /\ DOMAIN tail = 1..Len(tail) /\ Len(tail) \in Nat
        /\ DOMAIN out = 1..Len(out) /\ Len(out) \in Nat
    BY <1>5, <1>10, <1>14, RankedAreTold
  <2>2. CASE j - Len(first) \in DOMAIN tail /\ out[j] = tail[j - Len(first)]
    BY <1>13, <2>2
  <2>3. CASE j \in DOMAIN first /\ out[j] = first[j]
    <3>1. i \in DOMAIN first /\ ~ (i - Len(first) \in DOMAIN tail)
      BY <1>16, <2>1, <2>3
    <3>2. out[i] = first[i]
      BY <1>14, <3>1
    <3>3. first[i].score >= first[j].score
      BY <1>12, <1>16, <2>3, <3>1
    <3> QED BY <1>11, <2>3, <3>1, <3>2, <3>3
  <2> QED BY <1>14, <2>2, <2>3
<1>17. ByTheirWord(out)
  BY <1>16 DEF ByTheirWord
<1>19. ASSUME NEW i \in DOMAIN out, NEW j \in DOMAIN out, i < j,
              out[i].judged = 0, out[j].judged = 0
       PROVE  \E k, l \in DOMAIN list : k < l /\ list[k] = out[i] /\ list[l] = out[j]
  <2>1. Len(first) \in Nat /\ DOMAIN out = 1..Len(out) /\ Len(out) \in Nat
    BY <1>10, <1>14, RankedAreTold
  <2>2. /\ i - Len(first) \in DOMAIN tail /\ out[i] = tail[i - Len(first)]
        /\ j - Len(first) \in DOMAIN tail /\ out[j] = tail[j - Len(first)]
    BY <1>11, <1>14, <1>19
  <2>3. i - Len(first) < j - Len(first)
    BY <1>19, <2>1
  <2> QED BY <1>18, <2>2, <2>3
<1>20. KeepsTheRest(out, list)
  BY <1>19 DEF KeepsTheRest
<1> QED BY <1>1, <1>14, <1>15, <1>17, <1>20 DEF out
\* Where its term is one among the legs', none is lost either.
LEMMA RestatedByTerms ==
  ASSUME NEW M, NEW list, IsRanking(list, M), NEW leg, IsLeg(leg, M), NEW rk \in RankerType,
         \A i \in DOMAIN list : Unjudged(list[i])
  PROVE  LET out == StableSort([i \in DOMAIN list |-> WithTerm(rk, list[i], leg)], Ahead)
         IN IsRanking(out, M) /\ BearsOpinions(out, leg)
<1> DEFINE terms == [i \in DOMAIN list |-> WithTerm(rk, list[i], leg)]
           out == StableSort(terms, Ahead)
<1>1. out = StableSort(terms, Ahead)
  OBVIOUS
<1>2. list \in Seq(Scored) /\ Len(list) \in Nat /\ DOMAIN list = 1..Len(list)
  BY RankedAreTold DEF IsRanking
<1>3. ASSUME NEW i \in DOMAIN list
      PROVE  /\ WithTerm(rk, list[i], leg) \in Scored
             /\ WithTerm(rk, list[i], leg).memory = list[i].memory
             /\ WithTerm(rk, list[i], leg).judged = Opined(leg, list[i].memory.id)
  <2>1. list[i] \in Scored
    BY <1>2
  <2> QED BY <2>1, WithTermRestates
<1>4. /\ DOMAIN terms = DOMAIN list
      /\ \A i \in DOMAIN list : terms[i] \in Scored /\ terms[i].memory = list[i].memory
                                /\ terms[i].judged = Opined(leg, terms[i].memory.id)
  BY <1>3
<1>5. terms \in Seq(Scored)
  <2>1. terms \in [1..Len(list) -> Scored]
    BY <1>2, <1>3
  <2> QED BY <1>2, <2>1
<1> HIDE DEF terms
<1>6. IsRanking(terms, M)
  BY <1>4, <1>5, RestatedRanking
<1>7. out = SortedBy(terms, ByAhead)
  BY <1>1, <1>5, StableSortIsListed
<1> HIDE DEF out
<1>8. /\ IsRanking(out, M) /\ DOMAIN out = DOMAIN terms
      /\ \A i \in DOMAIN terms : \E j \in DOMAIN terms : out[i] = terms[j]
  BY <1>6, <1>7, AheadIsWeak, ResortedRanking
<1>9. IsRanking(out, M) /\ BearsOpinions(out, leg)
  BY <1>4, <1>8 DEF BearsOpinions
<1> QED BY <1>9 DEF out, terms

\* Applying the second stage loses and invents no memory, whatever part of the
\* list was judged (RecallRanker, apply_rerank).
LEMMA ApplyRerankRanks ==
  ASSUME NEW M, NEW list, IsRanking(list, M), NEW leg, IsLeg(leg, M), NEW rk \in RankerType,
         \A i \in DOMAIN list : Unjudged(list[i])
  PROVE  /\ IsRanking(ApplyRerank(rk, list, leg), M)
         /\ BearsOpinions(ApplyRerank(rk, list, leg), leg)
         /\ rk.strategy = "replace" => /\ ByTheirWord(ApplyRerank(rk, list, leg))
                                       /\ KeepsTheRest(ApplyRerank(rk, list, leg), list)
<1> DEFINE terms == StableSort([i \in DOMAIN list |-> WithTerm(rk, list[i], leg)], Ahead)
<1>1. /\ leg = <<>> => ApplyRerank(rk, list, leg) = list
      /\ leg # <<>> /\ rk.strategy = "replace" => ApplyRerank(rk, list, leg) = Replaced(list, leg)
      /\ leg # <<>> /\ rk.strategy # "replace" => ApplyRerank(rk, list, leg) = terms
  BY DEF ApplyRerank
<1> HIDE DEF terms
<1>2. CASE leg = <<>>
  <2>1. \A id : JudgedAt(leg, id) \in Nat /\ (JudgedAt(leg, id) > 0 => JudgedAt(leg, id) \in DOMAIN leg)
    BY JudgedAtFinds DEF IsLeg
  <2>2. \A id : JudgedAt(leg, id) = 0
    BY <1>2, <2>1
  <2>3. \A id : Opined(leg, id) = 0
    BY <2>2 DEF Opined
  <2>4. KeepsTheRest(list, list)
    BY DEF KeepsTheRest
  <2> QED BY <1>1, <1>2, <2>3, <2>4 DEF BearsOpinions, ByTheirWord, Unjudged
<1>3. CASE leg # <<>> /\ rk.strategy = "replace"
  BY <1>1, <1>3, ReplacedRanks
<1>4. CASE leg # <<>> /\ rk.strategy # "replace"
  <2>1. IsRanking(terms, M) /\ BearsOpinions(terms, leg)
    BY RestatedByTerms DEF terms
  <2> QED BY <1>1, <1>4, <2>1
<1> QED BY <1>2, <1>3, <1>4
-----------------------------------------------------------------------------
(* The reserved places.                                                     *)

Plain(s, graph) == s.memory.id \notin Range(graph)

\* The same list but for the places of what the graph found.
Widens(wide, list, graph) ==
  /\ DOMAIN wide = DOMAIN list
  /\ \A i \in DOMAIN list : \E j \in DOMAIN list : wide[i] = list[j]
  /\ \A j \in DOMAIN list : \E i \in DOMAIN list : wide[i] = list[j]
  /\ 1 \in DOMAIN list => wide[1] = list[1]
  /\ \A i, j, k, l \in DOMAIN list :
       i < j /\ wide[k] = list[i] /\ wide[l] = list[j] /\ Plain(list[i], graph) /\ Plain(list[j], graph)
       => k < l

\* After n places were reserved none has fallen by more, and what has risen is
\* from the graph and stood near the limit or below it.
Shifts(wide, list, graph, limit, n) ==
  \A i, k \in DOMAIN list : wide[k] = list[i] =>
    /\ k <= i + n
    /\ k < i => ~ Plain(list[i], graph) /\ i + 2 * n >= limit + 2

\* What one more place does to the places of a list.
ShiftsOnce(wide, list, graph, limit, slot) ==
  \A i, k \in DOMAIN list : wide[k] = list[i] =>
    \/ k = i \/ k = i + 1
    \/ k < i /\ ~ Plain(list[i], graph) /\ i + slot >= limit + 1

\* A place after others shifts by one more.
LEMMA ShiftingFurther ==
  ASSUME NEW M, NEW list, IsRanking(list, M), NEW graph, NEW limit \in Nat, NEW n \in Nat,
         NEW wide, Widens(wide, list, graph), Shifts(wide, list, graph, limit, n),
         NEW wider, Widens(wider, wide, graph), ShiftsOnce(wider, wide, graph, limit, n + 1)
  PROVE  Shifts(wider, list, graph, limit, n + 1)
<1> SUFFICES ASSUME NEW i \in DOMAIN list, NEW k \in DOMAIN list, wider[k] = list[i]
             PROVE  /\ k <= i + (n + 1)
                    /\ k < i => ~ Plain(list[i], graph) /\ i + 2 * (n + 1) >= limit + 2
  BY DEF Shifts
<1>1. DOMAIN wide = DOMAIN list /\ DOMAIN list = 1..Len(list) /\ Len(list) \in Nat
  BY RankedAreTold DEF Widens
<1>2. PICK m \in DOMAIN list : wide[m] = list[i]
  BY DEF Widens
<1>3. /\ m <= i + n
      /\ m < i => ~ Plain(list[i], graph) /\ i + 2 * n >= limit + 2
  BY <1>2 DEF Shifts
<1>4. \/ k = m \/ k = m + 1
      \/ k < m /\ ~ Plain(list[i], graph) /\ m + (n + 1) >= limit + 1
  BY <1>1, <1>2 DEF ShiftsOnce
<1>5. i \in Nat /\ k \in Nat /\ m \in Nat
  BY <1>1
<1> QED BY <1>3, <1>4, <1>5

HopWithin(list, graph, limit) == \E i \in DOMAIN list : i <= limit /\ ~ Plain(list[i], graph)

\* Reserving a place after another.
LEMMA WideningFurther ==
  ASSUME NEW M, NEW list, IsRanking(list, M), NEW graph, NEW wide, Widens(wide, list, graph),
         NEW wider, Widens(wider, wide, graph)
  PROVE  Widens(wider, list, graph)
<1>1. /\ DOMAIN wider = DOMAIN list
      /\ \A i \in DOMAIN list : \E j \in DOMAIN list : wider[i] = list[j]
      /\ \A j \in DOMAIN list : \E i \in DOMAIN list : wider[i] = list[j]
      /\ 1 \in DOMAIN list => wider[1] = list[1]
  BY DEF Widens
<1>2. ASSUME NEW i \in DOMAIN list, NEW j \in DOMAIN list, NEW k \in DOMAIN list, NEW l \in DOMAIN list,
             i < j, wider[k] = list[i], wider[l] = list[j], Plain(list[i], graph), Plain(list[j], graph)
      PROVE  k < l
  <2>1. PICK m \in DOMAIN list : wide[m] = list[i]
    BY DEF Widens
  <2>2. PICK n \in DOMAIN list : wide[n] = list[j]
    BY DEF Widens
  <2>3. m < n
    BY <1>2, <2>1, <2>2 DEF Widens
  <2>4. /\ DOMAIN wide = DOMAIN list
        /\ \A x, y, u, v \in DOMAIN wide :
             x < y /\ wider[u] = wide[x] /\ wider[v] = wide[y]
               /\ Plain(wide[x], graph) /\ Plain(wide[y], graph) => u < v
    BY DEF Widens
  <2> QED BY <1>2, <2>1, <2>2, <2>3, <2>4
<1> QED BY <1>1, <1>2 DEF Widens

\* One memory of the graph moved up, past the first place.
LEMMA MovedRanking ==
  ASSUME NEW M, NEW list, IsRanking(list, M), NEW from \in DOMAIN list, NEW to \in DOMAIN list,
         1 < to, to < from, NEW graph, ~ Plain(list[from], graph),
         NEW out, out = Moved(list, from, to)
  PROVE  /\ IsRanking(out, M) /\ Widens(out, list, graph)
         /\ out[to] = list[from]
         /\ \A i \in DOMAIN list : i < to => out[i] = list[i]
         /\ \A i, k \in DOMAIN list : out[k] = list[i] =>
              k = i \/ k = i + 1 \/ (k < i /\ i = from)
<1> DEFINE D == DOMAIN list
           order == [i \in D |-> IF i = to THEN from ELSE IF to < i /\ i <= from THEN i - 1 ELSE i]
<1>1. /\ list \in Seq(Scored) /\ Len(list) \in Nat /\ D = 1..Len(list)
      /\ \A i \in D : list[i] \in Scored
  BY RankedAreTold DEF IsRanking
<1>2. from \in Nat /\ to \in Nat
  BY <1>1
<1>3. \A i \in D : order[i] \in D
  BY <1>1, <1>2
<1>4. \A i, j \in D : order[i] = order[j] => i = j
  BY <1>1, <1>2
<1>5. \A j \in D : \E i \in D : order[i] = j
  <2> TAKE j \in D
  <2>1. CASE j = from
    BY <2>1
  <2>2. CASE to <= j /\ j < from
    <3>1. j + 1 \in D /\ order[j + 1] = j
      BY <1>1, <1>2, <2>2
    <3> QED BY <3>1
  <2>3. CASE j < to \/ j > from
    <3>1. order[j] = j
      BY <1>1, <1>2, <2>3
    <3> QED BY <3>1
  <2> QED BY <1>1, <1>2, <2>1, <2>2, <2>3
<1>6. \A i, j \in D : order[i] < order[j] /\ order[i] # from /\ order[j] # from => i < j
  BY <1>1, <1>2
<1>7. out = [i \in D |-> list[order[i]]]
  BY DEF Moved
<1>8. /\ order[to] = from /\ order[1] = 1 /\ 1 \in D
      /\ \A i \in D : i < to => order[i] = i
  BY <1>1, <1>2
<1>9. order \in [D -> D]
  BY <1>3
<1>17. \A i, k \in D : order[k] = i => k = i \/ k = i + 1 \/ (k < i /\ i = from)
  BY <1>1, <1>2
<1> HIDE DEF order
<1>10. order \in Bijection(D, D)
  BY <1>4, <1>5, <1>9, Fun_IsBij
<1>11. out \in Seq(Scored) /\ DOMAIN out = D /\ \A i \in D : out[i] = list[order[i]]
  <2>1. \A i \in 1..Len(list) : list[order[i]] \in Scored
    BY <1>1, <1>3
  <2>2. out = [i \in 1..Len(list) |-> list[order[i]]]
    BY <1>1, <1>7
  <2>3. out \in [1..Len(list) -> Scored]
    BY <2>1, <2>2
  <2> QED BY <1>1, <1>7, <2>3
<1>12. IsRanking(out, M)
  BY <1>10, <1>11, PermutedRanking
<1>13. \A i, j \in D : list[i] = list[j] => i = j
  BY DEF IsRanking
<1>14. ASSUME NEW i \in D, NEW j \in D, NEW k \in D, NEW l \in D, i < j,
              out[k] = list[i], out[l] = list[j], Plain(list[i], graph), Plain(list[j], graph)
       PROVE  k < l
  <2>1. order[k] = i /\ order[l] = j
    <3>1. order[k] \in D /\ order[l] \in D /\ list[order[k]] = list[i] /\ list[order[l]] = list[j]
      BY <1>3, <1>11, <1>14
    <3> HIDE DEF D
    <3> QED BY <1>13, <1>14, <3>1
  <2>2. i # from /\ j # from
    BY <1>14
  <2> QED BY <1>6, <1>14, <2>1, <2>2
<1>15. /\ \A i \in D : \E j \in D : out[i] = list[j]
       /\ \A j \in D : \E i \in D : out[i] = list[j]
       /\ out[1] = list[1] /\ out[to] = list[from]
       /\ \A i \in D : i < to => out[i] = list[i]
  <2> HIDE DEF D
  <2>1. \A i \in D : \E j \in D : out[i] = list[j]
    BY <1>3, <1>11
  <2>2. \A j \in D : \E i \in D : out[i] = list[j]
    BY <1>5, <1>11
  <2>3. to \in D /\ 1 \in D
    BY <1>8 DEF D
  <2>4. /\ out[1] = list[1] /\ out[to] = list[from]
        /\ \A i \in D : i < to => out[i] = list[i]
    BY <1>8, <1>11, <2>3
  <2> QED BY <2>1, <2>2, <2>4
<1>16. Widens(out, list, graph)
  <2>1. DOMAIN out = D
    BY <1>11
  <2> QED BY <1>14, <1>15, <2>1 DEF Widens
<1>18. ASSUME NEW i \in D, NEW k \in D, out[k] = list[i]
       PROVE  k = i \/ k = i + 1 \/ (k < i /\ i = from)
  <2>1. order[k] = i
    <3>1. order[k] \in D /\ list[order[k]] = list[i]
      BY <1>3, <1>11, <1>18
    <3> HIDE DEF D
    <3> QED BY <1>13, <3>1
  <2> QED BY <1>17, <2>1
<1> QED BY <1>12, <1>15, <1>16, <1>18

\* One reserved place, whether there is anything to fill it with or not.
LEMMA PromoteWidens ==
  ASSUME NEW M, NEW list, IsRanking(list, M), NEW graph \in Seq(Memories),
         NEW limit \in Nat \ {0}, NEW slot \in Nat \ {0}, NEW out, out = Promote(list, graph, limit, slot)
  PROVE  /\ IsRanking(out, M) /\ Widens(out, list, graph)
         /\ ShiftsOnce(out, list, graph, limit, slot)
         /\ limit > 1 /\ (\E i \in DOMAIN list : ~ Plain(list[i], graph))
              /\ (slot = 1 \/ HopWithin(list, graph, limit))
            => HopWithin(out, graph, limit)
<1> DEFINE edge  == Most2(limit - slot, 1)
           at(g) == RankOf(IdsOf(list), graph[g])
           below == {g \in DOMAIN graph : at(g) - 1 > slot /\ at(g) - 1 >= edge}
           g0 == Least(below)
<1>1. /\ Len(list) \in Nat /\ DOMAIN list = 1..Len(list)
      /\ \A i, j \in DOMAIN list : list[i].memory.id = list[j].memory.id => i = j
      /\ \A i \in DOMAIN list : list[i].memory.id \in Memories
  BY RankedAreTold DEF IsRanking
<1>2. /\ IdsOf(list) \in Seq(Memories) /\ DOMAIN IdsOf(list) = DOMAIN list
      /\ \A i \in DOMAIN list : IdsOf(list)[i] = list[i].memory.id
  <2>1. IdsOf(list) = [i \in 1..Len(list) |-> list[i].memory.id]
    BY <1>1 DEF IdsOf
  <2>2. IdsOf(list) \in [1..Len(list) -> Memories]
    BY <1>1, <2>1
  <2> QED BY <1>1, <2>1, <2>2
<1>3. \A g : /\ at(g) \in Nat
             /\ at(g) > 0 => at(g) \in DOMAIN list /\ list[at(g)].memory.id = graph[g]
             /\ at(g) = 0 => \A i \in DOMAIN list : list[i].memory.id # graph[g]
  BY <1>2, RankOfFinds
<1>4. DOMAIN graph = 1..Len(graph) /\ Len(graph) \in Nat
  OBVIOUS
<1>5. edge \in Nat /\ edge >= 1 /\ (limit > 1 /\ slot = 1 => edge = limit - 1) /\ edge >= limit - slot
  BY DEF Most2
<1>6. out = IF below = {} THEN list ELSE Moved(list, at(g0), slot + 1)
  BY DEF Promote
<1> HIDE DEF at, edge
<1>7. CASE below = {}
  <2>1. out = list
    BY <1>6, <1>7
  <2>2. Widens(out, list, graph)
    BY <1>1, <2>1 DEF Widens
  <2>5. ShiftsOnce(out, list, graph, limit, slot)
    <3>1. \A i, k \in DOMAIN list : list[k] = list[i] => k = i
      BY DEF IsRanking
    <3> QED BY <2>1, <3>1 DEF ShiftsOnce
  <2>3. ASSUME limit > 1, slot = 1, NEW i \in DOMAIN list, ~ Plain(list[i], graph)
        PROVE  i <= limit
    <3>1. PICK g \in DOMAIN graph : graph[g] = list[i].memory.id
      BY <2>3 DEF Plain, Range
    <3>2. at(g) = i
      BY <1>1, <1>3, <3>1
    <3>3. ~ (i - 1 > slot /\ i - 1 >= edge)
      BY <1>7, <3>2
    <3> QED BY <1>1, <1>5, <2>3, <3>3
  <2>4. limit > 1 /\ slot = 1 /\ (\E i \in DOMAIN list : ~ Plain(list[i], graph))
          => HopWithin(out, graph, limit)
    BY <2>1, <2>3 DEF HopWithin
  <2> QED BY <2>1, <2>2, <2>4, <2>5
<1>8. CASE below # {}
  <2>1. g0 \in below
    <3>1. below \in SUBSET Nat
      BY <1>4
    <3> HIDE DEF below
    <3> QED BY <1>8, <3>1, LeastIsLeast
  <2>2. /\ g0 \in DOMAIN graph /\ at(g0) - 1 > slot /\ at(g0) - 1 >= edge
    BY <2>1
  <2> HIDE DEF below, g0
  <2>3. at(g0) \in DOMAIN list /\ list[at(g0)].memory.id = graph[g0]
    BY <1>3, <2>2
  <2>4. ~ Plain(list[at(g0)], graph)
    BY <2>2, <2>3 DEF Plain, Range
  <2>5. slot + 1 \in DOMAIN list /\ 1 < slot + 1 /\ slot + 1 < at(g0)
    BY <1>1, <1>3, <2>2, <2>3
  <2>6. out = Moved(list, at(g0), slot + 1)
    BY <1>6, <1>8
  <2>7. /\ IsRanking(out, M) /\ Widens(out, list, graph)
        /\ out[slot + 1] = list[at(g0)]
        /\ \A i \in DOMAIN list : i < slot + 1 => out[i] = list[i]
        /\ \A i, k \in DOMAIN list : out[k] = list[i] =>
             k = i \/ k = i + 1 \/ (k < i /\ i = at(g0))
    BY <2>3, <2>4, <2>5, <2>6, MovedRanking
  <2>10. ShiftsOnce(out, list, graph, limit, slot)
    <3>1. at(g0) + slot >= limit + 1
      BY <1>3, <1>5, <2>2
    <3> QED BY <2>4, <2>7, <3>1 DEF ShiftsOnce
  <2>8. DOMAIN out = DOMAIN list
    BY <2>7 DEF Widens
  <2>9. ASSUME limit > 1, slot = 1 \/ HopWithin(list, graph, limit)
        PROVE  HopWithin(out, graph, limit)
    <3>1. CASE slot + 1 <= limit
      BY <2>4, <2>5, <2>7, <2>8, <3>1 DEF HopWithin
    <3>2. CASE slot + 1 > limit
      <4>1. slot # 1
        BY <2>9, <3>2
      <4>2. PICK i \in DOMAIN list : i <= limit /\ ~ Plain(list[i], graph)
        BY <2>9, <4>1 DEF HopWithin
      <4>3. i < slot + 1
        BY <1>1, <3>2, <4>2
      <4> QED BY <2>7, <2>8, <4>2, <4>3 DEF HopWithin
    <3> QED BY <3>1, <3>2
  <2> QED BY <2>7, <2>9, <2>10
<1> QED BY <1>7, <1>8

\* The reserved places keep the best first, every memory, and the order of all
\* that the graph did not find; and some of what it found is within the limit
\* (RecallRanker, apply_expansion), for any number of places.
LEMMA ApplyExpansionWidens ==
  ASSUME NEW M, NEW list, IsRanking(list, M), NEW graph \in Seq(Memories),
         NEW limit \in Nat \ {0}, NEW places \in Nat
  PROVE  /\ places = 0 => ApplyExpansion(list, graph, limit, places) = list
         /\ IsRanking(ApplyExpansion(list, graph, limit, places), M)
         /\ Widens(ApplyExpansion(list, graph, limit, places), list, graph)
         /\ Shifts(ApplyExpansion(list, graph, limit, places), list, graph, limit, places)
         /\ places > 0 /\ limit > 1 /\ (\E i \in DOMAIN list : ~ Plain(list[i], graph))
            => HopWithin(ApplyExpansion(list, graph, limit, places), graph, limit)
<1> DEFINE Steps(f, n) ==
             f = [slot \in 0..n |-> IF slot = 0 THEN list ELSE Promote(f[slot - 1], graph, limit, slot)]
           after == CHOOSE f : Steps(f, places)
           Possible == {n \in Nat : \E f : Steps(f, n)}
<1>1. 0 \in Possible
  <2> DEFINE f == [slot \in 0..0 |-> list]
  <2>1. Steps(f, 0)
    OBVIOUS
  <2> QED BY <2>1
<1>2. ASSUME NEW n \in Nat, n \in Possible PROVE n + 1 \in Possible
  <2>1. PICK f : Steps(f, n)
    BY <1>2
  <2> DEFINE g == [slot \in 0..n + 1 |->
                     IF slot <= n THEN f[slot] ELSE Promote(f[n], graph, limit, n + 1)]
  <2>2. ASSUME NEW slot \in 0..n + 1
        PROVE  g[slot] = IF slot = 0 THEN list ELSE Promote(g[slot - 1], graph, limit, slot)
    <3>1. CASE slot = 0
      BY <2>1, <3>1
    <3>2. CASE slot \in 1..n
      <4>1. f[slot] = Promote(f[slot - 1], graph, limit, slot)
        BY <2>1, <3>2
      <4>2. g[slot] = f[slot] /\ g[slot - 1] = f[slot - 1]
        BY <3>2
      <4> HIDE DEF g
      <4> QED BY <3>2, <4>1, <4>2
    <3>3. CASE slot = n + 1
      <4>1. g[slot] = Promote(f[n], graph, limit, n + 1) /\ g[n] = f[n]
        BY <3>3
      <4> HIDE DEF g
      <4> QED BY <3>3, <4>1
    <3> QED BY <3>1, <3>2, <3>3
  <2>3. Steps(g, n + 1)
    <3>1. g = [slot \in 0..n + 1 |-> g[slot]]
      OBVIOUS
    <3> HIDE DEF g
    <3>2. [slot \in 0..n + 1 |-> g[slot]]
            = [slot \in 0..n + 1 |-> IF slot = 0 THEN list ELSE Promote(g[slot - 1], graph, limit, slot)]
      BY <2>2
    <3> QED BY <3>1, <3>2
  <2> HIDE DEF Steps, g
  <2> QED BY <2>3
<1>3. Steps(after, places)
  <2>1. places \in Possible
    <3> HIDE DEF Possible
    <3> QED BY <1>1, <1>2, CountingUp
  <2> QED BY <2>1
<1>4. ApplyExpansion(list, graph, limit, places) = after[places]
  BY DEF ApplyExpansion
<1>5. /\ after[0] = list
      /\ \A slot \in 1..places : after[slot] = Promote(after[slot - 1], graph, limit, slot)
  <2> HIDE DEF after
  <2>1. \A slot \in 0..places :
          after[slot] = IF slot = 0 THEN list ELSE Promote(after[slot - 1], graph, limit, slot)
    BY <1>3, Zenon
  <2> QED BY <2>1
<1> HIDE DEF after, Steps, Possible
<1> DEFINE Good(slot) ==
             /\ IsRanking(after[slot], M) /\ Widens(after[slot], list, graph)
             /\ Shifts(after[slot], list, graph, limit, slot)
             /\ slot > 0 /\ limit > 1 /\ (\E i \in DOMAIN list : ~ Plain(list[i], graph))
                => HopWithin(after[slot], graph, limit)
           Sound == {n \in Nat : n <= places => Good(n)}
<1>6. 0 \in Sound
  <2>1. Widens(list, list, graph)
    <3>1. \A i, j \in DOMAIN list : list[i] = list[j] => i = j
      BY DEF IsRanking
    <3> QED BY <3>1 DEF Widens
  <2>2. Shifts(list, list, graph, limit, 0)
    <3>1. \A i, j \in DOMAIN list : list[i] = list[j] => i = j
      BY DEF IsRanking
    <3>2. \A i \in DOMAIN list : i \in Nat
      BY RankedAreTold
    <3> QED BY <3>1, <3>2 DEF Shifts
  <2> QED BY <1>5, <2>1, <2>2
<1>7. ASSUME NEW n \in Nat, n \in Sound PROVE n + 1 \in Sound
  <2> SUFFICES ASSUME n + 1 <= places PROVE Good(n + 1)
    OBVIOUS
  <2>1. Good(n)
    BY <1>7
  <2>2. n + 1 \in 1..places /\ n + 1 \in Nat \ {0} /\ (n + 1 = 1 <=> n = 0)
    OBVIOUS
  <2>3. after[n + 1] = Promote(after[n], graph, limit, n + 1)
    BY <1>5, <2>2
  <2>4. \A i \in DOMAIN list : ~ Plain(list[i], graph) =>
          \E j \in DOMAIN after[n] : ~ Plain(after[n][j], graph)
    BY <2>1 DEF Widens
  <2>5. IsRanking(after[n], M)
    BY <2>1
  <2> HIDE DEF Good
  <2>6. /\ IsRanking(after[n + 1], M) /\ Widens(after[n + 1], after[n], graph)
        /\ ShiftsOnce(after[n + 1], after[n], graph, limit, n + 1)
        /\ limit > 1 /\ (\E i \in DOMAIN after[n] : ~ Plain(after[n][i], graph))
             /\ (n + 1 = 1 \/ HopWithin(after[n], graph, limit))
           => HopWithin(after[n + 1], graph, limit)
    BY <2>2, <2>3, <2>5, PromoteWidens
  <2>7. Widens(after[n], list, graph) /\ Shifts(after[n], list, graph, limit, n)
    BY <2>1 DEF Good
  <2>8. Widens(after[n + 1], list, graph)
    BY <2>5, <2>6, <2>7, WideningFurther
  <2>10. Shifts(after[n + 1], list, graph, limit, n + 1)
    BY <2>5, <2>6, <2>7, ShiftingFurther
  <2>9. n > 0 \/ n + 1 = 1
    OBVIOUS
  <2> QED BY <2>1, <2>4, <2>6, <2>8, <2>9, <2>10 DEF Good
<1>8. places \in Sound
  <2> HIDE DEF Sound
  <2> QED BY <1>6, <1>7, CountingUp
<1> QED BY <1>4, <1>5, <1>8
-----------------------------------------------------------------------------
(* The hop: the graph is grown along the walks from the seeds.              *)

\* What one more hop adds to the pairs of a key and a depth.
Grows(pairs, d, live) ==
  pairs \cup
    {<<k, d>> : k \in {k \in Keys : \E p \in pairs, e \in live :
                         /\ p[2] = d - 1
                         /\ p[1] \in GraphOf!Ends(e) /\ k \in GraphOf!Ends(e) \ {p[1]}}}

\* k is arrived at after d hops.
At(depth, k, d) == <<k, d>> \in depth

Touches(depth, e, d) == \E k \in GraphOf!Ends(e) : At(depth, k, d)

\* Across one edge, from an end that was arrived at to the other one.
Crosses(depth, live, k, d) ==
  \E q : At(depth, q, d) /\ \E e \in live : q \in GraphOf!Ends(e) /\ k \in GraphOf!Ends(e) \ {q}

\* Only seeds at first, and then whatever an edge leads to.
Steps(depth, live, seeds, hops) ==
  /\ \A k : At(depth, k, 0) <=> k \in seeds
  /\ \A d \in 1..hops - 1 : \A k : At(depth, k, d) <=> k \in Keys /\ Crosses(depth, live, k, d - 1)

\* Reachable's recursion, unfolded once at each depth.
LEMMA ReachableGrows ==
  ASSUME NEW live, NEW seeds, NEW hops \in Nat \ {0}
  PROVE  \E g : /\ g[hops - 1] = GraphOf!Reachable(live, seeds, hops)
                /\ g[0] = {<<k, 0>> : k \in seeds}
                /\ \A d \in 1..hops - 1 : g[d] = Grows(g[d - 1], d, live)
<1> DEFINE Sown == {<<k, 0>> : k \in seeds}
           Is(f, n) == f = [d \in 0..n |-> IF d = 0 THEN Sown ELSE Grows(f[d - 1], d, live)]
           top == hops - 1
           grown == CHOOSE f : Is(f, top)
           Possible == {n \in Nat : \E f : Is(f, n)}
<1> HIDE DEF Sown
<1>0. top \in Nat
  OBVIOUS
<1>1. 0 \in Possible
  <2> DEFINE f == [d \in 0..0 |-> Sown]
  <2>1. Is(f, 0)
    OBVIOUS
  <2> QED BY <2>1
<1>2. ASSUME NEW n \in Nat, n \in Possible PROVE n + 1 \in Possible
  <2>1. PICK f : Is(f, n)
    BY <1>2
  <2> DEFINE g == [d \in 0..n + 1 |-> IF d <= n THEN f[d] ELSE Grows(f[n], n + 1, live)]
  <2>2. ASSUME NEW d \in 0..n + 1
        PROVE  g[d] = IF d = 0 THEN Sown ELSE Grows(g[d - 1], d, live)
    <3>1. CASE d = 0
      BY <2>1, <3>1
    <3>2. CASE d \in 1..n
      <4>1. f[d] = Grows(f[d - 1], d, live)
        BY <2>1, <3>2
      <4>2. g[d] = f[d] /\ g[d - 1] = f[d - 1]
        BY <3>2
      <4> HIDE DEF g
      <4> QED BY <3>2, <4>1, <4>2
    <3>3. CASE d = n + 1
      <4>1. g[d] = Grows(f[n], n + 1, live) /\ g[n] = f[n]
        BY <3>3
      <4> HIDE DEF g
      <4> QED BY <3>3, <4>1
    <3> QED BY <3>1, <3>2, <3>3
  <2>3. Is(g, n + 1)
    <3>1. g = [d \in 0..n + 1 |-> g[d]]
      OBVIOUS
    <3> HIDE DEF g
    <3>2. [d \in 0..n + 1 |-> g[d]]
            = [d \in 0..n + 1 |-> IF d = 0 THEN Sown ELSE Grows(g[d - 1], d, live)]
      BY <2>2
    <3> QED BY <3>1, <3>2
  <2> HIDE DEF Is, g
  <2> QED BY <2>3
<1>3. Is(grown, top)
  <2>1. top \in Possible
    <3> HIDE DEF Possible, top
    <3> QED BY <1>0, <1>1, <1>2, CountingUp
  <2> HIDE DEF Is
  <2> QED BY <2>1
<1>4. GraphOf!Reachable(live, seeds, hops) = grown[top]
  BY DEF GraphOf!Reachable, Grows, Sown
<1> HIDE DEF grown
<1>5. \A d \in 0..top : grown[d] = IF d = 0 THEN Sown ELSE Grows(grown[d - 1], d, live)
  BY <1>3, Zenon
<1>6. grown[0] = Sown /\ \A d \in 1..top : grown[d] = Grows(grown[d - 1], d, live)
  <2> HIDE DEF top
  <2> QED BY <1>0, <1>5
<1> QED BY <1>4, <1>6 DEF Sown

\* A key is arrived at after d hops if an edge leads to it from one that was
\* arrived at after d - 1, for any number of hops (SqliteEntityGraph, the
\* recursive query of neighbours).
LEMMA ReachableSteps ==
  ASSUME NEW live, NEW seeds, NEW hops \in Nat \ {0}
  PROVE  Steps(GraphOf!Reachable(live, seeds, hops), live, seeds, hops)
<1> DEFINE top == hops - 1
<1>1. PICK g : /\ g[top] = GraphOf!Reachable(live, seeds, hops)
               /\ g[0] = {<<k, 0>> : k \in seeds}
               /\ \A d \in 1..top : g[d] = Grows(g[d - 1], d, live)
  BY ReachableGrows
<1>2. top \in Nat
  OBVIOUS
<1> HIDE DEF top
<1> DEFINE Pairs == {n \in Nat : n <= top => \A p \in g[n] : \E k : \E d \in 0..n : p = <<k, d>>}
           Stays == {n \in Nat : n <= top => \A d \in 0..n : \A k : At(g[n], k, d) <=> At(g[d], k, d)}
<1>3. \A n \in Nat : n \in Pairs
  <2>1. 0 \in Pairs
    BY <1>1
  <2>2. ASSUME NEW n \in Nat, n \in Pairs PROVE n + 1 \in Pairs
    <3> SUFFICES ASSUME n + 1 <= top, NEW p \in g[n + 1]
                 PROVE  \E k : \E d \in 0..n + 1 : p = <<k, d>>
      OBVIOUS
    <3>1. g[n + 1] = Grows(g[n], n + 1, live)
      <4>1. n + 1 \in 1..top /\ (n + 1) - 1 = n
        BY <1>2
      <4> QED BY <1>1, <4>1
    <3>2. p \in g[n] \/ \E k : p = <<k, n + 1>>
      BY <3>1 DEF Grows
    <3>3. n <= top /\ \A d \in 0..n : d \in 0..n + 1
      BY <1>2
    <3>4. n + 1 \in 0..n + 1
      OBVIOUS
    <3> QED BY <2>2, <3>2, <3>3, <3>4
  <2> HIDE DEF Pairs
  <2> QED BY <2>1, <2>2, CountingUp
<1>4. ASSUME NEW n \in Nat, n + 1 <= top, NEW k, NEW d \in 0..n
      PROVE  At(g[n + 1], k, d) <=> At(g[n], k, d)
  <2>1. g[n + 1] = Grows(g[n], n + 1, live)
    <3>1. n + 1 \in 1..top /\ (n + 1) - 1 = n
      BY <1>2, <1>4
    <3> QED BY <1>1, <3>1
  <2>2. d # n + 1
    OBVIOUS
  <2> QED BY <2>1, <2>2 DEF Grows, At
<1>5. \A n \in Nat : n \in Stays
  <2>1. 0 \in Stays
    OBVIOUS
  <2>2. ASSUME NEW n \in Nat, n \in Stays PROVE n + 1 \in Stays
    <3> SUFFICES ASSUME n + 1 <= top, NEW d \in 0..n + 1, NEW k
                 PROVE  At(g[n + 1], k, d) <=> At(g[d], k, d)
      OBVIOUS
    <3>1. CASE d = n + 1
      BY <3>1
    <3>2. CASE d \in 0..n
      <4>1. n <= top
        BY <1>2
      <4>2. At(g[n], k, d) <=> At(g[d], k, d)
        BY <2>2, <3>2, <4>1
      <4>3. At(g[n + 1], k, d) <=> At(g[n], k, d)
        BY <1>4, <3>2
      <4> QED BY <4>2, <4>3
    <3> QED BY <3>1, <3>2
  <2> HIDE DEF Stays
  <2> QED BY <2>1, <2>2, CountingUp
<1>6. \A d \in 0..top : \A k : At(g[top], k, d) <=> At(g[d], k, d)
  BY <1>2, <1>5
<1>7. \A k : At(g[top], k, 0) <=> k \in seeds
  <2>1. \A k : At(g[0], k, 0) <=> k \in seeds
    BY <1>1 DEF At
  <2>2. 0 \in 0..top
    BY <1>2
  <2> QED BY <1>6, <2>1, <2>2
<1>8. ASSUME NEW d \in 1..top, NEW k
      PROVE  At(g[top], k, d) <=> k \in Keys /\ Crosses(g[top], live, k, d - 1)
  <2>1. /\ d \in 0..top /\ d - 1 \in 0..top /\ d - 1 \in Nat /\ d - 1 <= top /\ d \notin 0..d - 1
    BY <1>2
  <2>2. \A p \in g[d - 1] : \E q : \E c \in 0..d - 1 : p = <<q, c>>
    BY <1>3, <2>1
  <2>3. ~ At(g[d - 1], k, d)
    BY <2>1, <2>2 DEF At
  <2>4. At(g[d], k, d) <=> k \in Keys /\ \E p \in g[d - 1], e \in live :
                             /\ p[2] = d - 1
                             /\ p[1] \in GraphOf!Ends(e) /\ k \in GraphOf!Ends(e) \ {p[1]}
    <3>1. g[d] = Grows(g[d - 1], d, live)
      BY <1>1
    <3>2. At(g[d], k, d) <=> At(Grows(g[d - 1], d, live), k, d)
      BY <3>1
    <3>3. At(Grows(g[d - 1], d, live), k, d)
            <=> \/ At(g[d - 1], k, d)
                \/ k \in Keys /\ \E p \in g[d - 1], e \in live :
                                  /\ p[2] = d - 1
                                  /\ p[1] \in GraphOf!Ends(e) /\ k \in GraphOf!Ends(e) \ {p[1]}
      BY DEF Grows, At
    <3> QED BY <2>3, <3>2, <3>3
  <2>5. (\E p \in g[d - 1], e \in live :
           /\ p[2] = d - 1
           /\ p[1] \in GraphOf!Ends(e) /\ k \in GraphOf!Ends(e) \ {p[1]})
        <=> Crosses(g[d - 1], live, k, d - 1)
    <3>1. ASSUME NEW p \in g[d - 1], p[2] = d - 1 PROVE At(g[d - 1], p[1], d - 1)
      BY <2>2, <3>1 DEF At
    <3>2. ASSUME NEW q, At(g[d - 1], q, d - 1)
          PROVE  \E p \in g[d - 1] : p[2] = d - 1 /\ p[1] = q
      <4>1. <<q, d - 1>> \in g[d - 1]
        BY <3>2 DEF At
      <4> WITNESS <<q, d - 1>> \in g[d - 1]
      <4> QED OBVIOUS
    <3> QED BY <3>1, <3>2 DEF Crosses
  <2>6. Crosses(g[d - 1], live, k, d - 1) <=> Crosses(g[top], live, k, d - 1)
    BY <1>6, <2>1 DEF Crosses
  <2>7. At(g[top], k, d) <=> At(g[d], k, d)
    BY <1>6, <2>1
  <2> QED BY <2>4, <2>5, <2>6, <2>7
<1> QED BY <1>1, <1>7, <1>8 DEF Steps, top

\* What is touched after d hops, is the end of a walk of d + 1 edges.
LEMMA TouchedEndsWalk ==
  ASSUME NEW depth, NEW live, NEW seeds, NEW hops \in Nat \ {0}, Steps(depth, live, seeds, hops)
  PROVE  \A d \in 0..hops - 1 : \A e \in live : Touches(depth, e, d) =>
           \E w \in [1..d + 1 -> live] : IsWalk(w, d + 1, seeds) /\ w[d + 1] = e
<1> DEFINE Walked(d) == \A e \in live : Touches(depth, e, d) =>
                          \E w \in [1..d + 1 -> live] : IsWalk(w, d + 1, seeds) /\ w[d + 1] = e
           Good == {d \in Nat : d <= hops - 1 => Walked(d)}
<1>1. 0 \in Good
  <2> SUFFICES ASSUME NEW e \in live, Touches(depth, e, 0)
               PROVE  \E w \in [1..1 -> live] : IsWalk(w, 1, seeds) /\ w[1] = e
    OBVIOUS
  <2> DEFINE w == [i \in 1..1 |-> e]
  <2>1. w \in [1..1 -> live] /\ w[1] = e
    OBVIOUS
  <2>2. GraphOf!Ends(e) \cap seeds # {}
    BY DEF Touches, Steps
  <2>3. IsWalk(w, 1, seeds)
    BY <2>1, <2>2 DEF IsWalk
  <2> QED BY <2>1, <2>3
<1>2. ASSUME NEW d \in Nat, d \in Good PROVE d + 1 \in Good
  <2> SUFFICES ASSUME d + 1 <= hops - 1, NEW e \in live, Touches(depth, e, d + 1)
               PROVE  \E w \in [1..d + 2 -> live] : IsWalk(w, d + 2, seeds) /\ w[d + 2] = e
    OBVIOUS
  <2>1. d + 1 \in 1..hops - 1 /\ (d + 1) - 1 = d /\ d <= hops - 1
    OBVIOUS
  <2>2. PICK k \in GraphOf!Ends(e) : At(depth, k, d + 1)
    BY DEF Touches
  <2>3. Crosses(depth, live, k, d)
    BY <2>1, <2>2 DEF Steps
  <2>4. PICK q : /\ At(depth, q, d)
                 /\ \E f \in live : q \in GraphOf!Ends(f) /\ k \in GraphOf!Ends(f) \ {q}
    BY <2>3 DEF Crosses
  <2>5. PICK f \in live : q \in GraphOf!Ends(f) /\ k \in GraphOf!Ends(f)
    BY <2>4
  <2>6. PICK v \in [1..d + 1 -> live] : IsWalk(v, d + 1, seeds) /\ v[d + 1] = f
    BY <1>2, <2>1, <2>5, <2>4 DEF Touches
  <2> DEFINE w == [i \in 1..d + 2 |-> IF i = d + 2 THEN e ELSE v[i]]
  <2>7. w \in [1..d + 2 -> live] /\ w[d + 2] = e /\ \A i \in 1..d + 1 : w[i] = v[i]
    BY <2>6
  <2>8. 1 \in 1..d + 1 /\ d + 1 \in 1..d + 1
    OBVIOUS
  <2> HIDE DEF w
  <2>9. ASSUME NEW i \in 1..(d + 2) - 1
        PROVE  GraphOf!Ends(w[i]) \cap GraphOf!Ends(w[i + 1]) # {}
    <3>1. CASE i = d + 1
      <4>1. w[i] = f /\ w[i + 1] = e
        BY <2>6, <2>7, <2>8, <3>1
      <4>2. k \in GraphOf!Ends(f) /\ k \in GraphOf!Ends(e)
        BY <2>2, <2>5
      <4> QED BY <4>1, <4>2
    <3>2. CASE i # d + 1
      <4>1. i \in 1..(d + 1) - 1 /\ i \in 1..d + 1 /\ i + 1 \in 1..d + 1
        BY <3>2
      <4>2. w[i] = v[i] /\ w[i + 1] = v[i + 1]
        BY <2>7, <4>1
      <4>3. GraphOf!Ends(v[i]) \cap GraphOf!Ends(v[i + 1]) # {}
        BY <2>6, <4>1 DEF IsWalk
      <4> QED BY <4>2, <4>3
    <3> QED BY <3>1, <3>2
  <2>10. IsWalk(w, d + 2, seeds)
    <3>1. GraphOf!Ends(w[1]) \cap seeds # {}
      BY <2>6, <2>7, <2>8 DEF IsWalk
    <3> QED BY <2>9, <3>1 DEF IsWalk
  <2> QED BY <2>7, <2>10
<1>3. \A d \in Nat : d \in Good
  <2> HIDE DEF Good
  <2> QED BY <1>1, <1>2, CountingUp
<1> HIDE DEF Walked
<1>4. \A d \in 0..hops - 1 : Walked(d)
  BY <1>3
<1> QED BY <1>4 DEF Walked

\* The end of a walk of n edges is touched after less than n hops.
LEMMA WalkTouchesItsEnd ==
  ASSUME NEW depth, NEW live \in SUBSET Edges, NEW seeds, NEW hops \in Nat \ {0},
         Steps(depth, live, seeds, hops)
  PROVE  \A n \in 1..hops : \A w \in [1..n -> live] :
           IsWalk(w, n, seeds) => \E d \in 0..n - 1 : Touches(depth, w[n], d)
<1> DEFINE Ended(n) == \A w \in [1..n -> live] :
                         IsWalk(w, n, seeds) => \E d \in 0..n - 1 : Touches(depth, w[n], d)
           Good == {n \in Nat : n + 1 <= hops => Ended(n + 1)}
<1>1. 0 \in Good
  <2> SUFFICES ASSUME NEW w \in [1..1 -> live], IsWalk(w, 1, seeds)
               PROVE  \E d \in 0..1 - 1 : Touches(depth, w[1], d)
    OBVIOUS
  <2>1. Touches(depth, w[1], 0)
    BY DEF IsWalk, Touches, Steps
  <2> QED BY <2>1
<1>2. ASSUME NEW n \in Nat, n \in Good PROVE n + 1 \in Good
  <2> SUFFICES ASSUME n + 2 <= hops, NEW w \in [1..n + 2 -> live], IsWalk(w, n + 2, seeds)
               PROVE  \E d \in 0..n + 1 : Touches(depth, w[n + 2], d)
    OBVIOUS
  <2> DEFINE v == [i \in 1..n + 1 |-> w[i]]
  <2>1. v \in [1..n + 1 -> live] /\ \A i \in 1..n + 1 : v[i] = w[i]
    OBVIOUS
  <2>2. 1 \in 1..n + 1 /\ n + 1 \in 1..n + 1 /\ n + 1 \in 1..(n + 2) - 1 /\ (n + 1) + 1 = n + 2
        /\ n + 1 <= hops /\ n + 2 \in 1..n + 2
    OBVIOUS
  <2> HIDE DEF v
  <2>3. IsWalk(v, n + 1, seeds)
    <3>1. GraphOf!Ends(v[1]) \cap seeds # {}
      BY <2>1, <2>2 DEF IsWalk
    <3>2. ASSUME NEW i \in 1..(n + 1) - 1
          PROVE  GraphOf!Ends(v[i]) \cap GraphOf!Ends(v[i + 1]) # {}
      <4>1. i \in 1..(n + 2) - 1 /\ i \in 1..n + 1 /\ i + 1 \in 1..n + 1
        OBVIOUS
      <4>2. GraphOf!Ends(w[i]) \cap GraphOf!Ends(w[i + 1]) # {}
        BY <4>1 DEF IsWalk
      <4> QED BY <2>1, <4>1, <4>2
    <3> QED BY <3>1, <3>2 DEF IsWalk
  <2>4. PICK d \in 0..n : Touches(depth, v[n + 1], d)
    <3>1. Ended(n + 1)
      BY <1>2, <2>2
    <3>2. \E d \in 0..(n + 1) - 1 : Touches(depth, v[n + 1], d)
      BY <2>1, <2>3, <3>1
    <3> QED BY <3>2
  <2>5. PICK k \in GraphOf!Ends(w[n + 1]) : At(depth, k, d)
    BY <2>1, <2>2, <2>4 DEF Touches
  <2>6. PICK x : x \in GraphOf!Ends(w[n + 1]) /\ x \in GraphOf!Ends(w[n + 2])
    BY <2>2 DEF IsWalk
  <2>7. CASE x = k
    <3>1. Touches(depth, w[n + 2], d)
      BY <2>5, <2>6, <2>7 DEF Touches
    <3> QED BY <3>1
  <2>8. CASE x # k
    <3>1. d + 1 \in 1..hops - 1 /\ d + 1 \in 0..n + 1 /\ (d + 1) - 1 = d
      OBVIOUS
    <3>2. w[n + 1] \in live /\ w[n + 1] \in Edges
      <4>1. n + 1 \in 1..n + 2
        OBVIOUS
      <4> QED BY <4>1
    <3>3. x \in Keys
      BY <2>6, <3>2, RecallAssumption
    <3>4. Crosses(depth, live, x, d)
      BY <2>5, <2>6, <2>8, <3>2 DEF Crosses
    <3>5. At(depth, x, d + 1)
      BY <3>1, <3>3, <3>4 DEF Steps
    <3>6. Touches(depth, w[n + 2], d + 1)
      BY <2>6, <3>5 DEF Touches
    <3> QED BY <3>1, <3>6
  <2> QED BY <2>7, <2>8
<1>3. \A n \in Nat : n \in Good
  <2> HIDE DEF Good
  <2> QED BY <1>1, <1>2, CountingUp
<1>4. ASSUME NEW n \in 1..hops PROVE Ended(n)
  <2>1. n - 1 \in Nat /\ (n - 1) + 1 = n
    OBVIOUS
  <2> HIDE DEF Ended
  <2>2. n - 1 \in Good
    BY <1>3, <2>1
  <2> QED BY <2>1, <2>2
<1> QED BY <1>4

\* What the hop sees: the edges it may walk, and the entities that it starts from.
LiveEdges == {e \in Edges : e.owner = 1 /\ GraphOf!LiveAt(e, Now)}
HopSeeds == GraphOf!Seeds(1, SeedCandidates(Words, KeyOfRun, GraphOf!NoKey))

\* The memories that are touched in less than n hops.
Touched(seeds, n) ==
  {m \in Memories : \E e \in LiveEdges : e.memory = m /\ \E d \in 0..n - 1 :
                      Touches(GraphOf!Reachable(LiveEdges, seeds, MaxHops), e, d)}

\* They are the same: the recursion measures shortest paths.
LEMMA TouchedIsWithin ==
  ASSUME NEW seeds, NEW n \in 1..MaxHops
  PROVE  Touched(seeds, n) = Within(seeds, n)
<1> DEFINE depth == GraphOf!Reachable(LiveEdges, seeds, MaxHops)
<1>1. MaxHops \in Nat \ {0} /\ n \in Nat /\ n <= MaxHops
  BY RecallAssumption
<1>2. LiveEdges \in SUBSET Edges
  BY DEF LiveEdges
<1>3. Steps(depth, LiveEdges, seeds, MaxHops)
  BY <1>1, ReachableSteps
<1> HIDE DEF depth
<1>4. ASSUME NEW m \in Touched(seeds, n) PROVE m \in Within(seeds, n)
  <2>1. PICK e \in LiveEdges : e.memory = m /\ \E d \in 0..n - 1 : Touches(depth, e, d)
    BY DEF Touched, depth
  <2>2. PICK d \in 0..n - 1 : Touches(depth, e, d)
    BY <2>1
  <2>3. d \in 0..MaxHops - 1 /\ d + 1 \in 1..n
    BY <1>1
  <2>4. \E w \in [1..d + 1 -> LiveEdges] : IsWalk(w, d + 1, seeds) /\ w[d + 1] = e
    BY <1>1, <1>3, <2>2, <2>3, TouchedEndsWalk
  <2>5. m \in Memories
    BY DEF Touched
  <2> QED BY <2>1, <2>3, <2>4, <2>5 DEF Within, LiveEdges
<1>5. ASSUME NEW m \in Within(seeds, n) PROVE m \in Touched(seeds, n)
  <2>1. PICK k \in 1..n : \E w \in [1..k -> LiveEdges] : w[k].memory = m /\ IsWalk(w, k, seeds)
    BY DEF Within, LiveEdges
  <2>2. PICK w \in [1..k -> LiveEdges] : w[k].memory = m /\ IsWalk(w, k, seeds)
    BY <2>1
  <2>3. k \in 1..MaxHops /\ k \in 1..k /\ \A d \in 0..k - 1 : d \in 0..n - 1
    BY <1>1
  <2>4. PICK d \in 0..k - 1 : Touches(depth, w[k], d)
    BY <1>1, <1>2, <1>3, <2>2, <2>3, WalkTouchesItsEnd
  <2>5. m \in Memories
    BY DEF Within, LiveEdges
  <2> QED BY <2>2, <2>3, <2>4, <2>5 DEF Touched, depth
<1> QED BY <1>4, <1>5
-----------------------------------------------------------------------------
(* The legs of a recall.                                                    *)

\* A list cut to a number is its beginning.
LEMMA CutIsPrefix ==
  ASSUME NEW T, NEW list \in Seq(T), NEW n \in Nat
  PROVE  /\ Cut(list, n) \in Seq(T)
         /\ Len(Cut(list, n)) = Least2(n, Len(list)) /\ Least2(n, Len(list)) \in Nat
         /\ DOMAIN Cut(list, n) = 1..Least2(n, Len(list))
         /\ \A i \in DOMAIN Cut(list, n) : i \in DOMAIN list /\ Cut(list, n)[i] = list[i]
<1> DEFINE k == Least2(n, Len(list))
<1>1. k \in Nat /\ k <= Len(list) /\ Len(list) \in Nat
  BY DEF Least2
<1>2. Cut(list, n) = SubSeq(list, 1, k)
  BY DEF Cut
<1> HIDE DEF k
<1>3. SubSeq(list, 1, k) = [i \in 1..k |-> list[i]]
  BY <1>1
<1>4. [i \in 1..k |-> list[i]] \in [1..k -> T]
  BY <1>1
<1>5. Cut(list, n) \in [1..k -> T] /\ \A i \in 1..k : Cut(list, n)[i] = list[i]
  BY <1>2, <1>3, <1>4
<1>6. Cut(list, n) \in Seq(T) /\ DOMAIN Cut(list, n) = 1..k /\ Len(Cut(list, n)) = k
  BY <1>1, <1>5
<1> QED BY <1>1, <1>5, <1>6 DEF k

\* A leg is asked for at least forty.
LEMMA CandidateDepthIsNumber ==
  ASSUME query \in Queries PROVE CandidateDepth \in Nat /\ CandidateDepth >= 40
BY RecallAssumption DEF CandidateDepth, Least2, Most2

\* What a leg returns is a list of memories.
LEMMA NearestIsLeg ==
  ASSUME query \in Queries, NEW S \in SUBSET Memories, NEW by, \A m \in Memories : by[m] \in Int
  PROVE  Nearest(S, by) \in Seq(Memories)
<1> DEFINE Q == {p \in S \X S : by[p[1]] > by[p[2]] \/ (by[p[1]] = by[p[2]] /\ p[1] < p[2])}
           list == Listed(S, Q)
<1>1. Nearest(S, by) = Cut(list, CandidateDepth)
  BY DEF Nearest, Sorted
<1>2. \A m \in S : m \in Int /\ by[m] \in Int
  BY RecallAssumption
<1>3. StrictTotal(Q, S)
  BY <1>2 DEF StrictTotal
<1>4. IsFiniteSet(S)
  BY RecallAssumption, FS_Subset
<1>5. Cardinality(S) \in Nat /\ list \in Bijection(1..Cardinality(S), S)
  <2> HIDE DEF Q
  <2> QED BY <1>3, <1>4, ListedInOrder
<1> HIDE DEF list
<1>6. list \in [1..Cardinality(S) -> S]
  BY <1>5, Fun_BijectionProperties
<1>7. list \in Seq(Memories)
  BY <1>5, <1>6
<1> QED BY <1>1, <1>7, CutIsPrefix, CandidateDepthIsNumber

\* The graph counts as the ranker does.
LEMMA GraphCounts == \A S : GraphOf!Cardinality(S) = Cardinality(S)
BY DEF GraphOf!Cardinality, Cardinality

\* Lists of memories, the nearest first, from which only the limit keeps any.
Nearby(seeds) ==
  {out \in Seq(Memories) :
     /\ Range(out) \subseteq Touched(seeds, MaxHops)
     /\ Touched(seeds, MaxHops) \subseteq Range(out) \/ Len(out) = HopLimit
     /\ \A i \in DOMAIN out, n \in 1..MaxHops :
          out[i] \in Touched(seeds, n) \/ \A m \in Touched(seeds, n) : \E j \in 1..i - 1 : out[j] = m}

\* The neighbours are such a list.
LEMMA NeighboursAreNearest ==
  ASSUME NEW seeds
  PROVE  GraphOf!Neighbours(1, seeds, MaxHops, Now, HopLimit) \in Nearby(seeds)
<1> DEFINE live  == LiveEdges
           depth == GraphOf!Reachable(live, seeds, MaxHops)
           touched0(e, d) == Touches(depth, e, d)
           touching(m) == {e \in live : e.memory = m /\ \E d \in 0..MaxHops - 1 : touched0(e, d)}
           depths(m) == {d \in 0..MaxHops - 1 : \E e \in touching(m) : touched0(e, d)}
           hit(m) == [memory |-> m, hop |-> 1 + GraphOf!Least(depths(m)),
                      weight |-> Cardinality(touching(m))]
           near == {m \in Memories : touching(m) # {}}
           S == {hit(m) : m \in near}
           Q == {p \in S \X S : GraphOf!Nearer(p[1], p[2])}
           hits == IF MaxHops = 0 THEN <<>> ELSE Listed(S, Q)
<1>1. GraphOf!Neighbours(1, seeds, MaxHops, Now, HopLimit)
        = [i \in 1..GraphOf!Least({HopLimit, Len(hits)}) |-> hits[i].memory]
  <2>1. GraphOf!Hits(1, seeds, MaxHops, Now) = S
    BY GraphCounts DEF GraphOf!Hits, LiveEdges, Touches, At
  <2> HIDE DEF S
  <2>2. GraphOf!Listed(S, Q) = Listed(S, Q)
    BY DEF GraphOf!Listed, Listed, GraphOf!Cardinality, Cardinality
  <2> DEFINE found == IF MaxHops = 0 THEN <<>> ELSE GraphOf!Listed(S, Q)
  <2>3. GraphOf!Neighbours(1, seeds, MaxHops, Now, HopLimit)
          = [i \in 1..GraphOf!Least({HopLimit, Len(found)}) |-> found[i].memory]
    BY <2>1 DEF GraphOf!Neighbours, GraphOf!Sorted
  <2>4. found = hits
    BY <2>2
  <2> HIDE DEF found, hits
  <2> QED BY <2>3, <2>4
<1>2. ASSUME NEW m \in near
      PROVE  hit(m).memory = m /\ hit(m).hop \in Int /\ hit(m).weight \in Int
  <2>1. depths(m) \in SUBSET Nat /\ depths(m) # {}
    <3>1. PICK e \in touching(m) : \E d \in 0..MaxHops - 1 : touched0(e, d)
      OBVIOUS
    <3>2. \A d \in 0..MaxHops - 1 : d \in Nat
      BY RecallAssumption
    <3> HIDE DEF touching, touched0
    <3> QED BY <3>1, <3>2
  <2>2. IsFiniteSet(touching(m))
    <3>1. touching(m) \in SUBSET Edges
      BY DEF LiveEdges
    <3> HIDE DEF touching
    <3> QED BY <3>1, RecallAssumption, FS_Subset
  <2> HIDE DEF depths, touching, near
  <2>3. GraphOf!Least(depths(m)) = Least(depths(m))
    BY DEF Least, GraphOf!Least
  <2>4. Least(depths(m)) \in Nat
    BY <2>1, LeastIsLeast
  <2>5. Cardinality(touching(m)) \in Nat
    BY <2>2, FS_CardinalityType
  <2> QED BY <2>3, <2>4, <2>5
<1>3. ASSUME NEW n \in 0..MaxHops, NEW m
       PROVE  m \in Touched(seeds, n) <=> m \in near /\ hit(m).hop <= n
  <2>1. \A d \in 0..n - 1 : d \in 0..MaxHops - 1 /\ d + 1 <= n
    BY RecallAssumption
  <2>2. m \in Touched(seeds, n)
          <=> m \in Memories /\ \E e \in live : e.memory = m /\ \E d \in 0..n - 1 : touched0(e, d)
    BY DEF Touched
  <2>3. depths(m) \in SUBSET Nat /\ GraphOf!Least(depths(m)) = Least(depths(m))
        /\ hit(m).hop = 1 + Least(depths(m))
    <3>1. \A d \in 0..MaxHops - 1 : d \in Nat
      BY RecallAssumption
    <3>2. GraphOf!Least(depths(m)) = Least(depths(m))
      BY DEF Least, GraphOf!Least
    <3> HIDE DEF touching, touched0
    <3> QED BY <3>1, <3>2
  <2>4. ASSUME m \in Touched(seeds, n) PROVE m \in near /\ hit(m).hop <= n
    <3>1. PICK e \in live : e.memory = m /\ \E d \in 0..n - 1 : touched0(e, d)
      BY <2>2, <2>4
    <3>2. PICK d \in 0..n - 1 : touched0(e, d)
      BY <3>1
    <3>3. e \in touching(m) /\ d \in depths(m) /\ m \in near
      <4> HIDE DEF touched0
      <4> QED BY <2>1, <2>2, <2>4, <3>1, <3>2
    <3> HIDE DEF depths, hit
    <3>4. Least(depths(m)) \in Nat /\ Least(depths(m)) <= d
      BY <2>3, <3>3, LeastIsLeast
    <3> QED BY <2>3, <3>3, <3>4
  <2>5. ASSUME m \in near, hit(m).hop <= n PROVE m \in Touched(seeds, n)
    <3>1. m \in Memories /\ depths(m) # {}
      <4> HIDE DEF touched0
      <4> QED BY <2>5
    <3>2. Least(depths(m)) \in depths(m)
      <4> HIDE DEF depths
      <4> QED BY <2>3, <3>1, LeastIsLeast
    <3>3. Least(depths(m)) \in 0..n - 1
      <4>1. Least(depths(m)) \in Nat
        BY <2>3, <3>2
      <4> HIDE DEF depths, hit
      <4> QED BY <2>3, <2>5, <4>1
    <3> DEFINE d == Least(depths(m))
    <3>4. \E e \in touching(m) : touched0(e, d)
      BY <3>2
    <3>5. PICK e \in live : e.memory = m /\ touched0(e, d)
      <4> HIDE DEF touched0, d
      <4> QED BY <3>4
    <3> HIDE DEF d, touched0
    <3> QED BY <2>2, <3>1, <3>3, <3>5 DEF d
  <2> QED BY <2>4, <2>5
<1>4. ASSUME NEW m \in near PROVE hit(m).hop <= MaxHops
  <2>1. PICK e \in touching(m) : \E d \in 0..MaxHops - 1 : touched0(e, d)
    OBVIOUS
  <2>2. e \in live /\ e.memory = m /\ m \in Memories
    <3> HIDE DEF touched0
    <3> QED BY <2>1
  <2>3. m \in Touched(seeds, MaxHops)
    <3> HIDE DEF touched0
    <3> QED BY <2>1, <2>2 DEF Touched, touched0
  <2>4. MaxHops \in 0..MaxHops
    BY RecallAssumption
  <2> HIDE DEF hit, near
  <2> QED BY <1>3, <2>3, <2>4
<1>5. near \in SUBSET Memories
  OBVIOUS
<1> HIDE DEF hit, near
<1>6. \A m \in near : m \in Int
  <2>1. Memories \subseteq Nat
    BY RecallAssumption
  <2> QED BY <1>5, <2>1
<1>7. ASSUME NEW x \in S
      PROVE  x.memory \in near /\ x = hit(x.memory) /\ x.memory \in Int /\ x.hop \in Int /\ x.weight \in Int
  <2>1. PICK m \in near : x = hit(m)
    OBVIOUS
  <2> QED BY <1>2, <1>6, <2>1
<1>8. IsFiniteSet(S)
  <2> DEFINE find == [m \in near |-> hit(m)]
  <2>1. find \in Surjection(near, S)
    BY Fun_IsSurj
  <2>2. IsFiniteSet(near)
    BY <1>5, RecallAssumption, FS_Subset
  <2> HIDE DEF find, S
  <2> QED BY <2>1, <2>2, FS_Surjection
<1> HIDE DEF S
<1>9. StrictTotal(Q, S)
  <2>1. \A x \in S : ~ GraphOf!Nearer(x, x)
    BY <1>7 DEF GraphOf!Nearer
  <2>2. \A x, y, z \in S : GraphOf!Nearer(x, y) /\ GraphOf!Nearer(y, z) => GraphOf!Nearer(x, z)
    BY <1>7 DEF GraphOf!Nearer
  <2>3. \A x, y \in S : x.memory = y.memory => x = y
    BY <1>7
  <2>4. \A x, y \in S : x = y \/ GraphOf!Nearer(x, y) \/ GraphOf!Nearer(y, x)
    BY <1>7, <2>3 DEF GraphOf!Nearer
  <2> QED BY <2>1, <2>2, <2>4 DEF StrictTotal
<1>10. Cardinality(S) \in Nat /\ Listed(S, Q) \in Bijection(1..Cardinality(S), S)
  <2> HIDE DEF Q
  <2> QED BY <1>8, <1>9, ListedInOrder
<1>11. Listed(S, Q) \in [1..Cardinality(S) -> S]
  <2> HIDE DEF Q
  <2> QED BY <1>10, Fun_BijectionProperties
<1>12. hits \in Seq(S)
  <2> HIDE DEF Q
  <2> QED BY <1>10, <1>11
<1> HIDE DEF hits
<1> DEFINE least == GraphOf!Least({HopLimit, Len(hits)})
<1>13. least = HopLimit \/ least = Len(hits)
  <2>1. HopLimit \in Nat /\ Len(hits) \in Nat
    BY <1>12, RecallAssumption
  <2> DEFINE both == {HopLimit, Len(hits)}
  <2>2. both \in SUBSET Nat /\ both # {}
    BY <2>1
  <2>3. least = Least(both)
    BY DEF Least, GraphOf!Least
  <2>4. Least(both) \in both
    <3> HIDE DEF both
    <3> QED BY <2>2, LeastIsLeast
  <2> QED BY <2>3, <2>4
<1>14. least \in Nat /\ least <= Len(hits) /\ Len(hits) \in Nat
  <2>1. HopLimit \in Nat /\ Len(hits) \in Nat
    BY <1>12, RecallAssumption
  <2> DEFINE both == {HopLimit, Len(hits)}
  <2>2. both \in SUBSET Nat /\ both # {} /\ Len(hits) \in both
    BY <2>1
  <2>3. least = Least(both)
    BY DEF Least, GraphOf!Least
  <2> HIDE DEF both, least
  <2> QED BY <2>1, <2>2, <2>3, LeastIsLeast
<1> HIDE DEF least
<1>15. \A i \in 1..least : hits[i].memory \in Memories
  <2>1. \A i \in 1..least : hits[i] \in S
    BY <1>12, <1>14
  <2> QED BY <1>5, <1>7, <2>1
<1>16. [i \in 1..least |-> hits[i].memory] \in [1..least -> Memories]
  BY <1>15
<1>17. [i \in 1..least |-> hits[i].memory] \in Seq(Memories)
  BY <1>14, <1>16
<1> DEFINE out == [i \in 1..least |-> hits[i].memory]
<1>18. MaxHops \in Nat /\ HopLimit \in Nat
  BY RecallAssumption
<1>19. ASSUME NEW i \in 1..least
       PROVE  /\ out[i] = hits[i].memory /\ hits[i] \in S /\ i \in 1..Len(hits) /\ MaxHops \in 0..MaxHops
              /\ MaxHops # 0 /\ Len(hits) = Cardinality(S) /\ out[i] \in near /\ hits[i] = hit(out[i])
              /\ hits[i].hop \in Int
  <2>1. i \in 1..Len(hits)
    BY <1>14
  <2>2. out[i] = hits[i].memory /\ hits[i] \in S
    BY <1>12, <2>1
  <2>3. MaxHops # 0 /\ Len(hits) = Cardinality(S)
    <3>1. MaxHops # 0
      BY <2>1 DEF hits
    <3>2. hits = Listed(S, Q)
      BY <3>1 DEF hits
    <3> HIDE DEF Q
    <3> QED BY <1>10, <1>11, <3>1, <3>2
  <2> HIDE DEF out
  <2> QED BY <1>7, <1>18, <2>1, <2>2, <2>3
<1>20. ASSUME NEW n \in 0..MaxHops, NEW m \in Touched(seeds, n)
       PROVE  \E j \in 1..Len(hits) : /\ hits[j] = hit(m) /\ hits[j].memory = m
                                      /\ hits[j].hop <= n /\ hits[j].hop \in Int
  <2>1. MaxHops # 0 /\ m \in near /\ hit(m).hop <= n
    BY <1>18, <1>3 DEF Touched
  <2>2. hit(m) \in S
    BY <2>1 DEF S
  <2>3. hits = Listed(S, Q) /\ DOMAIN Listed(S, Q) = 1..Cardinality(S) /\ Len(hits) = Cardinality(S)
    <3>1. hits = Listed(S, Q)
      BY <2>1 DEF hits
    <3> HIDE DEF Q
    <3> QED BY <1>10, <1>11, <3>1
  <2>4. PICK j \in 1..Cardinality(S) : Listed(S, Q)[j] = hit(m)
    <3> DEFINE D == 1..Cardinality(S)
    <3> HIDE DEF Q, D
    <3>1. Listed(S, Q) \in Bijection(D, S)
      BY <1>10 DEF D
    <3>2. \E j \in D : Listed(S, Q)[j] = hit(m)
      BY <2>2, <3>1, Fun_BijectionProperties
    <3> QED BY <3>2 DEF D
  <2>5. j \in 1..Len(hits) /\ hits[j] = hit(m)
    BY <2>3, <2>4
  <2>6. hit(m).memory = m /\ hit(m).hop \in Int
    BY <1>2, <2>1
  <2> HIDE DEF Q
  <2> QED BY <2>1, <2>5, <2>6
<1>21. \A i, j \in 1..Len(hits) : i < j /\ MaxHops # 0 => hits[i].hop <= hits[j].hop
  <2> SUFFICES ASSUME NEW i \in 1..Len(hits), NEW j \in 1..Len(hits), i < j, MaxHops # 0
               PROVE  hits[i].hop <= hits[j].hop
    OBVIOUS
  <2>1. hits = Listed(S, Q)
    BY DEF hits
  <2>2. Len(hits) = Cardinality(S)
    <3> HIDE DEF Q
    <3> QED BY <1>10, <1>11, <2>1
  <2>3. <<hits[i], hits[j]>> \in Q
    <3> HIDE DEF Q
    <3> QED BY <1>8, <1>9, <2>1, <2>2, ListedInOrder
  <2>4. GraphOf!Nearer(hits[i], hits[j]) /\ hits[i].hop \in Int /\ hits[j].hop \in Int
    BY <1>7, <2>3
  <2> QED BY <2>4 DEF GraphOf!Nearer
<1>22. /\ out \in Seq(Memories) /\ DOMAIN out = 1..least /\ Len(out) = least
       /\ Range(out) = {out[i] : i \in 1..least}
  BY <1>14, <1>17 DEF Range
<1>23. Range(out) \subseteq Touched(seeds, MaxHops)
  <2> SUFFICES ASSUME NEW i \in 1..least PROVE out[i] \in Touched(seeds, MaxHops)
    BY <1>22
  <2>1. /\ out[i] \in near /\ hits[i] = hit(out[i]) /\ MaxHops \in 0..MaxHops
    BY <1>19
  <2>2. hit(out[i]).hop <= MaxHops
    BY <2>1, <1>4
  <2> QED BY <1>3, <2>1, <2>2
<1>24. Touched(seeds, MaxHops) \subseteq Range(out) \/ Len(out) = HopLimit
  <2> SUFFICES ASSUME least # HopLimit, NEW m \in Touched(seeds, MaxHops) PROVE m \in Range(out)
    BY <1>22
  <2>1. least = Len(hits)
    BY <1>13
  <2>2. PICK j \in 1..Len(hits) : hits[j].memory = m
    BY <1>18, <1>20
  <2> QED BY <1>19, <1>22, <2>1, <2>2
<1>25. ASSUME NEW i \in DOMAIN out, NEW n \in 1..MaxHops, out[i] \notin Touched(seeds, n),
              NEW m \in Touched(seeds, n)
       PROVE  \E j \in 1..i - 1 : out[j] = m
  <2>1. i \in 1..least /\ n \in 0..MaxHops
    BY <1>22
  <2>2. /\ out[i] \in near /\ hits[i] = hit(out[i]) /\ i \in 1..Len(hits) /\ MaxHops # 0
        /\ hits[i].hop \in Int
    BY <1>19, <2>1
  <2>3. PICK j \in 1..Len(hits) : hits[j].memory = m /\ hits[j].hop <= n /\ hits[j].hop \in Int
    BY <1>20, <2>1
  <2>4. ~ (hits[i].hop <= n)
    BY <1>3, <1>25, <2>1, <2>2
  <2>5. j < i
    <3>1. ~ (i < j)
      BY <1>21, <2>2, <2>3, <2>4
    <3>2. i # j
      BY <2>3, <2>4
    <3> QED BY <2>2, <2>3, <3>1, <3>2
  <2>6. j \in 1..i - 1 /\ j \in 1..least
    BY <1>14, <2>1, <2>5
  <2> QED BY <1>19, <2>3, <2>6
<1>26. out \in Nearby(seeds)
  BY <1>22, <1>23, <1>24, <1>25 DEF Nearby
<1> QED BY <1>1, <1>26 DEF least
\* And so is what the graph returns.
LEMMA HopIsLeg == Hop \in Seq(Memories)
BY NeighboursAreNearest DEF Hop, Nearby
-----------------------------------------------------------------------------
(* The model's leg, and the answer.                                         *)

\* What the model says of the first n.
Opining(list, word, n) == [i \in 1..n |-> <<list[i].memory.id, word[list[i].memory.id]>>]

\* What the model says of the first n is a leg, and another one leads it only
\* if the model liked that one better than the one served first.
LEMMA BestFirstIsLeg ==
  ASSUME NEW M, NEW list, IsRanking(list, M), NEW word \in [Memories -> 1..100],
         NEW n \in 0..Len(list)
  PROVE  LET out == BestFirst(Opining(list, word, n))
         IN /\ IsLeg(out, M) /\ Len(out) = n
            /\ n > 0 => (out[1][1] # list[1].memory.id
                           <=> \E i \in 1..n : word[list[i].memory.id] > word[list[1].memory.id])
<1> DEFINE pairs == Opining(list, word, n)
           out == BestFirst(pairs)
<1>1. /\ Len(list) \in Nat /\ DOMAIN list = 1..Len(list)
      /\ \A i, j \in DOMAIN list : list[i].memory.id = list[j].memory.id => i = j
      /\ \A i \in DOMAIN list : list[i].memory.id \in Memories /\ list[i].memory.id \in M
  BY RankedAreTold DEF IsRanking
<1>2. n \in Nat /\ n <= Len(list)
  BY <1>1
<1>3. DOMAIN pairs = 1..n /\ 1..n \subseteq DOMAIN list
  BY <1>1, <1>2 DEF Opining
<1>4. ASSUME NEW i \in 1..n
      PROVE  /\ pairs[i] \in Judgements
             /\ pairs[i][1] = list[i].memory.id /\ pairs[i][2] = word[list[i].memory.id]
             /\ pairs[i][1] \in M /\ pairs[i][2] \in Int
  <2>1. pairs[i] = <<list[i].memory.id, word[list[i].memory.id]>>
    BY DEF Opining
  <2> HIDE DEF pairs
  <2>2. list[i].memory.id \in Memories /\ list[i].memory.id \in M
    BY <1>1, <1>3
  <2>3. word[list[i].memory.id] \in 1..100
    BY <2>2
  <2>4. \A x \in Memories, y \in 1..100 : <<x, y>> \in Judgements /\ y \in Int
    <3>1. \A y \in 1..100 : y \in Int
      OBVIOUS
    <3>2. \A x \in Memories, y \in 1..100 : <<x, y>> \in Memories \X (1..100)
      OBVIOUS
    <3> QED BY <3>1, <3>2 DEF Judgements
  <2>5. <<list[i].memory.id, word[list[i].memory.id]>> \in Judgements /\ word[list[i].memory.id] \in Int
    BY <2>2, <2>3, <2>4
  <2>6. pairs[i][1] = list[i].memory.id /\ pairs[i][2] = word[list[i].memory.id]
    BY <2>1
  <2> QED BY <2>1, <2>2, <2>5, <2>6
<1>5. pairs \in Seq(Judgements)
  <2>1. \A i \in 1..n : <<list[i].memory.id, word[list[i].memory.id]>> \in Judgements
    <3> TAKE i \in 1..n
    <3>1. pairs[i] = <<list[i].memory.id, word[list[i].memory.id]>>
      BY DEF Opining
    <3> HIDE DEF pairs
    <3> QED BY <1>4, <3>1
  <2>2. pairs \in [1..n -> Judgements]
    BY <2>1 DEF Opining
  <2> HIDE DEF pairs
  <2> QED BY <1>2, <2>2
<1> HIDE DEF pairs
<1>6. \A i, j \in 1..n : pairs[i][1] = pairs[j][1] => i = j
  BY <1>1, <1>3, <1>4
<1>7. PICK order \in Bijection(DOMAIN pairs, DOMAIN pairs) :
           /\ out = [i \in DOMAIN pairs |-> pairs[order[i]]]
           /\ \A i, j \in DOMAIN pairs : i < j =>
                \/ pairs[order[i]][2] > pairs[order[j]][2]
                \/ pairs[order[i]][2] = pairs[order[j]][2] /\ order[i] < order[j]
  <2> HIDE DEF out
  <2> QED BY <1>5, BestFirstSorts DEF out
<1>8. /\ \A i \in 1..n : order[i] \in 1..n
      /\ \A i, j \in 1..n : order[i] = order[j] => i = j
      /\ \A j \in 1..n : \E i \in 1..n : order[i] = j
  <2> DEFINE D == 1..n
  <2>1. order \in Bijection(D, D)
    BY <1>3
  <2> HIDE DEF out, pairs, D
  <2>2. order \in [D -> D]
    BY <2>1, Fun_BijectionProperties
  <2>3. \A i, j \in D : order[i] = order[j] => i = j
    BY <2>1, Fun_BijectionProperties
  <2>4. \A j \in D : \E i \in D : order[i] = j
    BY <2>1, Fun_BijectionProperties
  <2> QED BY <2>2, <2>3, <2>4 DEF D
<1>9. /\ out = [i \in 1..n |-> pairs[order[i]]]
      /\ \A i, j \in 1..n : i < j =>
                \/ pairs[order[i]][2] > pairs[order[j]][2]
                \/ pairs[order[i]][2] = pairs[order[j]][2] /\ order[i] < order[j]
  BY <1>3, <1>7
<1> HIDE DEF out
<1>10. out \in Seq(Judgements) /\ DOMAIN out = 1..n /\ Len(out) = n /\ \A i \in 1..n : out[i] = pairs[order[i]]
  <2>1. \A i \in 1..n : pairs[order[i]] \in Judgements
    BY <1>4, <1>8
  <2>2. out \in [1..n -> Judgements]
    BY <1>9, <2>1
  <2> QED BY <1>2, <1>9, <2>2
<1>11. IsLeg(out, M)
  <2>1. ASSUME NEW i \in 1..n, NEW j \in 1..n, out[i][1] = out[j][1] PROVE i = j
    <3>1. pairs[order[i]][1] = pairs[order[j]][1]
      BY <1>10, <2>1
    <3>2. order[i] = order[j]
      <4>1. order[i] \in 1..n /\ order[j] \in 1..n
        BY <1>8
      <4> QED BY <1>6, <3>1, <4>1
    <3> QED BY <1>8, <3>2
  <2>2. ASSUME NEW i \in 1..n PROVE out[i][1] \in M
    <3>1. order[i] \in 1..n /\ out[i] = pairs[order[i]]
      BY <1>8, <1>10
    <3>2. pairs[order[i]][1] \in M
      BY <1>4, <3>1
    <3> QED BY <3>1, <3>2
  <2> QED BY <1>10, <2>1, <2>2 DEF IsLeg
<1>12. ASSUME n > 0
       PROVE  out[1][1] # list[1].memory.id
                <=> \E i \in 1..n : word[list[i].memory.id] > word[list[1].memory.id]
  <2>1. 1 \in 1..n
    BY <1>2, <1>12
  <2>2. PICK first \in 1..n : order[first] = 1
    BY <1>8, <2>1
  <2>3. order[1] \in 1..n /\ out[1][1] = list[order[1]].memory.id
    BY <1>4, <1>8, <1>10, <2>1
  <2>4. out[1][1] # list[1].memory.id <=> order[1] # 1
    BY <1>1, <1>3, <2>1, <2>3
  <2>5. ASSUME order[1] # 1
        PROVE  word[list[order[1]].memory.id] > word[list[1].memory.id]
    <3>1. 1 < first
      BY <1>2, <2>2, <2>5
    <3>2. \/ pairs[order[1]][2] > pairs[1][2]
          \/ pairs[order[1]][2] = pairs[1][2] /\ order[1] < 1
      BY <1>9, <2>1, <2>2, <3>1
    <3>3. ~ (order[1] < 1)
      BY <1>2, <2>3
    <3>4. pairs[order[1]][2] > pairs[1][2]
      BY <3>2, <3>3
    <3> QED BY <1>4, <2>1, <2>3, <3>4
  <2>6. ASSUME order[1] = 1, NEW i \in 1..n PROVE ~ (word[list[i].memory.id] > word[list[1].memory.id])
    <3>1. PICK k \in 1..n : order[k] = i
      BY <1>8
    <3>2. CASE k = 1
      <4>1. i = 1
        BY <2>6, <3>1, <3>2
      <4>2. word[list[1].memory.id] \in Int
        BY <1>4, <2>1
      <4> QED BY <4>1, <4>2
    <3>3. CASE k # 1
      <4>1. 1 < k
        BY <1>2, <3>1, <3>3
      <4>2. pairs[1][2] > pairs[i][2] \/ pairs[1][2] = pairs[i][2]
        BY <1>9, <2>1, <2>6, <3>1, <4>1
      <4>3. /\ pairs[1][2] = word[list[1].memory.id] /\ pairs[i][2] = word[list[i].memory.id]
            /\ pairs[1][2] \in Int /\ pairs[i][2] \in Int
        BY <1>4, <2>1
      <4> QED BY <4>2, <4>3
    <3> QED BY <3>2, <3>3
  <2> QED BY <2>3, <2>4, <2>5, <2>6
<1> QED BY <1>10, <1>11, <1>12 DEF out, pairs

\* The list with its reserved places.
Wide(list) == ApplyExpansion(list, hop, query.limit, slots)

\* A query asks for some, and reserves a number of places.
LEMMA LimitsAreNumbers ==
  ASSUME query \in Queries, slots \in SlotCounts
  PROVE  query.limit \in Nat \ {0} /\ query.limit \in Nat /\ slots \in Nat
<1>1. query.limit \in 1..50
  BY RecallAssumption
<1>2. \A n \in 1..50 : n \in Nat /\ n \in Nat \ {0}
  OBVIOUS
<1> QED BY <1>1, <1>2, RecallAssumption

\* What is served is the list with its reserved places, up to the limit.
LEMMA ServedIsPrefix ==
  ASSUME query \in Queries, slots \in SlotCounts, hop \in Seq(Memories), NEW M, NEW list,
         IsRanking(list, M)
  PROVE  LET wide == Wide(list) IN
         /\ IsRanking(wide, M) /\ Widens(wide, list, hop) /\ Len(wide) = Len(list)
         /\ Shifts(wide, list, hop, query.limit, slots)
         /\ slots = 0 => wide = list
         /\ slots > 0 /\ query.limit > 1 /\ (\E i \in DOMAIN list : ~ Plain(list[i], hop))
            => HopWithin(wide, hop, query.limit)
         /\ Served(list) \in Seq(Scored)
         /\ Len(Served(list)) = Least2(query.limit, Len(list)) /\ Len(list) \in Nat
         /\ DOMAIN Served(list) = 1..Least2(query.limit, Len(list))
         /\ \A i \in DOMAIN Served(list) : i \in DOMAIN wide /\ Served(list)[i] = wide[i]
<1> DEFINE wide == Wide(list)
<1>1. query.limit \in Nat \ {0} /\ query.limit \in Nat /\ slots \in Nat
  BY LimitsAreNumbers
<1>2. /\ IsRanking(wide, M) /\ Widens(wide, list, hop)
      /\ Shifts(wide, list, hop, query.limit, slots)
      /\ slots = 0 => wide = list
      /\ slots > 0 /\ query.limit > 1 /\ (\E i \in DOMAIN list : ~ Plain(list[i], hop))
            => HopWithin(wide, hop, query.limit)
  BY <1>1, ApplyExpansionWidens DEF Wide
<1>3. Served(list) = Cut(wide, query.limit)
  BY DEF Served, Wide
<1> HIDE DEF wide
<1>4. Len(wide) = Len(list) /\ Len(list) \in Nat
  <2>1. Len(wide) \in Nat /\ Len(list) \in Nat /\ DOMAIN wide = 1..Len(wide) /\ DOMAIN list = 1..Len(list)
    BY <1>2, RankedAreTold
  <2>2. 1..Len(wide) = 1..Len(list)
    BY <1>2, <2>1 DEF Widens
  <2>3. \A a, b \in Nat : 1..a = 1..b => a = b
    BY PlacesAreFinite
  <2> QED BY <2>1, <2>2, <2>3
<1>5. wide \in Seq(Scored)
  BY <1>2 DEF IsRanking
<1>6. /\ Cut(wide, query.limit) \in Seq(Scored)
      /\ Len(Cut(wide, query.limit)) = Least2(query.limit, Len(wide))
      /\ DOMAIN Cut(wide, query.limit) = 1..Least2(query.limit, Len(wide))
      /\ \A i \in DOMAIN Cut(wide, query.limit) : i \in DOMAIN wide /\ Cut(wide, query.limit)[i] = wide[i]
  BY <1>1, <1>5, CutIsPrefix
<1> QED BY <1>2, <1>3, <1>4, <1>6 DEF wide

\* What is served, served whole where there is room.
LEMMA ServedIsFull ==
  ASSUME query \in Queries, slots \in SlotCounts, hop \in Seq(Memories), NEW M, NEW list,
         IsRanking(list, M)
  PROVE  /\ \A i \in DOMAIN Served(list) :
              /\ Served(list)[i] \in Scored /\ Served(list)[i].memory.id \in M
              /\ \E j \in DOMAIN list : Served(list)[i] = list[j]
         /\ \A i, j \in DOMAIN Served(list) :
              Served(list)[i].memory.id = Served(list)[j].memory.id => i = j
         /\ Len(list) <= query.limit \/ Len(Served(list)) < query.limit =>
              \A id \in M : \E i \in DOMAIN Served(list) : Served(list)[i].memory.id = id
<1> DEFINE wide == Wide(list)
           out == Served(list)
<1>1. /\ IsRanking(wide, M) /\ Widens(wide, list, hop) /\ Len(wide) = Len(list)
      /\ Len(out) = Least2(query.limit, Len(list)) /\ Len(list) \in Nat
      /\ DOMAIN out = 1..Least2(query.limit, Len(list))
      /\ \A i \in DOMAIN out : i \in DOMAIN wide /\ out[i] = wide[i]
  BY ServedIsPrefix
<1>2. query.limit \in Nat
  BY LimitsAreNumbers
<1> HIDE DEF wide, out
<1>3. /\ DOMAIN wide = 1..Len(list)
      /\ \A i \in DOMAIN wide : wide[i] \in Scored /\ wide[i].memory.id \in M
  BY <1>1, RankedAreTold
<1>4. ASSUME NEW i \in DOMAIN out
      PROVE  /\ out[i] \in Scored /\ out[i].memory.id \in M
             /\ \E j \in DOMAIN list : out[i] = list[j]
  <2>1. i \in DOMAIN wide /\ out[i] = wide[i]
    BY <1>1
  <2>2. \E j \in DOMAIN list : wide[i] = list[j]
    BY <1>1, <2>1 DEF Widens
  <2> QED BY <1>3, <2>1, <2>2
<1>5. ASSUME NEW i \in DOMAIN out, NEW j \in DOMAIN out, out[i].memory.id = out[j].memory.id
      PROVE  i = j
  BY <1>1, <1>5 DEF IsRanking
<1>6. ASSUME Len(list) <= query.limit \/ Len(out) < query.limit, NEW id \in M
      PROVE  \E i \in DOMAIN out : out[i].memory.id = id
  <2>1. DOMAIN out = DOMAIN wide
    BY <1>1, <1>2, <1>3, <1>6 DEF Least2
  <2>2. PICK i \in DOMAIN wide : wide[i].memory.id = id
    BY <1>1 DEF IsRanking
  <2> QED BY <1>1, <2>1, <2>2
<1> QED BY <1>4, <1>5, <1>6 DEF out
-----------------------------------------------------------------------------
(* The invariant.                                                           *)

RankedIds == {ranked[i].memory.id : i \in DOMAIN ranked}

\* The list that the answer is cut from.
Basis == IF trace.kind = "applied" THEN ApplyRerank(ranker, ranked, judged) ELSE ranked

\* What was gone when the recall began is still gone.
GoneStays ==
  /\ gone \subseteq Memories /\ (stage = "idle" => gone = {})
  /\ \A m \in gone : row[m] = "gone" \/ (~ query.superseded /\ ~ IsActive(m))

\* Nothing is ranked, judged or answered before its time.
NothingBefore ==
  /\ stage \in {"idle", "legs", "fetch"} => ranked = <<>>
  /\ ~ Answered => results = <<>> /\ judged = <<>> /\ trace = NoTrace

\* What the filters of the query say of a memory, whoever supersedes it.
Filtered(m) ==
  /\ query.categories = {} \/ About[m].category \in query.categories
  /\ query.subcategories = {} \/ About[m].subcategory \in query.subcategories
  /\ query.tags \subseteq About[m].tags
  /\ About[m].created >= query.since

RankedIsRanking ==
  /\ IsRanking(ranked, RankedIds)
  /\ RankedIds \cap gone = {} /\ \A m \in RankedIds : Filtered(m)
  /\ \A i \in DOMAIN ranked : Unjudged(ranked[i])

JudgedIsLeg ==
  /\ IsLeg(judged, RankedIds)
  /\ stage = "judge" => mode # "off" /\ Len(TopOf(ranked)) >= 2

AnswerStands == Answered => results = Served(Basis)

TraceStands ==
  Answered =>
    /\ trace.kind = None <=> mode = "off"
    /\ trace.kind = "applied" => mode = "on" /\ trace.judged = Len(judged)
    /\ trace.kind = "shadow" =>
         (trace.changed <=>
            \E i \in 1..trace.judged : opinion[ranked[i].memory.id] > opinion[ranked[1].memory.id])
    /\ trace.kind \in {"deadline", "busy", "model"} => trace.candidates >= 2
    /\ trace.kind = "not_needed" => trace.candidates < 2 \/ Depth < 2

UntrackedLeavesNothing == ~ query.tracked => touched = {}

RecallInv ==
  /\ TypeOK /\ GoneStays /\ NothingBefore /\ RankedIsRanking /\ JudgedIsLeg
  /\ AnswerStands /\ TraceStands /\ UntrackedLeavesNothing

\* Nothing, ranked and judged.
LEMMA EmptyRanking ==
  /\ IsRanking(<<>>, {}) /\ \A M : IsLeg(<<>>, M)
<1>1. <<>> \in Seq(Scored) /\ <<>> \in Seq(Judgements) /\ DOMAIN <<>> = {}
  OBVIOUS
<1> QED BY <1>1 DEF IsRanking, IsLeg

\* Of nothing, nothing is served.
LEMMA NothingServed ==
  ASSUME query \in Queries, slots \in SlotCounts, hop \in Seq(Memories)
  PROVE  Served(<<>>) = <<>>
<1>1. /\ Served(<<>>) \in Seq(Scored) /\ Len(Served(<<>>)) = Least2(query.limit, Len(<<>>))
      /\ DOMAIN Served(<<>>) = 1..Least2(query.limit, Len(<<>>))
  BY EmptyRanking, ServedIsPrefix
<1>2. Least2(query.limit, Len(<<>>)) = 0
  BY LimitsAreNumbers DEF Least2
<1> HIDE DEF Served
<1> QED BY <1>1, <1>2

\* A ranking is of the memories it names.
LEMMA RankingHasIts ==
  ASSUME NEW M, NEW list, IsRanking(list, M)
  PROVE  M = {list[i].memory.id : i \in DOMAIN list}
BY DEF IsRanking

\* The second stage is given the head of the list; with less than two there,
\* there were less than two in all, or no more were asked for.
LEMMA TopIsCounted ==
  ASSUME query \in Queries, NEW list \in Seq(Scored)
  PROVE  /\ Len(TopOf(list)) \in Nat /\ Len(TopOf(list)) <= Len(list) /\ Len(list) \in Nat
         /\ Len(TopOf(list)) < 2 => Len(list) < 2 \/ Depth < 2
<1>1. Depth \in Nat /\ CandidateDepth \in Nat /\ CandidateDepth >= 40
  BY RecallAssumption, CandidateDepthIsNumber
<1>2. Least2(Depth, CandidateDepth) \in Nat
  BY <1>1 DEF Least2
<1>3. Len(TopOf(list)) = Least2(Least2(Depth, CandidateDepth), Len(list)) /\ Len(list) \in Nat
  BY <1>2, CutIsPrefix DEF TopOf
<1> QED BY <1>1, <1>3 DEF Least2

\* Nothing is ranked or answered yet, and nothing gone.
THEOREM InitRecallInv == Init => RecallInv
<1> SUFFICES ASSUME Init PROVE RecallInv
  OBVIOUS
<1>1. TypeOK
  <2>1. PICK forgotten \in {{}, Memories} :
          /\ row = [m \in Memories |-> IF m \in forgotten THEN "gone" ELSE "active"]
          /\ invector = Memories \ forgotten /\ intext = {m \in invector : Weight[m] > 0}
    BY DEF Init
  <2>2. row \in [Memories -> {"active", "superseded", "gone"}]
    BY <2>1
  <2>3. {invector, intext, touched, gone} \subseteq SUBSET Memories
    BY <2>1 DEF Init
  <2>4. forgetting \in [Memories -> {None, "vector", "text"}]
    BY DEF Init
  <2>5. query \in Queries /\ slots \in SlotCounts
    BY DEF Init
  <2>6. Len(results) <= query.limit
    BY <2>5, LimitsAreNumbers DEF Init
  <2>7. 0 \in 0..MaxFaults
    BY RecallAssumption
  <2> QED BY <2>2, <2>3, <2>4, <2>6, <2>7 DEF TypeOK, Init, NoTrace
<1>2. RankedIds = {}
  BY DEF Init, RankedIds
<1> QED BY <1>1, <1>2, EmptyRanking
        DEF RecallInv, Init, GoneStays, IsActive, NothingBefore, RankedIsRanking, Filtered, JudgedIsLeg, AnswerStands,
            TraceStands, UntrackedLeavesNothing, Answered

\* What no step of the store touches.
AnsweringStays ==
  UNCHANGED <<picked, stage, legs, ranked, judged, trace, results, gone>>

\* What no step of the store touches stays as it was.
LEMMA AnsweringKept ==
  ASSUME RecallInv, AnsweringStays, touched' = touched
  PROVE  /\ NothingBefore' /\ RankedIsRanking' /\ JudgedIsLeg' /\ AnswerStands' /\ TraceStands'
         /\ UntrackedLeavesNothing'
<1> USE DEF AnsweringStays, picked, legs, RecallInv
<1>1. NothingBefore' /\ TraceStands' /\ UntrackedLeavesNothing'
  BY DEF NothingBefore, TraceStands, UntrackedLeavesNothing, Answered
<1>2. RankedIsRanking'
  BY DEF RankedIsRanking, RankedIds, Filtered
<1>3. JudgedIsLeg'
  BY DEF JudgedIsLeg, RankedIds, TopOf, CandidateDepth
<1>4. AnswerStands'
  BY DEF AnswerStands, Answered, Served, Basis
<1> QED BY <1>1, <1>2, <1>3, <1>4

\* Superseding and forgetting beside the recall: what was gone stays gone.
LEMMA StoreKeepsInv ==
  ASSUME RecallInv, NEW m \in Changing, Supersede(m) \/ Forget(m) \/ ForgetEntries(m)
  PROVE  RecallInv'
<1>1. AnsweringStays /\ touched' = touched
  BY DEF Supersede, Forget, ForgetEntries, AnsweringStays
<1>2. TypeOK /\ GoneStays
  BY DEF RecallInv
<1>3. CASE Supersede(m)
  <2>1. TypeOK'
    BY <1>2, <1>3 DEF TypeOK, Supersede, picked, legs
  <2>2. GoneStays'
    BY <1>2, <1>3 DEF TypeOK, GoneStays, IsActive, Supersede, picked
  <2> QED BY <1>1, <2>1, <2>2, AnsweringKept DEF RecallInv
<1>4. CASE Forget(m)
  <2>1. TypeOK'
    BY <1>2, <1>4 DEF TypeOK, Forget, picked, legs
  <2>2. GoneStays'
    BY <1>2, <1>4 DEF TypeOK, GoneStays, IsActive, Forget, picked
  <2> QED BY <1>1, <2>1, <2>2, AnsweringKept DEF RecallInv
<1>5. CASE ForgetEntries(m)
  <2>1. /\ invector' \in SUBSET Memories /\ intext' \in SUBSET Memories
        /\ forgetting' \in [Memories -> {None, "vector", "text"}] /\ faults' \in 0..MaxFaults
    <3>1. MaxFaults \in Nat
      BY RecallAssumption
    <3> QED BY <1>2, <1>5, <3>1 DEF TypeOK, ForgetEntries, Fault
  <2>2. TypeOK'
    BY <1>2, <1>5, <2>1 DEF TypeOK, ForgetEntries, picked, legs
  <2>3. GoneStays'
    BY <1>2, <1>5 DEF GoneStays, IsActive, ForgetEntries, picked
  <2> QED BY <1>1, <2>2, <2>3, AnsweringKept DEF RecallInv
<1> QED BY <1>3, <1>4, <1>5

\* Steps fail no more often than the bound.
LEMMA FaultIsCounted ==
  ASSUME TypeOK, Fault \/ UNCHANGED faults PROVE faults' \in 0..MaxFaults
<1>1. MaxFaults \in Nat
  BY RecallAssumption
<1> QED BY <1>1 DEF TypeOK, Fault

\* The vectors are searched, or the recall fails.
LEMMA VectorLegKeepsInv ==
  ASSUME RecallInv, VectorLeg PROVE RecallInv'
<1>1. TypeOK /\ NothingBefore /\ UntrackedLeavesNothing
  BY DEF RecallInv
<1>2. stage = "idle" /\ stage' \in {"legs", "failed"}
  BY DEF VectorLeg
<1>3. /\ ranked = <<>> /\ judged = <<>> /\ results = <<>> /\ trace = NoTrace
      /\ ranked' = <<>> /\ judged' = <<>> /\ results' = <<>> /\ trace' = NoTrace
  BY <1>1, <1>2 DEF NothingBefore, Answered, VectorLeg
<1>4. vector' \in Seq(Memories)
  <2>1. query \in Queries /\ invector \in SUBSET Memories /\ vector \in Seq(Memories)
    BY <1>1 DEF TypeOK
  <2>2. \A m \in Memories : Similarity[m] \in Int
    BY RecallAssumption
  <2>3. Nearest(invector, Similarity) \in Seq(Memories)
    BY <2>1, <2>2, NearestIsLeg
  <2> QED BY <2>1, <2>3 DEF VectorLeg
<1>5. gone' \in SUBSET Memories
  BY DEF VectorLeg
<1>6. TypeOK'
  <2>1. faults' \in 0..MaxFaults
    BY <1>1, FaultIsCounted DEF VectorLeg
  <2> QED BY <1>1, <1>2, <1>3, <1>4, <1>5, <2>1 DEF TypeOK, VectorLeg, store, picked
<1>7. GoneStays'
  BY <1>2, <1>5 DEF GoneStays, IsActive, VectorLeg, store, picked
<1>8. RankedIds' = {}
  BY <1>3 DEF RankedIds
<1>9. RankedIsRanking' /\ JudgedIsLeg'
  BY <1>2, <1>3, <1>8, EmptyRanking DEF RankedIsRanking, Filtered, JudgedIsLeg
<1>10. NothingBefore' /\ AnswerStands' /\ TraceStands' /\ UntrackedLeavesNothing'
  BY <1>1, <1>2, <1>3 DEF NothingBefore, AnswerStands, TraceStands, UntrackedLeavesNothing, Answered,
                          VectorLeg, store, picked
<1> QED BY <1>6, <1>7, <1>9, <1>10 DEF RecallInv

\* The other two legs, either of which may fail.
LEMMA OtherLegsKeepInv ==
  ASSUME RecallInv, OtherLegs PROVE RecallInv'
<1>1. TypeOK /\ NothingBefore /\ UntrackedLeavesNothing /\ GoneStays
  BY DEF RecallInv
<1>2. stage = "legs" /\ stage' = "fetch"
  BY DEF OtherLegs
<1>3. /\ ranked = <<>> /\ judged = <<>> /\ results = <<>> /\ trace = NoTrace
      /\ ranked' = <<>> /\ judged' = <<>> /\ results' = <<>> /\ trace' = NoTrace
  BY <1>1, <1>2 DEF NothingBefore, Answered, OtherLegs
<1>4. keyword' \in Seq(Memories) /\ hop' \in Seq(Memories)
  <2>1. query \in Queries /\ intext \in SUBSET Memories /\ keyword \in Seq(Memories) /\ hop \in Seq(Memories)
    BY <1>1 DEF TypeOK
  <2>2. \A m \in Memories : Weight[m] \in Int
    BY RecallAssumption
  <2>3. Nearest(intext, Weight) \in Seq(Memories)
    BY <2>1, <2>2, NearestIsLeg
  <2> QED BY <2>1, <2>3, HopIsLeg DEF OtherLegs
<1>5. TypeOK'
  <2>1. faults' \in 0..MaxFaults
    BY <1>1, FaultIsCounted DEF OtherLegs
  <2> QED BY <1>1, <1>2, <1>3, <1>4, <2>1 DEF TypeOK, OtherLegs, store, picked
<1>6. GoneStays'
  BY <1>1, <1>2 DEF GoneStays, IsActive, OtherLegs, store, picked
<1>7. RankedIds' = {}
  BY <1>3 DEF RankedIds
<1>8. RankedIsRanking' /\ JudgedIsLeg'
  BY <1>2, <1>3, <1>7, EmptyRanking DEF RankedIsRanking, Filtered, JudgedIsLeg
<1>9. NothingBefore' /\ AnswerStands' /\ TraceStands' /\ UntrackedLeavesNothing'
  BY <1>1, <1>2, <1>3 DEF NothingBefore, AnswerStands, TraceStands, UntrackedLeavesNothing, Answered,
                          OtherLegs, store, picked
<1> QED BY <1>5, <1>6, <1>8, <1>9 DEF RecallInv

\* There is nothing to rank.
LEMMA NothingFoundKeepsInv ==
  ASSUME RecallInv, NothingFound PROVE RecallInv'
<1>1. TypeOK /\ NothingBefore /\ UntrackedLeavesNothing /\ GoneStays
  BY DEF RecallInv
<1>2. stage = "fetch" /\ stage' = "done" /\ trace' = NotNeeded(0)
  BY DEF NothingFound
<1>3. /\ ranked = <<>> /\ judged = <<>> /\ results = <<>>
      /\ ranked' = <<>> /\ judged' = <<>> /\ results' = <<>>
  BY <1>1, <1>2 DEF NothingBefore, Answered, NothingFound
<1>4. /\ trace'.kind \in {None, "not_needed"} /\ (trace'.kind = None <=> mode = "off")
      /\ trace'.kind = "not_needed" => trace'.candidates = 0
  BY <1>2 DEF NotNeeded, NoTrace, None
<1>5. TypeOK'
  BY <1>1, <1>2, <1>3, <1>4 DEF TypeOK, NothingFound, store, picked, legs
<1>6. GoneStays'
  BY <1>1, <1>2 DEF GoneStays, IsActive, NothingFound, store, picked
<1>7. RankedIds' = {}
  BY <1>3 DEF RankedIds
<1>8. RankedIsRanking' /\ JudgedIsLeg'
  BY <1>2, <1>3, <1>7, EmptyRanking DEF RankedIsRanking, Filtered, JudgedIsLeg
<1>9. NothingBefore' /\ UntrackedLeavesNothing'
  BY <1>1, <1>2, <1>3 DEF NothingBefore, UntrackedLeavesNothing, Answered, NothingFound, store, picked
<1>10. TraceStands'
  BY <1>2, <1>4 DEF TraceStands, NothingFound, picked, None
<1>11. AnswerStands'
  <2>1. Served(<<>>) = <<>>
    BY <1>1, NothingServed DEF TypeOK
  <2>2. Basis' = <<>>
    BY <1>3, <1>4 DEF Basis, None
  <2>3. (query' = query /\ slots' = slots /\ hop' = hop)
    BY DEF NothingFound, picked, legs
  <2>4. Served(Basis)' = Served(<<>>)
    BY <2>2, <2>3 DEF Served
  <2> QED BY <1>3, <2>1, <2>4 DEF AnswerStands
<1> QED BY <1>5, <1>6, <1>8, <1>9, <1>10, <1>11 DEF RecallInv

\* Rows are read and ranked after whatever became of the store meanwhile.
LEMMA FetchKeepsInv ==
  ASSUME RecallInv, Fetch PROVE RecallInv'
<1>1. TypeOK /\ NothingBefore /\ UntrackedLeavesNothing /\ GoneStays
  BY DEF RecallInv
<1>2. /\ stage = "fetch" /\ judged = <<>> /\ judged' = <<>> /\ results = <<>> /\ trace = NoTrace
      /\ query' = query /\ slots' = slots /\ hop' = hop /\ mode' = mode
      /\ ranked = <<>>
  BY <1>1 DEF NothingBefore, Answered, Fetch, picked, legs
<1>3. query \in Queries /\ slots \in SlotCounts /\ hop \in Seq(Memories)
  BY <1>1 DEF TypeOK
<1>4. GoneStays'
  <2>1. stage' # "idle"
    BY DEF Fetch
  <2> QED BY <1>1, <2>1 DEF GoneStays, IsActive, Fetch, store, picked
<1>5. CASE Fault /\ stage' = "failed" /\ UNCHANGED <<ranked, trace, results>>
  <2>1. TypeOK'
    <3>1. faults' \in 0..MaxFaults
      BY <1>1, <1>5, FaultIsCounted
    <3> QED BY <1>1, <1>5, <3>1 DEF TypeOK, Fetch, store, picked, legs
  <2>2. RankedIds' = {}
    BY <1>2, <1>5 DEF RankedIds
  <2>3. RankedIsRanking' /\ JudgedIsLeg'
    BY <1>2, <1>5, <2>2, EmptyRanking DEF RankedIsRanking, Filtered, JudgedIsLeg
  <2>4. NothingBefore' /\ AnswerStands' /\ TraceStands' /\ UntrackedLeavesNothing'
    BY <1>1, <1>2, <1>5 DEF NothingBefore, AnswerStands, TraceStands, UntrackedLeavesNothing,
                            Answered, Fetch, store, picked
  <2> QED BY <1>4, <2>1, <2>3, <2>4 DEF RecallInv
<1>6. CASE ranked' = Fused /\ UNCHANGED faults
  <2>1. PICK M \in SUBSET {m \in Memories : row[m] # "gone" /\ Matches(m)} :
           IsRanking(Fused, M) /\ \A i \in DOMAIN Fused : Unjudged(Fused[i])
    BY <1>1, FusedRanks DEF TypeOK
  <2>2. IsRanking(ranked', M) /\ \A i \in DOMAIN ranked' : Unjudged(ranked'[i])
    BY <1>6, <2>1
  <2>3. RankedIds' = M
    <3>1. M = {ranked'[i].memory.id : i \in DOMAIN ranked'}
      BY <2>2, RankingHasIts
    <3> QED BY <3>1 DEF RankedIds
  <2>4. M \cap gone' = {}
    <3>1. gone' = gone
      BY DEF Fetch
    <3>2. \A m \in M : row[m] # "gone" /\ (query.superseded \/ IsActive(m))
      BY <2>1 DEF Matches
    <3> QED BY <1>1, <3>1, <3>2 DEF GoneStays, IsActive
  <2>5. RankedIsRanking'
    <3>1. \A m \in M : Filtered(m)
      BY <2>1 DEF Matches, Filtered
    <3>2. \A m \in M : Filtered(m)'
      BY <3>1 DEF Filtered, Fetch, picked
    <3> QED BY <2>2, <2>3, <2>4, <3>2 DEF RankedIsRanking, Filtered
  <2>6. ranked' \in Seq(Scored)
    BY <2>2 DEF IsRanking
  <2>7. /\ Len(TopOf(ranked')) \in Nat /\ Len(ranked') \in Nat
        /\ Len(TopOf(ranked')) < 2 => Len(ranked') < 2 \/ Depth < 2
    BY <1>3, <2>6, TopIsCounted
  <2>8. CASE /\ mode # "off" /\ Len(TopOf(ranked')) >= 2
             /\ stage' = "judge" /\ UNCHANGED <<trace, results>>
    <3>1. TypeOK'
      BY <1>1, <1>6, <2>8 DEF TypeOK, Fetch, store, picked, legs
    <3>2. Len(TopOf(ranked)') >= 2
      BY <1>2, <2>8 DEF TopOf, CandidateDepth
    <3>3. JudgedIsLeg'
      BY <1>2, <2>8, <3>2, EmptyRanking DEF JudgedIsLeg
    <3>4. NothingBefore' /\ AnswerStands' /\ TraceStands' /\ UntrackedLeavesNothing'
      BY <1>1, <1>2, <2>8 DEF NothingBefore, AnswerStands, TraceStands, UntrackedLeavesNothing,
                              Answered, Fetch, store, picked
    <3> QED BY <1>4, <2>5, <3>1, <3>3, <3>4 DEF RecallInv
  <2>9. CASE /\ ~ (mode # "off" /\ Len(TopOf(ranked')) >= 2)
             /\ stage' = "touch" /\ trace' = NotNeeded(Len(ranked')) /\ results' = Served(ranked')
    <3>1. /\ trace'.kind \in {None, "not_needed"} /\ (trace'.kind = None <=> mode = "off")
          /\ trace'.kind = "not_needed" => trace'.candidates = Len(ranked')
      BY <2>9 DEF NotNeeded, NoTrace, None
    <3>2. Len(results') <= query'.limit
      <4>1. Len(Served(ranked')) = Least2(query.limit, Len(ranked'))
        BY <1>3, <2>2, ServedIsPrefix
      <4> QED BY <1>2, <1>3, <2>7, <2>9, <4>1, LimitsAreNumbers DEF Least2
    <3>3. TypeOK'
      BY <1>1, <1>6, <2>9, <3>1, <3>2 DEF TypeOK, Fetch, store, picked, legs
    <3>4. JudgedIsLeg'
      BY <1>2, <2>9, EmptyRanking DEF JudgedIsLeg
    <3>5. AnswerStands'
      <4>1. Basis' = ranked'
        BY <3>1 DEF Basis, None
      <4>2. Served(Basis)' = Served(ranked')
        BY <1>2, <4>1 DEF Served
      <4> QED BY <2>9, <4>2 DEF AnswerStands
    <3>6. TraceStands'
      <4>1. trace'.kind = "not_needed" => trace'.candidates < 2 \/ Depth < 2
        BY <2>7, <2>9, <3>1 DEF None
      <4> QED BY <1>2, <3>1, <4>1 DEF TraceStands, None
    <3>7. NothingBefore' /\ UntrackedLeavesNothing'
      BY <1>1, <2>9 DEF NothingBefore, UntrackedLeavesNothing, Answered, Fetch, store, picked
    <3> QED BY <1>4, <2>5, <3>3, <3>4, <3>5, <3>6, <3>7 DEF RecallInv
  <2> QED BY <1>6, <2>8, <2>9, <1>5 DEF Fetch
<1> QED BY <1>5, <1>6 DEF Fetch

\* The access counts, which an untracked recall leaves alone.
LEMMA TouchKeepsInv ==
  ASSUME RecallInv, Touch PROVE RecallInv'
<1>1. TypeOK /\ NothingBefore /\ UntrackedLeavesNothing /\ GoneStays
      /\ RankedIsRanking /\ JudgedIsLeg /\ AnswerStands /\ TraceStands
  BY DEF RecallInv
<1>2. /\ stage = "touch" /\ stage' = "done" /\ Answered
      /\ UNCHANGED <<row, invector, intext, forgetting, picked, legs, ranked, judged, trace,
                     results, faults, gone>>
  BY DEF Touch, Answered
<1>3. touched' \in SUBSET Memories /\ (~ query.tracked => touched' = touched)
  BY <1>1 DEF Touch, TypeOK
<1>4. TypeOK'
  BY <1>1, <1>2, <1>3 DEF TypeOK, picked, legs
<1>5. GoneStays' /\ NothingBefore' /\ UntrackedLeavesNothing'
  BY <1>1, <1>2, <1>3 DEF GoneStays, IsActive, NothingBefore, UntrackedLeavesNothing, Answered, picked
<1>6. RankedIsRanking'
  <2>1. ranked' = ranked /\ gone' = gone /\ query' = query /\ RankedIds' = RankedIds
    BY <1>2 DEF picked, RankedIds
  <2> QED BY <1>1, <2>1 DEF RankedIsRanking, Filtered
<1>7. JudgedIsLeg'
  BY <1>1, <1>2 DEF JudgedIsLeg, RankedIds
<1>8. AnswerStands'
  BY <1>1, <1>2 DEF AnswerStands, Served, Basis, picked, legs
<1>9. TraceStands'
  BY <1>1, <1>2 DEF TraceStands, picked
<1> QED BY <1>4, <1>5, <1>6, <1>7, <1>8, <1>9 DEF RecallInv

\* However the second stage ends, and whatever part of the head it judged, the
\* answer is cut from the list that the trace tells of (MemoryRecaller,
\* rerank_leg).
LEMMA RerankKeepsInv ==
  ASSUME RecallInv, Rerank PROVE RecallInv'
<1>1. TypeOK /\ NothingBefore /\ UntrackedLeavesNothing /\ GoneStays
      /\ RankedIsRanking /\ JudgedIsLeg
  BY DEF RecallInv
<1>2. /\ stage = "judge" /\ stage' = "touch" /\ mode # "off" /\ Len(TopOf(ranked)) >= 2
      /\ UNCHANGED <<store, picked, legs, ranked, faults, gone>>
  BY <1>1 DEF Rerank, JudgedIsLeg
<1>3. /\ query \in Queries /\ slots \in SlotCounts /\ hop \in Seq(Memories)
      /\ ranker \in RankerType /\ opinion \in [Memories -> 1..100] /\ mode \in {"shadow", "on"}
      /\ query' = query /\ slots' = slots /\ hop' = hop /\ ranker' = ranker /\ mode' = mode
      /\ opinion' = opinion
  BY <1>1, <1>2, RecallAssumption DEF TypeOK, picked, legs
<1>4. IsRanking(ranked, RankedIds) /\ \A i \in DOMAIN ranked : Unjudged(ranked[i])
  BY <1>1 DEF RankedIsRanking
<1>5. /\ Len(TopOf(ranked)) \in Nat /\ Len(TopOf(ranked)) <= Len(ranked) /\ Len(ranked) \in Nat
  <2>1. ranked \in Seq(Scored)
    BY <1>4 DEF IsRanking
  <2> QED BY <1>3, <2>1, TopIsCounted
<1>6. PICK n \in 0..Len(TopOf(ranked)), why \in {None, "deadline", "busy", "model"} :
       /\ why = None <=> n = Len(TopOf(ranked))
       /\ judged' = IF why = "model" THEN <<>> ELSE BestFirst(Opining(ranked, opinion, n))
       /\ trace' = TraceOf(Verdict(mode, n, why), judged')
       /\ results' = Served(IF trace'.kind = "applied" THEN ApplyRerank(ranker, ranked, judged')
                            ELSE ranked)
  BY DEF Rerank, Opining
<1>7. n \in 0..Len(ranked)
  BY <1>5
<1> DEFINE leg == BestFirst(Opining(ranked, opinion, n))
<1>8. /\ IsLeg(leg, RankedIds) /\ Len(leg) = n
      /\ n > 0 => (leg[1][1] # ranked[1].memory.id
                     <=> \E i \in 1..n : opinion[ranked[i].memory.id] > opinion[ranked[1].memory.id])
  BY <1>3, <1>4, <1>7, BestFirstIsLeg
<1> HIDE DEF leg
<1>9. judged' = IF why = "model" THEN <<>> ELSE leg
  BY <1>6 DEF leg
<1>10. RankedIds' = RankedIds
  BY <1>2 DEF RankedIds
<1>11. IsLeg(judged', RankedIds)
  BY <1>8, <1>9, EmptyRanking
<1>12. JudgedIsLeg'
  BY <1>2, <1>10, <1>11 DEF JudgedIsLeg
<1>13. RankedIsRanking'
  BY <1>1, <1>2, <1>3, <1>10 DEF RankedIsRanking, Filtered
<1>14. AnswerStands'
  BY <1>2, <1>3, <1>6 DEF AnswerStands, Basis, Served
<1>15. TraceStands' /\ trace'.kind \in {"deadline", "busy", "model", "shadow", "applied"}
  <2> DEFINE kind == Verdict(mode, n, why)
  <2>1. CASE why = "model" \/ (why # None /\ n < 2)
    <3>1. kind = why /\ why \in {"deadline", "busy", "model"}
      BY <1>6, <2>1 DEF Verdict, None
    <3> HIDE DEF kind
    <3>2. trace' = [NoTrace EXCEPT !.kind = why, !.candidates = Len(TopOf(ranked))]
      BY <1>6, <3>1 DEF TraceOf, kind
    <3>3. trace'.kind = why /\ trace'.candidates = Len(TopOf(ranked))
      BY <3>2 DEF NoTrace
    <3> QED BY <1>2, <1>3, <3>1, <3>3 DEF TraceStands, None
  <2>2. CASE ~ (why = "model" \/ (why # None /\ n < 2)) /\ mode = "shadow"
    <3>1. kind = "shadow"
      BY <2>2 DEF Verdict, None
    <3>2. n >= 2 /\ n \in Nat /\ judged' = leg
      BY <1>2, <1>5, <1>6, <1>9, <2>2
    <3> HIDE DEF kind
    <3>3. trace' = [NoTrace EXCEPT !.kind = "shadow", !.judged = Len(judged'),
                                   !.changed = ShadowChanged(judged')]
      BY <1>6, <3>1 DEF TraceOf, kind
    <3>4. /\ trace'.kind = "shadow" /\ trace'.judged = Len(judged')
          /\ trace'.changed = ShadowChanged(judged')
      BY <3>3 DEF NoTrace
    <3>5. ShadowChanged(judged')
            <=> \E i \in 1..n : opinion[ranked[i].memory.id] > opinion[ranked[1].memory.id]
      BY <1>8, <3>2 DEF ShadowChanged
    <3>6. trace'.judged = n
      BY <1>8, <3>2, <3>4
    <3>7. trace'.changed <=> \E i \in 1..trace'.judged :
                               opinion'[ranked'[i].memory.id] > opinion'[ranked'[1].memory.id]
      BY <1>2, <1>3, <3>4, <3>5, <3>6
    <3> QED BY <1>2, <1>3, <3>4, <3>7 DEF TraceStands, None
  <2>3. CASE ~ (why = "model" \/ (why # None /\ n < 2)) /\ mode # "shadow"
    <3>1. kind = "applied" /\ mode = "on"
      BY <1>3, <2>3 DEF Verdict, None
    <3> HIDE DEF kind
    <3>2. trace' = [NoTrace EXCEPT !.kind = "applied", !.judged = Len(judged')]
      BY <1>6, <3>1 DEF TraceOf, kind
    <3>3. trace'.kind = "applied" /\ trace'.judged = Len(judged')
      BY <3>2 DEF NoTrace
    <3> QED BY <1>3, <3>1, <3>3 DEF TraceStands, None
  <2> QED BY <2>1, <2>2, <2>3
<1>16. Len(results') <= query'.limit
  <2> DEFINE basis == IF trace'.kind = "applied" THEN ApplyRerank(ranker, ranked, judged') ELSE ranked
  <2>1. IsRanking(basis, RankedIds)
    BY <1>3, <1>4, <1>11, ApplyRerankRanks
  <2>2. results' = Served(basis)
    BY <1>6
  <2> HIDE DEF basis
  <2>3. Len(Served(basis)) = Least2(query.limit, Len(basis)) /\ Len(basis) \in Nat
    BY <1>3, <2>1, ServedIsPrefix
  <2> QED BY <1>3, <2>2, <2>3, LimitsAreNumbers DEF Least2
<1>17. TypeOK'
  BY <1>1, <1>2, <1>15, <1>16 DEF TypeOK, store, picked, legs
<1>18. GoneStays' /\ NothingBefore' /\ UntrackedLeavesNothing'
  BY <1>1, <1>2 DEF GoneStays, IsActive, NothingBefore, UntrackedLeavesNothing, Answered, store, picked
<1> QED BY <1>12, <1>13, <1>14, <1>15, <1>17, <1>18 DEF RecallInv

\* Every step of a recall, and of the store beside it, keeps the invariant.
THEOREM StepKeepsRecallInv == RecallInv /\ [Next]_vars => RecallInv'
<1> SUFFICES ASSUME RecallInv, [Next]_vars PROVE RecallInv'
  OBVIOUS
<1>1. CASE VectorLeg
  BY <1>1, VectorLegKeepsInv
<1>2. CASE OtherLegs
  BY <1>2, OtherLegsKeepInv
<1>3. CASE Fetch
  BY <1>3, FetchKeepsInv
<1>4. CASE NothingFound
  BY <1>4, NothingFoundKeepsInv
<1>5. CASE Rerank
  BY <1>5, RerankKeepsInv
<1>6. CASE Touch
  BY <1>6, TouchKeepsInv
<1>7. CASE \E m \in Changing : Supersede(m) \/ Forget(m) \/ ForgetEntries(m)
  BY <1>7, StoreKeepsInv
<1>8. CASE UNCHANGED vars
  <2>1. AnsweringStays /\ touched' = touched
    BY <1>8 DEF vars, store, AnsweringStays
  <2>2. TypeOK' /\ GoneStays'
    BY <1>8 DEF RecallInv, TypeOK, GoneStays, IsActive, vars, store, picked, legs
  <2> QED BY <2>1, <2>2, AnsweringKept DEF RecallInv
<1> QED BY <1>1, <1>2, <1>3, <1>4, <1>5, <1>6, <1>7, <1>8 DEF Next

\* The invariant holds of every recall, for any memories, legs, graph, ranker
\* settings, opinions and number of faults.
THEOREM RecallInvHolds == Spec => []RecallInv
BY InitRecallInv, StepKeepsRecallInv, PTL DEF Spec
-----------------------------------------------------------------------------
(* What the invariant says of the answer.                                   *)

\* Legs are lists of memories and an answer is never longer than was asked for
\* (MemoryRecaller, execute_with).
THEOREM RecallTyped == Spec => []TypeOK
BY RecallInvHolds, PTL DEF RecallInv

\* The list that an answer is cut from ranks the memories that were fetched.
LEMMA BasisIsRanking ==
  ASSUME RecallInv
  PROVE  /\ query \in Queries /\ slots \in SlotCounts /\ hop \in Seq(Memories)
         /\ IsRanking(Basis, RankedIds) /\ IsRanking(ranked, RankedIds)
         /\ trace.kind # "applied" => \A i \in DOMAIN Basis : Unjudged(Basis[i])
         /\ trace.kind = "applied" => /\ BearsOpinions(Basis, judged)
                                      /\ ranker.strategy = "replace" =>
                                           ByTheirWord(Basis) /\ KeepsTheRest(Basis, ranked)
<1>1. /\ query \in Queries /\ slots \in SlotCounts /\ hop \in Seq(Memories) /\ ranker \in RankerType
  BY RecallAssumption DEF RecallInv, TypeOK
<1>2. /\ IsRanking(ranked, RankedIds) /\ \A i \in DOMAIN ranked : Unjudged(ranked[i])
      /\ IsLeg(judged, RankedIds)
  BY DEF RecallInv, RankedIsRanking, JudgedIsLeg
<1> DEFINE reranked == ApplyRerank(ranker, ranked, judged)
<1>3. /\ IsRanking(reranked, RankedIds) /\ BearsOpinions(reranked, judged)
      /\ ranker.strategy = "replace" => ByTheirWord(reranked) /\ KeepsTheRest(reranked, ranked)
  BY <1>1, <1>2, ApplyRerankRanks
<1> HIDE DEF reranked
<1>4. Basis = IF trace.kind = "applied" THEN reranked ELSE ranked
  BY DEF Basis, reranked
<1> QED BY <1>1, <1>2, <1>3, <1>4

\* Nothing that was gone is served, and nothing twice.
LEMMA NothingGoneServed == RecallInv => NothingGoneIsServed
<1> SUFFICES ASSUME RecallInv PROVE NothingGoneIsServed
  OBVIOUS
<1>1. CASE ~ Answered
  <2>1. results = <<>>
    BY <1>1 DEF RecallInv, NothingBefore
  <2> QED BY <2>1 DEF NothingGoneIsServed
<1>2. CASE Answered
  <2>1. /\ results = Served(Basis) /\ RankedIds \cap gone = {}
        /\ \A m \in RankedIds : Filtered(m)
    BY <1>2 DEF RecallInv, AnswerStands, RankedIsRanking
  <2>2. /\ \A i \in DOMAIN Served(Basis) :
             Served(Basis)[i] \in Scored /\ Served(Basis)[i].memory.id \in RankedIds
        /\ \A i, j \in DOMAIN Served(Basis) :
             Served(Basis)[i].memory.id = Served(Basis)[j].memory.id => i = j
    BY BasisIsRanking, ServedIsFull
  <2>3. ASSUME NEW i \in DOMAIN results
        PROVE  LET m == results[i].memory
               IN /\ m.id \notin gone
                  /\ query.categories # {} => m.category \in query.categories
                  /\ query.subcategories # {} => m.subcategory \in query.subcategories
                  /\ query.tags \subseteq m.tags /\ query.since <= m.created
                  /\ \A j \in DOMAIN results : m = results[j].memory => i = j
    <3> DEFINE m == results[i].memory
    <3>1. m \in Told /\ m.id \in RankedIds
      BY <2>1, <2>2 DEF Scored
    <3>2. PICK k \in Memories : m = About[k]
      BY <3>1 DEF Told
    <3>3. About[k].id = k /\ About[k].created \in Nat
      BY LegsSayNumbers
    <3>4. Filtered(m.id) /\ m = About[m.id]
      BY <2>1, <3>1, <3>2, <3>3
    <3>5. \A j \in DOMAIN results : m = results[j].memory => i = j
      BY <2>1, <2>2
    <3> HIDE DEF m
    <3>6. /\ query.categories # {} => m.category \in query.categories
          /\ query.subcategories # {} => m.subcategory \in query.subcategories
          /\ query.tags \subseteq m.tags /\ m.created >= query.since
      BY <3>4 DEF Filtered
    <3>7. m.id \notin gone
      BY <2>1, <3>1
    <3>8. m.created \in Nat /\ query.since \in Nat
      BY <3>2, <3>3, RecallAssumption DEF RecallInv, TypeOK
    <3>9. query.since <= m.created
      BY <3>6, <3>8
    <3> QED BY <3>5, <3>6, <3>7, <3>9 DEF m
  <2> QED BY <2>3 DEF NothingGoneIsServed
<1> QED BY <1>1, <1>2

\* What was forgotten, superseded or expired when a recall began is never in
\* its answer, in whatever order rows and index entries go and whatever fails
\* (MemoryForgetter, MemoryRecaller), nor is what a filter keeps out; and
\* nothing is there twice.
THEOREM RecallServesNothingGone == Spec => []NothingGoneIsServed
BY RecallInvHolds, NothingGoneServed, PTL

\* An answer with room left has every memory that was ranked.
LEMMA NothingWithheld == RecallInv => NothingIsWithheld
<1> SUFFICES ASSUME RecallInv, Answered, Len(results) < query.limit
             PROVE  Range(IdsOf(ranked)) \subseteq Range(IdsOf(results))
  BY DEF NothingIsWithheld
<1>1. results = Served(Basis)
  BY DEF RecallInv, AnswerStands
<1>2. \A id \in RankedIds : \E i \in DOMAIN results : results[i].memory.id = id
  <2>1. Len(Basis) <= query.limit \/ Len(Served(Basis)) < query.limit =>
           \A id \in RankedIds : \E i \in DOMAIN Served(Basis) : Served(Basis)[i].memory.id = id
    BY BasisIsRanking, ServedIsFull
  <2> QED BY <1>1, <2>1
<1>3. Range(IdsOf(ranked)) = RankedIds
  BY DEF Range, IdsOf, RankedIds
<1>4. \A i \in DOMAIN results : results[i].memory.id \in Range(IdsOf(results))
  BY DEF Range, IdsOf
<1> QED BY <1>2, <1>3, <1>4

\* Nothing that was ranked is missing from an answer that is not full, with or
\* without a second stage and reserved places (MemoryRecaller, execute_with).
THEOREM RecallWithholdsNothing == Spec => []NothingIsWithheld
BY RecallInvHolds, NothingWithheld, PTL

\* Of two scores in one band, the one whose share is no smaller is no smaller.
LEMMA SharesKeepOrder ==
  ASSUME NEW x \in Int, NEW y \in Int, NEW b \in Nat, b >= 100,
         (x * b) \div 100 >= (y * b) \div 100
  PROVE  x >= y
<1> SUFFICES ASSUME x < y PROVE FALSE
  OBVIOUS
<1>1. y * b >= x * b + b
  <2>1. y >= x + 1
    OBVIOUS
  <2> QED BY <2>1, SMTT(30)
<1> DEFINE p == x * b
           q == y * b
<1>2. p \in Int /\ q \in Int /\ q >= p + 100
  <2>1. p \in Int /\ q \in Int
    BY Products
  <2> QED BY <1>1, <2>1
<1> HIDE DEF p, q
<1>3. q \div 100 > p \div 100
  BY <1>2
<1> QED BY <1>2, <1>3 DEF p, q

\* Where the model's word replaces the ranking, it decides.
LEMMA JudgementHasItsWay == RecallInv /\ Answered => JudgementDecides
<1> SUFFICES ASSUME RecallInv, Answered, trace.kind = "applied", ranker.strategy = "replace", slots = 0,
                    NEW i \in DOMAIN results, NEW j \in DOMAIN results, i < j
             PROVE  /\ results[i].judged = 0 => results[j].judged = 0
                    /\ results[j].judged # 0 /\ Band(results[i].memory) = Band(results[j].memory)
                       => results[i].judged >= results[j].judged
                    /\ results[i].judged = 0 /\ results[j].judged = 0
                       => \E k, l \in DOMAIN ranked :
                            k < l /\ ranked[k] = results[i] /\ ranked[l] = results[j]
  BY DEF JudgementDecides
<1>1. results = Served(Basis)
  BY DEF RecallInv, AnswerStands
<1>2. i \in DOMAIN Basis /\ j \in DOMAIN Basis /\ results[i] = Basis[i] /\ results[j] = Basis[j]
  <2>1. /\ Wide(Basis) = Basis
        /\ \A k \in DOMAIN Served(Basis) :
             k \in DOMAIN Wide(Basis) /\ Served(Basis)[k] = Wide(Basis)[k]
    BY BasisIsRanking, ServedIsPrefix
  <2> QED BY <1>1, <2>1
<1>3. /\ Basis[i].judged = 0 => Basis[j].judged = 0
      /\ Basis[j].judged # 0 =>
           (Basis[i].judged * Band(Basis[i].memory)) \div 100 >=
           (Basis[j].judged * Band(Basis[j].memory)) \div 100
  BY <1>2, BasisIsRanking DEF ByTheirWord
<1>4. /\ Basis[i].judged \in Int /\ Basis[j].judged \in Int
      /\ Band(Basis[i].memory) \in Nat /\ Band(Basis[i].memory) >= 100
  BY <1>2, BasisIsRanking, RankedAreTold, BandIsWide
<1>5. ASSUME Basis[j].judged # 0, Band(Basis[i].memory) = Band(Basis[j].memory)
      PROVE  Basis[i].judged >= Basis[j].judged
  <2>1. (Basis[i].judged * Band(Basis[i].memory)) \div 100 >=
        (Basis[j].judged * Band(Basis[i].memory)) \div 100
    BY <1>3, <1>5
  <2> QED BY <1>4, <2>1, SharesKeepOrder
<1>6. Basis[i].judged = 0 /\ Basis[j].judged = 0
        => \E k, l \in DOMAIN ranked : k < l /\ ranked[k] = Basis[i] /\ ranked[l] = Basis[j]
  BY <1>2, BasisIsRanking DEF KeepsTheRest
<1> QED BY <1>2, <1>3, <1>5, <1>6

\* The reserved places keep the best first and the others' order.
LEMMA SlotsKeep == RecallInv => SlotsKeepTheBest
<1> SUFFICES ASSUME RecallInv, Answered PROVE SlotsKeepTheBest
  BY DEF SlotsKeepTheBest
<1> DEFINE list == Basis
           wide == Wide(Basis)
           limit == query.limit
<1>1. /\ IsRanking(list, RankedIds) /\ IsRanking(wide, RankedIds) /\ Widens(wide, list, hop)
      /\ Len(wide) = Len(list) /\ Shifts(wide, list, hop, limit, slots)
      /\ slots > 0 /\ limit > 1 /\ (\E i \in DOMAIN list : ~ Plain(list[i], hop))
         => HopWithin(wide, hop, limit)
  BY BasisIsRanking, ServedIsPrefix
<1>2. limit \in Nat /\ slots \in Nat
  BY BasisIsRanking, LimitsAreNumbers
<1>3. /\ list = IF trace.kind = "applied" THEN ApplyRerank(ranker, ranked, judged) ELSE ranked
      /\ wide = ApplyExpansion(list, hop, limit, slots)
  BY DEF Basis, Wide
<1> HIDE DEF list, wide, limit
<1>4. /\ DOMAIN list = 1..Len(list) /\ Len(list) \in Nat /\ DOMAIN wide = DOMAIN list
      /\ list \in Seq(Scored)
  BY <1>1, RankedAreTold DEF Widens, IsRanking
<1>5. list # <<>> => wide[1] = list[1]
  BY <1>1, <1>4 DEF Widens
<1>6. Range(wide) = Range(list)
  <2>1. /\ \A i \in DOMAIN list : \E j \in DOMAIN list : wide[i] = list[j]
        /\ \A j \in DOMAIN list : \E i \in DOMAIN list : wide[i] = list[j]
    BY <1>1 DEF Widens
  <2> QED BY <1>4, <2>1 DEF Range
<1>7. ASSUME NEW i \in DOMAIN list, NEW j \in DOMAIN list, i < j,
             Plain(list[i], hop), Plain(list[j], hop)
      PROVE  \E k, l \in DOMAIN wide : k < l /\ wide[k] = list[i] /\ wide[l] = list[j]
  <2>1. PICK k \in DOMAIN list : wide[k] = list[i]
    BY <1>1 DEF Widens
  <2>2. PICK l \in DOMAIN list : wide[l] = list[j]
    BY <1>1 DEF Widens
  <2>3. k < l
    BY <1>1, <1>7, <2>1, <2>2 DEF Widens
  <2> QED BY <1>4, <2>1, <2>2, <2>3
<1>8. ASSUME slots > 0, limit > 1, \E i \in DOMAIN list : ~ Plain(list[i], hop)
      PROVE  \E i \in 1..Least2(limit, Len(wide)) : ~ Plain(wide[i], hop)
  <2>1. PICK i \in DOMAIN wide : i <= limit /\ ~ Plain(wide[i], hop)
    BY <1>1, <1>8 DEF HopWithin
  <2>2. i \in 1..Least2(limit, Len(wide))
    BY <1>1, <1>2, <1>4, <2>1 DEF Least2
  <2> QED BY <2>1, <2>2
<1>9. ASSUME NEW i \in DOMAIN list, NEW k \in DOMAIN wide, wide[k] = list[i]
      PROVE  /\ k <= i + slots
             /\ k < i => ~ Plain(list[i], hop) /\ i + 2 * slots >= limit + 2
  BY <1>1, <1>4, <1>9 DEF Shifts
<1> QED BY <1>1, <1>3, <1>5, <1>6, <1>7, <1>8, <1>9 DEF SlotsKeepTheBest, Plain, limit

\* The order is what was promised.
LEMMA OrderIsPromised == RecallInv => OrderIsAsPromised
<1>1. ASSUME RecallInv, ~ Answered PROVE JudgementDecides
  <2>1. results = <<>>
    BY <1>1 DEF RecallInv, NothingBefore
  <2> QED BY <2>1 DEF JudgementDecides
<1> QED BY <1>1, JudgementHasItsWay, SlotsKeep DEF OrderIsAsPromised

\* The second stage decides the order where it has judged, partly or wholly,
\* and the reserved places move nothing but what they are for (RecallRanker,
\* apply_rerank, apply_expansion).
THEOREM RecallOrdersAsPromised == Spec => []OrderIsAsPromised
BY RecallInvHolds, OrderIsPromised, PTL

\* Two rankings of the same memories are as long.
LEMMA RankingsAreAsLong ==
  ASSUME NEW M, NEW list, NEW other, IsRanking(list, M), IsRanking(other, M)
  PROVE  Len(list) = Len(other)
<1>1. ASSUME NEW one, IsRanking(one, M)
      PROVE  Len(one) \in Nat /\ Cardinality(M) = Len(one)
  <2> DEFINE D == DOMAIN one
             id == [i \in D |-> one[i].memory.id]
  <2>1. Len(one) \in Nat /\ D = 1..Len(one)
    BY <1>1, RankedAreTold
  <2>2. /\ \A i \in D : one[i].memory.id \in M
        /\ \A i, j \in D : one[i].memory.id = one[j].memory.id => i = j
        /\ \A m \in M : \E i \in D : one[i].memory.id = m
    BY <1>1 DEF IsRanking
  <2>3. IsFiniteSet(D) /\ Cardinality(D) = Len(one)
    BY <2>1, PlacesAreFinite
  <2>4. id \in Surjection(D, M) /\ id \in Injection(D, M)
    <3>1. id \in [D -> M] /\ \A i \in D : id[i] = one[i].memory.id
      BY <2>2
    <3> HIDE DEF id, D
    <3>2. \A i, j \in D : id[i] = id[j] => i = j
      BY <2>2, <3>1
    <3>3. \A m \in M : \E i \in D : id[i] = m
      BY <2>2, <3>1
    <3> QED BY <3>1, <3>2, <3>3, Fun_IsInj, Fun_IsSurj
  <2> HIDE DEF id, D
  <2> QED BY <2>1, <2>3, <2>4, FS_Surjection
<1> QED BY <1>1

\* A client can count the scores that it sees.
LEMMA ScoredAreCounted ==
  ASSUME RecallInv, Answered, trace.kind = "applied"
  PROVE  LET scored == {i \in DOMAIN results : results[i].judged # 0}
         IN /\ Cardinality(scored) <= Len(judged)
            /\ Len(ranked) <= query.limit => Cardinality(scored) = Len(judged)
<1> DEFINE scored == {i \in DOMAIN results : results[i].judged # 0}
           D == DOMAIN judged
           at == [i \in scored |-> JudgedAt(judged, results[i].memory.id)]
<1>1. /\ IsLeg(judged, RankedIds) /\ judged \in Seq(Judgements)
      /\ \A i, j \in D : judged[i][1] = judged[j][1] => i = j
      /\ \A i \in D : judged[i][1] \in RankedIds
  BY DEF RecallInv, JudgedIsLeg, IsLeg
<1>2. Len(judged) \in Nat /\ D = 1..Len(judged) /\ IsFiniteSet(D) /\ Cardinality(D) = Len(judged)
  BY <1>1, PlacesAreFinite
<1>3. results = Served(Basis)
  BY DEF RecallInv, AnswerStands
<1>4. /\ \A i \in DOMAIN Served(Basis) : \E j \in DOMAIN Basis : Served(Basis)[i] = Basis[j]
      /\ \A i, j \in DOMAIN Served(Basis) :
           Served(Basis)[i].memory.id = Served(Basis)[j].memory.id => i = j
      /\ Len(Basis) <= query.limit \/ Len(Served(Basis)) < query.limit =>
           \A id \in RankedIds : \E i \in DOMAIN Served(Basis) : Served(Basis)[i].memory.id = id
  BY BasisIsRanking, ServedIsFull
<1>5. \A i \in DOMAIN results : results[i].judged = Opined(judged, results[i].memory.id)
  BY <1>3, <1>4, BasisIsRanking DEF BearsOpinions
<1>6. \A i, j \in DOMAIN results : results[i].memory.id = results[j].memory.id => i = j
  BY <1>3, <1>4
<1>7. \A id : /\ JudgedAt(judged, id) \in Nat
              /\ JudgedAt(judged, id) > 0 => /\ JudgedAt(judged, id) \in D
                                             /\ judged[JudgedAt(judged, id)][1] = id
                                             /\ Opined(judged, id) # 0
              /\ JudgedAt(judged, id) = 0 => /\ Opined(judged, id) = 0
                                             /\ \A i \in D : judged[i][1] # id
  BY <1>1, JudgedAtFinds, OpinedIsOpinion
<1>8. \A i \in scored : i \in DOMAIN results /\ JudgedAt(judged, results[i].memory.id) > 0
  BY <1>5, <1>7
<1>9. /\ at \in [scored -> D] /\ \A i \in scored : at[i] = JudgedAt(judged, results[i].memory.id)
  BY <1>7, <1>8
<1>10. at \in Injection(scored, D)
  <2>1. ASSUME NEW i \in scored, NEW j \in scored, at[i] = at[j] PROVE i = j
    <3>1. judged[at[i]][1] = results[i].memory.id /\ judged[at[j]][1] = results[j].memory.id
      BY <1>7, <1>8, <1>9
    <3> HIDE DEF at, scored
    <3> QED BY <1>6, <1>8, <2>1, <3>1
  <2> HIDE DEF at, scored, D
  <2> QED BY <1>9, <2>1, Fun_IsInj
<1>11. ASSUME Len(ranked) <= query.limit PROVE at \in Surjection(scored, D)
  <2>1. Len(Basis) <= query.limit
    <3>1. Len(Basis) = Len(ranked)
      BY BasisIsRanking, RankingsAreAsLong
    <3> QED BY <1>11, <3>1
  <2>2. ASSUME NEW k \in D PROVE \E i \in scored : at[i] = k
    <3>1. judged[k][1] \in RankedIds
      BY <1>1
    <3>2. PICK i \in DOMAIN results : results[i].memory.id = judged[k][1]
      BY <1>3, <1>4, <2>1, <3>1
    <3>3. JudgedAt(judged, results[i].memory.id) # 0
      BY <1>7, <3>2
    <3>4. JudgedAt(judged, results[i].memory.id) = k
      BY <1>1, <1>7, <3>2, <3>3
    <3>5. i \in scored
      BY <1>5, <1>7, <3>3
    <3> QED BY <1>9, <3>4, <3>5
  <2> HIDE DEF at, scored, D
  <2> QED BY <1>9, <2>2, Fun_IsSurj
<1> HIDE DEF at, scored, D
<1>12. Cardinality(scored) <= Cardinality(D) /\ (Cardinality(scored) = Cardinality(D) <=> at \in Surjection(scored, D))
  BY <1>2, <1>10, FS_Injection
<1> QED BY <1>2, <1>11, <1>12 DEF scored

\* The trace tells what the second stage did to this answer.
LEMMA TraceIsTrue == RecallInv => TraceTellsTheTruth
<1> SUFFICES ASSUME RecallInv, Answered PROVE TraceTellsTheTruth
  BY DEF TraceTellsTheTruth
<1> DEFINE sent == SearchResponse
           scored == {i \in DOMAIN sent.results : sent.results[i].judged # {}}
           seen == {i \in DOMAIN results : results[i].judged # 0}
           told == RerankResponse
<1>1. /\ trace.kind \in {None, "not_needed", "deadline", "busy", "model", "shadow", "applied"}
      /\ trace.kind = None <=> mode = "off"
      /\ trace.kind = "applied" => mode = "on" /\ trace.judged = Len(judged)
      /\ trace.kind = "shadow" =>
           (trace.changed <=>
              \E i \in 1..trace.judged : opinion[ranked[i].memory.id] > opinion[ranked[1].memory.id])
      /\ trace.kind \in {"deadline", "busy", "model"} => trace.candidates >= 2
      /\ trace.kind = "not_needed" => trace.candidates < 2 \/ Depth < 2
      /\ ~ query.tracked => touched = {}
  BY DEF RecallInv, TypeOK, TraceStands, UntrackedLeavesNothing
<1>2. /\ sent.rerank = told /\ DOMAIN sent.results = DOMAIN results
      /\ \A i \in DOMAIN results :
           /\ sent.results[i].judged = {results[i].judged} \ {0}
           /\ DOMAIN sent.results[i].matched = {l \in DOMAIN results[i].matched : results[i].matched[l] # 0}
  BY DEF SearchResponse, SearchHit
<1> HIDE DEF sent
<1>3. scored = seen
  BY <1>2
<1>4. /\ told = {} <=> trace.kind = None
      /\ (\E t \in told : t.state = "applied") <=> trace.kind = "applied"
      /\ \A t \in told :
           /\ t.state = "applied" => trace.kind = "applied" /\ t.judged = trace.judged
           /\ t.state = "shadow" => trace.kind = "shadow" /\ t.judged = trace.judged
                                    /\ t.changed = trace.changed
           /\ t.state = "skipped" => trace.kind \in {"deadline", "busy", "model"}
                                     /\ t.candidates = trace.candidates
           /\ t.state = "not_needed" => trace.kind = "not_needed" /\ t.candidates = trace.candidates
  <2>1. CASE trace.kind = None
    <3>1. told = {}
      BY <2>1 DEF RerankResponse, None
    <3> HIDE DEF told
    <3> QED BY <2>1, <3>1 DEF None
  <2>2. CASE trace.kind = "not_needed"
    <3> DEFINE r == [state |-> "not_needed", candidates |-> trace.candidates]
    <3>1. told = {r}
      BY <2>2 DEF RerankResponse, None
    <3>2. r.state = "not_needed" /\ r.candidates = trace.candidates
      OBVIOUS
    <3> HIDE DEF told, r
    <3> QED BY <2>2, <3>1, <3>2 DEF None
  <2>3. CASE trace.kind = "applied"
    <3> DEFINE r == [state |-> "applied", judged |-> trace.judged]
    <3>1. told = {r}
      BY <2>3 DEF RerankResponse, None
    <3>2. r.state = "applied" /\ r.judged = trace.judged
      OBVIOUS
    <3> HIDE DEF told, r
    <3> QED BY <2>3, <3>1, <3>2 DEF None
  <2>4. CASE trace.kind = "shadow"
    <3> DEFINE r == [state |-> "shadow", judged |-> trace.judged, changed |-> trace.changed]
    <3>1. told = {r}
      BY <2>4 DEF RerankResponse, None
    <3>2. r.state = "shadow" /\ r.judged = trace.judged /\ r.changed = trace.changed
      OBVIOUS
    <3> HIDE DEF told, r
    <3> QED BY <2>4, <3>1, <3>2 DEF None
  <2>5. CASE trace.kind \in {"deadline", "busy", "model"}
    <3> DEFINE r == [state |-> "skipped", candidates |-> trace.candidates,
                     reason |-> IF trace.kind = "model" THEN "model" ELSE "deadline"]
    <3>1. told = {r}
      BY <2>5 DEF RerankResponse, None
    <3>2. r.state = "skipped" /\ r.candidates = trace.candidates
      OBVIOUS
    <3> HIDE DEF told, r
    <3> QED BY <2>5, <3>1, <3>2 DEF None
  <2> QED BY <1>1, <2>1, <2>2, <2>3, <2>4, <2>5
<1>5. ASSUME trace.kind # "applied"
      PROVE  /\ results = Served(ranked) /\ seen = {}
             /\ \A i \in DOMAIN results : "rerank" \notin DOMAIN sent.results[i].matched
  <2>1. Basis = ranked /\ results = Served(Basis)
    BY <1>5 DEF Basis, RecallInv, AnswerStands
  <2>2. \A i \in DOMAIN Served(Basis) : \E j \in DOMAIN Basis : Served(Basis)[i] = Basis[j]
    BY BasisIsRanking, ServedIsFull
  <2>3. \A i \in DOMAIN results : results[i].judged = 0 /\ results[i].matched.rerank = 0
    BY <1>5, <2>1, <2>2, BasisIsRanking DEF Unjudged
  <2> QED BY <1>2, <2>1, <2>3
<1>6. ASSUME trace.kind = "applied"
      PROVE  /\ Cardinality(seen) <= Len(judged)
             /\ Len(ranked) <= query.limit => Cardinality(seen) = Len(judged)
  BY <1>6, ScoredAreCounted
<1> HIDE DEF scored, seen, told
<1>7. \A t \in told :
        /\ t.state = "applied" => Cardinality(scored) <= t.judged
        /\ t.state = "applied" /\ Len(ranked) <= query.limit => Cardinality(scored) = t.judged
        /\ t.state = "shadow" =>
             (t.changed <=> \E i \in 1..t.judged : opinion[ranked[i].memory.id] > opinion[ranked[1].memory.id])
        /\ t.state = "skipped" => t.candidates >= 2
        /\ t.state = "not_needed" => t.candidates < 2 \/ Depth < 2
  BY <1>1, <1>3, <1>4, <1>6
<1> QED BY <1>1, <1>2, <1>3, <1>4, <1>5, <1>7 DEF TraceTellsTheTruth, sent, scored

\* What a client is told of the second stage is so: applied, shadow, skipped or
\* not needed, with the scores that it can count, however the stage ended
\* (MemoryRecaller, rerank_leg; the search handler's RerankResponse).
THEOREM RecallTellsTheTruth == Spec => []TraceTellsTheTruth
BY RecallInvHolds, TraceIsTrue, PTL

\* The graph's leg is what the graph told, or empty.
HopStands == hop # <<>> => hop = Hop

\* The graph's leg is read once, or not at all.
LEMMA StepKeepsHop == HopStands /\ [Next]_vars => HopStands'
<1> SUFFICES ASSUME HopStands, [Next]_vars PROVE HopStands'
  OBVIOUS
<1>1. hop' = hop \/ hop' = Hop
  BY DEF Next, vars, legs, VectorLeg, OtherLegs, Fetch, NothingFound, Rerank, Touch, Supersede, Forget,
         ForgetEntries
<1> QED BY <1>1 DEF HopStands, Hop

\* The graph's leg, once it is read, measures by shortest paths.
LEMMA HopMeasures == HopStands => HopsAreShortestPaths
<1> SUFFICES ASSUME HopStands, hop # <<>>
             PROVE  HopsAreShortestPaths
  BY DEF HopsAreShortestPaths
<1>1. hop \in Nearby(HopSeeds)
  BY NeighboursAreNearest DEF HopStands, Hop, HopSeeds
<1> DEFINE W(n) == Within(HopSeeds, n)
<1>2. /\ \A n \in 1..MaxHops : Touched(HopSeeds, n) = W(n)
      /\ Touched(HopSeeds, MaxHops) = W(MaxHops)
  <2>1. MaxHops \in Nat
    BY RecallAssumption
  <2>2. CASE MaxHops = 0
    <3>1. Touched(HopSeeds, 0) = {} /\ W(0) = {}
      BY DEF Touched, Within
    <3> QED BY <2>2, <3>1
  <2>3. CASE MaxHops # 0
    <3>1. MaxHops \in 1..MaxHops
      BY <2>1, <2>3
    <3> QED BY <3>1, TouchedIsWithin
  <2> QED BY <2>2, <2>3
<1>3. /\ Range(hop) \subseteq Touched(HopSeeds, MaxHops)
      /\ Touched(HopSeeds, MaxHops) \subseteq Range(hop) \/ Len(hop) = HopLimit
  BY <1>1 DEF Nearby
<1>4. \A i \in DOMAIN hop, n \in 1..MaxHops :
        \/ hop[i] \in Touched(HopSeeds, n)
        \/ \A m \in Touched(HopSeeds, n) : \E j \in 1..i - 1 : hop[j] = m
  BY <1>1 DEF Nearby
<1>5. Range(hop) \subseteq W(MaxHops) /\ (Range(hop) = W(MaxHops) \/ Len(hop) = HopLimit)
  <2> HIDE DEF W
  <2> QED BY <1>2, <1>3
<1>6. \A i \in DOMAIN hop, n \in 1..MaxHops :
        hop[i] \in W(n) \/ \A m \in W(n) : \E j \in 1..i - 1 : hop[j] = m
  <2> TAKE i \in DOMAIN hop, n \in 1..MaxHops
  <2>1. Touched(HopSeeds, n) = W(n)
    BY <1>2
  <2> HIDE DEF W
  <2> QED BY <1>4, <2>1
<1> QED BY <1>5, <1>6 DEF HopsAreShortestPaths, HopSeeds

\* The hop is what a breadth-first search of the live edges would find, however
\* many hops it may take, and cut by nothing but the limit (SqliteEntityGraph,
\* neighbours; MemoryRecaller, graph_leg).
THEOREM RecallHopsShortestPaths == Spec => []HopsAreShortestPaths
<1>1. Init => HopStands
  BY DEF Init, HopStands
<1> QED BY <1>1, StepKeepsHop, HopMeasures, PTL DEF Spec
=============================================================================
