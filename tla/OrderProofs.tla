----------------------------- MODULE OrderProofs -----------------------------
(***************************************************************************)
(* Lemmas about SearchAfter: the order es_search asks for is a strict      *)
(* total order on documents with different ids, the cursor survives its    *)
(* trip through JSON when doubles hold it, and a page splits what was left *)
(* to read at the cursor it leaves behind.                                 *)
(***************************************************************************)
EXTENDS SearchAfter, LoopProofs

(* The caller's keys and, if need be, the tiebreaker: the order is not     *)
(* empty and has the `_id` among its keys.                                 *)
LEMMA OrderType ==
  /\ Order \in Seq(SortField)
  /\ Len(Order) \in Nat \ {0}
  /\ DOMAIN Order = 1..Len(Order)
  /\ Order[Len(Order)].field = "_id"
<1> DEFINE sort == ParseSortSpec(SortParts)
<1>1. sort \in Seq(SortField)
  BY SortAssumption
<1>2. IdTiebreaker \in SortField
  BY DEF IdTiebreaker, SortField
<1>3. Order = IF sort = <<>> \/ sort[Len(sort)].field # "_id"
              THEN Append(sort, IdTiebreaker) ELSE sort
  BY DEF Order, SortToDSL
<1> HIDE DEF sort
<1>4. CASE sort = <<>> \/ sort[Len(sort)].field # "_id"
  <2>1. Order = Append(sort, IdTiebreaker)
    BY <1>3, <1>4
  <2>2. Order \in Seq(SortField) /\ Len(Order) = Len(sort) + 1
        /\ Order[Len(sort) + 1] = IdTiebreaker
    BY <1>1, <1>2, <2>1
  <2> QED BY <1>1, <2>2 DEF IdTiebreaker
<1>5. CASE ~ (sort = <<>> \/ sort[Len(sort)].field # "_id")
  <2>1. Order = sort /\ sort # <<>>
    BY <1>3, <1>5
  <2> QED BY <1>1, <1>5, <2>1
<1> QED BY <1>4, <1>5

(* A sort array has an integer for every key.                              *)
LEMMA SortArrayType ==
  ASSUME NEW d \in Docs
  PROVE  /\ SortArray(d) \in [1..Len(Order) -> Int]
         /\ SortArray(d) # NoCursor
         /\ \A i \in 1..Len(Order) : SortArray(d)[i] = SortValue(d, Order[i])
<1>1. \A i \in 1..Len(Order) : Order[i] \in SortField
  BY OrderType
<1>2. \A i \in 1..Len(Order) : SortValue(d, Order[i]) \in Int
  <2> SUFFICES ASSUME NEW i \in 1..Len(Order) PROVE SortValue(d, Order[i]) \in Int
    OBVIOUS
  <2>1. CASE Order[i].field = "_id"
    BY <2>1, DocAssumption DEF SortValue
  <2>2. CASE Order[i].field # "_id"
    <3>1. Order[i].field \in Fields
      BY <1>1, <2>2 DEF SortField
    <3> QED BY <2>2, <3>1, DocAssumption DEF SortValue
  <2> QED BY <2>1, <2>2
<1>3. SortArray(d) = [i \in 1..Len(Order) |-> SortValue(d, Order[i])]
  BY OrderType DEF SortArray
<1>4. SortArray(d) # NoCursor
  <2>1. DOMAIN SortArray(d) = 1..Len(Order)
    BY <1>3
  <2>2. 1 \in DOMAIN SortArray(d)
    BY <2>1, OrderType
  <2>3. DOMAIN NoCursor = {}
    BY DEF NoCursor
  <2> QED BY <2>2, <2>3
<1> QED BY <1>2, <1>3, <1>4

(* Two sort arrays that differ, differ first at some key.                  *)
LEMMA FirstDifference ==
  ASSUME NEW a \in [1..Len(Order) -> Int], NEW b \in [1..Len(Order) -> Int], a # b
  PROVE  \E i \in 1..Len(Order) : a[i] # b[i] /\ \A j \in 1..(i - 1) : a[j] = b[j]
<1> DEFINE T == {i \in 1..Len(Order) : a[i] # b[i]}
<1>1. T # {}
  OBVIOUS
<1>2. PICK i \in T : \A j \in T : i <= j
  <2>1. T \in SUBSET (1..Len(Order)) /\ Len(Order) \in Nat
    BY OrderType
  <2> HIDE DEF T
  <2> QED BY <1>1, <2>1, FirstPosition
<1>3. \A j \in 1..(i - 1) : a[j] = b[j]
  <2> SUFFICES ASSUME NEW j \in 1..(i - 1), a[j] # b[j] PROVE FALSE
    OBVIOUS
  <2>1. i \in Nat /\ i <= Len(Order) /\ Len(Order) \in Nat
    BY OrderType
  <2>2. j \in T
    BY <2>1
  <2> QED BY <1>2, <2>1, <2>2
<1> QED BY <1>2, <1>3

(* The order is irreflexive, transitive and total on sort arrays.          *)
LEMMA PrecedesIrreflexive ==
  ASSUME NEW a \in [1..Len(Order) -> Int]
  PROVE  ~ Precedes(a, a)
BY OrderType DEF Precedes, KeyBefore

LEMMA PrecedesTransitive ==
  ASSUME NEW a \in [1..Len(Order) -> Int], NEW b \in [1..Len(Order) -> Int],
         NEW c \in [1..Len(Order) -> Int], Precedes(a, b), Precedes(b, c)
  PROVE  Precedes(a, c)
<1>1. PICK i \in 1..Len(Order) :
        KeyBefore(Order[i], a[i], b[i]) /\ \A j \in 1..(i - 1) : a[j] = b[j]
  BY OrderType DEF Precedes
<1>2. PICK k \in 1..Len(Order) :
        KeyBefore(Order[k], b[k], c[k]) /\ \A j \in 1..(k - 1) : b[j] = c[j]
  BY OrderType DEF Precedes
<1> DEFINE m == IF i <= k THEN i ELSE k
<1>3. Len(Order) \in Nat /\ m \in 1..Len(Order)
  BY OrderType
<1>4. \A j \in 1..(m - 1) : a[j] = c[j]
  BY <1>1, <1>2, <1>3
<1>5. KeyBefore(Order[m], a[m], c[m])
  <2>1. CASE i < k
    <3>1. m = i /\ b[i] = c[i]
      BY <1>2, <1>3, <2>1
    <3> QED BY <1>1, <3>1
  <2>2. CASE k < i
    <3>1. m = k /\ a[k] = b[k]
      BY <1>1, <1>3, <2>2
    <3> QED BY <1>2, <3>1
  <2>3. CASE i = k
    BY <1>1, <1>2, <2>3 DEF KeyBefore
  <2> QED BY <2>1, <2>2, <2>3
<1> HIDE DEF m
<1> QED BY <1>3, <1>4, <1>5, OrderType DEF Precedes

LEMMA PrecedesTotal ==
  ASSUME NEW a \in [1..Len(Order) -> Int], NEW b \in [1..Len(Order) -> Int], a # b
  PROVE  Precedes(a, b) \/ Precedes(b, a)
<1>1. PICK i \in 1..Len(Order) : a[i] # b[i] /\ \A j \in 1..(i - 1) : a[j] = b[j]
  BY FirstDifference
<1>2. KeyBefore(Order[i], a[i], b[i]) \/ KeyBefore(Order[i], b[i], a[i])
  BY <1>1 DEF KeyBefore
<1> QED BY <1>1, <1>2, OrderType DEF Precedes

(* Documents with different ids have different sort arrays: the last key,  *)
(* or an earlier one, is the `_id`.                                        *)
LEMMA SortArrayInjective ==
  ASSUME NEW d \in Docs, NEW e \in Docs, SortArray(d) = SortArray(e)
  PROVE  Id[d] = Id[e]
<1>1. Len(Order) \in 1..Len(Order) /\ Order[Len(Order)].field = "_id"
  BY OrderType
<1>2. SortValue(d, Order[Len(Order)]) = SortValue(e, Order[Len(Order)])
  BY <1>1, SortArrayType
<1> QED BY <1>1, <1>2 DEF SortValue

(* A cursor whose numbers a double holds goes back as it came.             *)
LEMMA CursorSurvives ==
  ASSUME NEW d \in Docs,
         \A f \in Fields : Exact(Val[d][f])
  PROVE  SearchAfterOf(SortArray(d)) = SortArray(d)
<1>1. SortArray(d) \in [1..Len(Order) -> Int]
  BY SortArrayType
<1>2. ASSUME NEW i \in 1..Len(Order), Order[i].field # "_id"
      PROVE  Float64(SortArray(d)[i]) = SortArray(d)[i]
  <2>1. Order[i].field \in Fields
    <3>1. Order[i] \in SortField
      BY OrderType
    <3> QED BY <1>2, <3>1 DEF SortField
  <2>2. SortArray(d)[i] = Val[d][Order[i].field]
    BY <1>2, SortArrayType DEF SortValue
  <2> QED BY <2>1, <2>2 DEF Float64
<1>3. SearchAfterOf(SortArray(d))
        = [i \in 1..Len(Order) |-> IF Order[i].field = "_id" THEN SortArray(d)[i]
                                   ELSE Float64(SortArray(d)[i])]
  BY <1>1 DEF SearchAfterOf
<1>4. SearchAfterOf(SortArray(d)) = [i \in 1..Len(Order) |-> SortArray(d)[i]]
  BY <1>2, <1>3
<1> QED BY <1>1, <1>4

-----------------------------------------------------------------------------
(* A page splits what was left to read: after it, resuming at its last hit *)
(* finds exactly what was left without the page.                           *)
LEMMA PageSplits ==
  ASSUME NEW snap \in SUBSET Docs,
         \A d, e \in snap : Id[d] = Id[e] => d = e,
         ExactSortValues,
         NEW cursor \in {NoCursor} \cup {SortArray(d) : d \in Docs},
         NEW hits, NEW size, IsPage(hits, After(snap, cursor), size),
         NEW last, IsLast(last, hits)
  PROVE  After(snap, SortArray(last)) = After(snap, cursor) \ hits
<1> DEFINE left == After(snap, cursor)
<1>1. left \subseteq snap /\ hits \subseteq left /\ last \in hits
  BY DEF After, IsPage, IsLast
<1>2. last \in Docs /\ last \in snap
  BY <1>1
<1>3. After(snap, SortArray(last)) = {d \in snap : Precedes(SortArray(last), SortArray(d))}
  BY <1>2, SortArrayType, CursorSurvives DEF After, ExactSortValues
<1>4. ASSUME NEW d \in snap, Precedes(SortArray(last), SortArray(d))
      PROVE  d \in left /\ d \notin hits
  <2>1. d \notin hits
    BY <1>4 DEF IsLast
  <2>2. CASE cursor = NoCursor
    BY <2>1, <2>2 DEF After
  <2>3. CASE cursor # NoCursor
    <3>1. PICK c \in Docs : cursor = SortArray(c)
      BY <2>3
    <3>2. left = {e \in snap : Precedes(SortArray(c), SortArray(e))}
      BY <2>3, <3>1, CursorSurvives DEF After, ExactSortValues
    <3>3. Precedes(SortArray(c), SortArray(last))
      BY <1>1, <3>2
    <3>4. Precedes(SortArray(c), SortArray(d))
      BY <1>2, <1>4, <3>3, SortArrayType, PrecedesTransitive
    <3> QED BY <2>1, <3>2, <3>4
  <2> QED BY <2>2, <2>3
<1>5. ASSUME NEW d \in left, d \notin hits
      PROVE  Precedes(SortArray(last), SortArray(d))
  <2>1. d \in snap /\ d \in Docs
    BY <1>1
  <2>2. ~ Precedes(SortArray(d), SortArray(last))
    BY <1>1, <1>5 DEF IsPage
  <2>3. SortArray(d) # SortArray(last)
    BY <1>1, <1>2, <1>5, <2>1, SortArrayInjective
  <2> QED BY <1>2, <2>1, <2>2, <2>3, SortArrayType, PrecedesTotal
<1> QED BY <1>1, <1>3, <1>4, <1>5

(* A page with fewer hits than were asked for holds all that was left.     *)
LEMMA ShortPageIsAll ==
  ASSUME NEW matches \in SUBSET Docs, NEW hits, NEW size \in Int,
         IsPage(hits, matches, size), Cardinality(hits) < size
  PROVE  hits = matches
<1>1. IsFiniteSet(matches)
  BY DocAssumption, FS_Subset
<1>2. hits \in SUBSET matches
  BY DEF IsPage
<1>3. Cardinality(hits) = Cardinality(matches)
  <2>1. Cardinality(hits) \in Nat /\ Cardinality(matches) \in Nat
    BY <1>1, <1>2, FS_Subset, FS_CardinalityType
  <2> QED BY <2>1 DEF IsPage
<1> QED BY <1>1, <1>2, <1>3, FS_Subset
=============================================================================
