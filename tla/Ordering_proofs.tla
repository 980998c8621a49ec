--------------------------- MODULE Ordering_proofs ---------------------------
(* What Ordering's operators return, for sets and sequences of any size.   *)
EXTENDS Ordering, FiniteSetTheorems, WellFoundedInduction, TLAPS

-----------------------------------------------------------------------------
(* Natural numbers                                                         *)

Less == {ss \in Nat \X Nat : ss[1] < ss[2]}

LEMMA LessWellFounded == IsWellFoundedOn(Less, Nat)
  BY NatLessThanWellFounded DEF OpToRel, Less

\* A set of natural numbers that is not empty has a least element.
LEMMA LeastNat ==
  ASSUME NEW T, T \subseteq Nat, T # {}
  PROVE  \E x \in T : \A y \in T : x <= y
<1>1. PICK x \in T : \A y \in T : ~(<<y, x>> \in Less)
  BY LessWellFounded, WFMin, Zenon
<1>2. \A y \in T : ~(y < x)
  BY <1>1 DEF Less
<1> QED
  BY <1>2

-----------------------------------------------------------------------------
(* Ordered sets                                                            *)

StrictOrder(S, R) ==
  /\ \A x \in S : <<x, x>> \notin R
  /\ \A x, y \in S : x # y => <<x, y>> \in R \/ <<y, x>> \in R
  /\ \A x, y, z \in S : <<x, y>> \in R /\ <<y, z>> \in R => <<x, z>> \in R

\* Who comes later has more elements before it.
LEMMA LaterHasMore ==
  ASSUME NEW S, NEW R, IsFiniteSet(S), StrictOrder(S, R),
         NEW x \in S, NEW y \in S, <<x, y>> \in R
  PROVE  Cardinality(Earlier(S, R, x)) < Cardinality(Earlier(S, R, y))
<1> DEFINE X == Earlier(S, R, x)
           Y == Earlier(S, R, y)
<1>1. X \subseteq Y /\ x \in Y /\ x \notin X /\ Y \in SUBSET S
  BY DEF Earlier, StrictOrder
<1>2. IsFiniteSet(Y)
  BY <1>1, FS_Subset
<1> HIDE DEF X, Y
<1>3. /\ IsFiniteSet(X) /\ Cardinality(X) <= Cardinality(Y)
      /\ Cardinality(Y) = Cardinality(X) => Y = X
  BY <1>1, <1>2, FS_Subset
<1>4. Cardinality(X) \in Nat /\ Cardinality(Y) \in Nat
  BY <1>2, <1>3, FS_CardinalityType
<1>5. Cardinality(X) # Cardinality(Y)
  BY <1>1, <1>3
<1> QED BY <1>3, <1>4, <1>5 DEF X, Y

\* Each place from 0 is that of exactly one element.
LEMMA PlacesTaken ==
  ASSUME NEW S, NEW R, IsFiniteSet(S), StrictOrder(S, R)
  PROVE  /\ Cardinality(S) \in Nat
         /\ \A x \in S : Cardinality(Earlier(S, R, x)) \in 0 .. Cardinality(S) - 1
         /\ \A x, y \in S :
              Cardinality(Earlier(S, R, x)) = Cardinality(Earlier(S, R, y)) => x = y
         /\ \A k \in 0 .. Cardinality(S) - 1 :
              \E x \in S : Cardinality(Earlier(S, R, x)) = k
<1> DEFINE n == Cardinality(S)
           c == [x \in S |-> Cardinality(Earlier(S, R, x))]
<1>1. n \in Nat
  BY FS_CardinalityType
<1>2. ASSUME NEW x \in S
      PROVE  c[x] \in 0 .. n - 1
  <2> DEFINE X == Earlier(S, R, x)
  <2>1. X \in SUBSET S /\ x \notin X
    BY DEF Earlier, StrictOrder
  <2> HIDE DEF X
  <2>2. /\ IsFiniteSet(X) /\ Cardinality(X) <= n
        /\ Cardinality(S) = Cardinality(X) => S = X
    BY <2>1, FS_Subset
  <2>3. Cardinality(X) \in Nat
    BY <2>2, FS_CardinalityType
  <2>4. Cardinality(X) # n
    BY <2>1, <2>2
  <2>5. c[x] = Cardinality(X)
    BY DEF X
  <2> HIDE DEF c, n
  <2> QED BY <1>1, <2>2, <2>3, <2>4, <2>5
<1>3. ASSUME NEW x \in S, NEW y \in S, x # y
      PROVE  c[x] # c[y]
  <2>1. <<x, y>> \in R \/ <<y, x>> \in R
    BY <1>3 DEF StrictOrder
  <2>2. c[x] < c[y] \/ c[y] < c[x]
    BY <2>1, LaterHasMore
  <2>3. c[x] \in Nat /\ c[y] \in Nat
    BY <1>1, <1>2
  <2> HIDE DEF c
  <2> QED BY <2>2, <2>3
<1> HIDE DEF n, c
<1>4. c \in [S -> 0 .. n - 1]
  BY <1>2 DEF c
<1>5. c \in Injection(S, 0 .. n - 1)
  BY <1>3, <1>4 DEF Injection, IsInjective
<1>6. IsFiniteSet(0 .. n - 1) /\ Cardinality(0 .. n - 1) = n
  <2>1. 0 \in Int /\ n - 1 \in Int /\ (IF 0 > n - 1 THEN 0 ELSE n - 1 - 0 + 1) = n
    BY <1>1
  <2> QED BY <2>1, FS_Interval
<1>7. c \in Surjection(S, 0 .. n - 1)
  BY <1>5, <1>6, FS_Injection DEF n
<1>8. \A k \in 0 .. n - 1 : \E x \in S : c[x] = k
  BY <1>7 DEF Surjection
<1> QED
  BY <1>1, <1>2, <1>3, <1>8 DEF c, n

LEMMA OrderedIsListed ==
  ASSUME NEW S, NEW R
  PROVE  Ordered(S, R) = Listed(S, R)
<1>1. {Listed(T, Q) : T \in {S}, Q \in {R}} = {Listed(S, R)}
  OBVIOUS
<1> QED BY <1>1 DEF Ordered

\* Ordered(S, R) lists S: the k-th element has k - 1 before it, all occur, none
\* twice, and earlier ones first.
THEOREM OrderedLists ==
  ASSUME NEW S, NEW R, IsFiniteSet(S), StrictOrder(S, R)
  PROVE  LET o == Ordered(S, R)
             n == Cardinality(S)
         IN /\ n \in Nat /\ o \in [1 .. n -> S]
            /\ \A k \in 1 .. n : Cardinality(Earlier(S, R, o[k])) = k - 1
            /\ \A x \in S : \E k \in 1 .. n : o[k] = x
            /\ \A k, l \in 1 .. n : o[k] = o[l] => k = l
            /\ \A k, l \in 1 .. n : k < l => <<o[k], o[l]>> \in R
<1> DEFINE o == Ordered(S, R)
           n == Cardinality(S)
           C(x) == Cardinality(Earlier(S, R, x))
<1>1. n \in Nat
  BY PlacesTaken
<1>2. ASSUME NEW k \in 1 .. n
      PROVE  o[k] \in S /\ C(o[k]) = k - 1
  <2>1. k - 1 \in 0 .. n - 1
    BY <1>1
  <2>2. \E x \in S : C(x) = k - 1
    BY <2>1, PlacesTaken
  <2>3. o[k] = CHOOSE x \in S : C(x) = k - 1
    BY OrderedIsListed DEF Listed
  <2> HIDE DEF o, C
  <2> QED BY <2>2, <2>3
<1>3. o \in [1 .. n -> S]
  BY <1>2, OrderedIsListed DEF Listed
<1>4. \A x \in S : C(x) \in 0 .. n - 1
  BY PlacesTaken
<1>5. \A x, y \in S : C(x) = C(y) => x = y
  BY PlacesTaken
<1>6. \A x, y \in S : <<x, y>> \in R => C(x) < C(y)
  BY LaterHasMore
<1>7. \A x, y \in S : x # y => <<x, y>> \in R \/ <<y, x>> \in R
  BY DEF StrictOrder
<1> HIDE DEF o, n, C
<1>8. ASSUME NEW x \in S
      PROVE  \E k \in 1 .. n : o[k] = x
  <2> DEFINE k == C(x) + 1
  <2>1. k \in 1 .. n /\ k - 1 = C(x)
    BY <1>1, <1>4
  <2> HIDE DEF k
  <2>2. o[k] \in S /\ C(o[k]) = k - 1
    BY <1>2, <2>1
  <2>3. o[k] = x
    BY <1>5, <2>1, <2>2
  <2> QED BY <2>1, <2>3
<1>9. \A k, l \in 1 .. n : o[k] = o[l] => k = l
  <2> SUFFICES ASSUME NEW k \in 1 .. n, NEW l \in 1 .. n, o[k] = o[l] PROVE k = l
    OBVIOUS
  <2>1. k - 1 = l - 1
    BY <1>2
  <2> QED BY <1>1, <2>1
<1>10. ASSUME NEW k \in 1 .. n, NEW l \in 1 .. n, k < l
       PROVE  <<o[k], o[l]>> \in R
  <2>1. /\ o[k] \in S /\ o[l] \in S /\ C(o[k]) = k - 1 /\ C(o[l]) = l - 1
    BY <1>2
  <2>2. o[k] # o[l]
    BY <1>1, <1>9, <1>10
  <2>3. CASE <<o[l], o[k]>> \in R
    <3>1. C(o[l]) < C(o[k])
      BY <1>6, <2>1, <2>3
    <3>2. l - 1 < k - 1
      BY <2>1, <3>1
    <3> QED BY <1>1, <1>10, <3>2
  <2> QED BY <1>7, <2>1, <2>2, <2>3
<1> QED
  BY <1>1, <1>2, <1>3, <1>8, <1>9, <1>10 DEF o, n, C

-----------------------------------------------------------------------------
(* Ascending positions and filters                                         *)

LEMMA AscendingOrder ==
  ASSUME NEW I, I \subseteq Int
  PROVE  StrictOrder(I, {p \in I \X I : p[1] < p[2]})
BY DEF StrictOrder

\* Ascending(I) lists a finite set of integers, the smaller ones first.
LEMMA AscendingLists ==
  ASSUME NEW I, I \subseteq Int, IsFiniteSet(I)
  PROVE  LET a == Ascending(I)
             n == Cardinality(I)
         IN /\ n \in Nat /\ a \in [1 .. n -> I]
            /\ \A x \in I : \E k \in 1 .. n : a[k] = x
            /\ \A k, l \in 1 .. n : a[k] = a[l] => k = l
            /\ \A k, l \in 1 .. n : k < l => a[k] < a[l]
<1> DEFINE R == {p \in I \X I : p[1] < p[2]}
           a == Ascending(I)
           n == Cardinality(I)
<1>1. StrictOrder(I, R)
  BY AscendingOrder
<1>2. \A x, y \in I : <<x, y>> \in R => x < y
  OBVIOUS
<1>e. a = Ordered(I, R)
  BY DEF Ascending
<1> HIDE DEF R, a
<1>3. /\ n \in Nat /\ a \in [1 .. n -> I]
      /\ \A x \in I : \E k \in 1 .. n : a[k] = x
      /\ \A k, l \in 1 .. n : a[k] = a[l] => k = l
      /\ \A k, l \in 1 .. n : k < l => <<a[k], a[l]>> \in R
  BY <1>1, <1>e, OrderedLists
<1> HIDE DEF n
<1>4. \A k, l \in 1 .. n : k < l => a[k] < a[l]
  BY <1>2, <1>3
<1> QED BY <1>3, <1>4 DEF a, n

\* All positions in ascending order: the positions themselves.
LEMMA AscendingAll ==
  ASSUME NEW n \in Nat
  PROVE  Ascending(1 .. n) = [k \in 1 .. n |-> k]
<1> DEFINE I == 1 .. n
           R == {p \in I \X I : p[1] < p[2]}
           a == Ascending(I)
<1>1. I \subseteq Int /\ IsFiniteSet(I) /\ Cardinality(I) = n
  <2>1. 1 \in Int /\ n \in Int /\ (IF 1 > n THEN 0 ELSE n - 1 + 1) = n
    OBVIOUS
  <2> QED BY <2>1, FS_Interval
<1>2. StrictOrder(I, R)
  BY <1>1, AscendingOrder
<1>3. ASSUME NEW k \in I
      PROVE  Cardinality(Earlier(I, R, k)) = k - 1
  <2>1. Earlier(I, R, k) = 1 .. k - 1
    BY DEF Earlier
  <2>2. 1 \in Int /\ k - 1 \in Int /\ (IF 1 > k - 1 THEN 0 ELSE k - 1 - 1 + 1) = k - 1
    OBVIOUS
  <2> QED BY <2>1, <2>2, FS_Interval
<1>4. a = Ordered(I, R)
  BY DEF Ascending
<1> HIDE DEF I, R, a
<1>5. /\ a \in [1 .. n -> I]
      /\ \A k \in 1 .. n : Cardinality(Earlier(I, R, a[k])) = k - 1
  BY <1>1, <1>2, <1>4, OrderedLists
<1>6. ASSUME NEW k \in 1 .. n
      PROVE  a[k] = k
  <2>1. a[k] \in 1 .. n /\ a[k] - 1 = k - 1
    BY <1>3, <1>5 DEF I
  <2> QED BY <2>1
<1> QED BY <1>5, <1>6 DEF a, I

\* Picked(s, I) has the elements of s at the positions I, in their order.
THEOREM PickedElements ==
  ASSUME NEW T, NEW s \in Seq(T), NEW I \in SUBSET (1 .. Len(s))
  PROVE  LET p == Picked(s, I)
             a == Ascending(I)
             n == Cardinality(I)
         IN /\ n \in Nat /\ n <= Len(s) /\ p \in Seq(T) /\ Len(p) = n
            /\ a \in [1 .. n -> I]
            /\ \A k \in 1 .. n : p[k] = s[a[k]]
            /\ \A i \in I : \E k \in 1 .. n : a[k] = i /\ p[k] = s[i]
            /\ \A k, l \in 1 .. n : a[k] = a[l] => k = l
            /\ \A k, l \in 1 .. n : k < l => a[k] < a[l]
<1> DEFINE p == Picked(s, I)
           a == Ascending(I)
           n == Cardinality(I)
<1>1. Len(s) \in Nat /\ 1 \in Int
  OBVIOUS
<1>2. IsFiniteSet(1 .. Len(s)) /\ Cardinality(1 .. Len(s)) = Len(s)
  <2>1. (IF 1 > Len(s) THEN 0 ELSE Len(s) - 1 + 1) = Len(s)
    BY <1>1
  <2> QED BY <1>1, <2>1, FS_Interval
<1>3. I \subseteq Int /\ IsFiniteSet(I) /\ n <= Len(s)
  <2>1. I \subseteq Int
    OBVIOUS
  <2>2. IsFiniteSet(I) /\ n <= Cardinality(1 .. Len(s))
    BY <1>2, FS_Subset
  <2> QED BY <1>2, <2>1, <2>2
<1>4. /\ n \in Nat /\ a \in [1 .. n -> I]
      /\ \A x \in I : \E k \in 1 .. n : a[k] = x
      /\ \A k, l \in 1 .. n : a[k] = a[l] => k = l
      /\ \A k, l \in 1 .. n : k < l => a[k] < a[l]
  BY <1>3, AscendingLists
<1>5. p = [k \in 1 .. n |-> s[a[k]]]
  BY DEF Picked
<1> HIDE DEF p, a, n
<1>6. ASSUME NEW k \in 1 .. n
      PROVE  s[a[k]] \in T
  <2>1. a[k] \in 1 .. Len(s)
    BY <1>4
  <2> QED BY <2>1
<1>7. p \in Seq(T) /\ Len(p) = n
  BY <1>4, <1>5, <1>6
<1> QED BY <1>3, <1>4, <1>5, <1>7 DEF p, a, n

\* The elements a filter returns.
LEMMA PickedKeeps ==
  ASSUME NEW T, NEW s \in Seq(T), NEW I \in SUBSET (1 .. Len(s))
  PROVE  /\ Picked(s, I) \in Seq(T) /\ Len(Picked(s, I)) <= Len(s)
         /\ \A i \in I : \E k \in 1 .. Len(Picked(s, I)) : Picked(s, I)[k] = s[i]
         /\ \A k \in 1 .. Len(Picked(s, I)) : \E i \in I : Picked(s, I)[k] = s[i]
<1> DEFINE p == Picked(s, I)
           a == Ascending(I)
           n == Cardinality(I)
<1>1. /\ n \in Nat /\ n <= Len(s) /\ p \in Seq(T) /\ Len(p) = n
      /\ a \in [1 .. n -> I]
      /\ \A k \in 1 .. n : p[k] = s[a[k]]
      /\ \A i \in I : \E k \in 1 .. n : a[k] = i /\ p[k] = s[i]
  BY PickedElements
<1> HIDE DEF p, a, n
<1>2. \A k \in 1 .. Len(p) : \E i \in I : p[k] = s[i]
  BY <1>1
<1> QED BY <1>1, <1>2 DEF p

\* A filter that lets everything through.
LEMMA PickedAll ==
  ASSUME NEW T, NEW s \in Seq(T)
  PROVE  Picked(s, 1 .. Len(s)) = s
<1>1. Len(s) \in Nat /\ 1 \in Int
  OBVIOUS
<1>2. Cardinality(1 .. Len(s)) = Len(s)
  <2>1. (IF 1 > Len(s) THEN 0 ELSE Len(s) - 1 + 1) = Len(s)
    BY <1>1
  <2> QED BY <1>1, <2>1, FS_Interval
<1>3. Picked(s, 1 .. Len(s)) = [k \in 1 .. Len(s) |-> s[k]]
  BY <1>1, <1>2, AscendingAll DEF Picked
<1> QED BY <1>3

\* A stable sort permutes the positions, lower keys first.
THEOREM StableOrderPermutes ==
  ASSUME NEW key, NEW n \in Nat, key \in [1 .. n -> Int]
  PROVE  LET o == StableOrder(key) IN
         /\ o \in [1 .. n -> 1 .. n]
         /\ \A i \in 1 .. n : \E k \in 1 .. n : o[k] = i
         /\ \A k, l \in 1 .. n : o[k] = o[l] => k = l
         /\ \A k, l \in 1 .. n : k < l => key[o[k]] <= key[o[l]]
<1> DEFINE I == 1 .. n
           R == {p \in I \X I : \/ key[p[1]] < key[p[2]]
                                \/ key[p[1]] = key[p[2]] /\ p[1] < p[2]}
           o == StableOrder(key)
<1>1. IsFiniteSet(I) /\ Cardinality(I) = n
  <2>1. 1 \in Int /\ n \in Int /\ (IF 1 > n THEN 0 ELSE n - 1 + 1) = n
    OBVIOUS
  <2> QED BY <2>1, FS_Interval
<1>2. Len(key) = n
  OBVIOUS
<1>3. StrictOrder(I, R)
  BY DEF StrictOrder
<1>4. o = Ordered(I, R)
  BY <1>2 DEF StableOrder
<1>5. \A x, y \in I : <<x, y>> \in R => key[x] <= key[y]
  OBVIOUS
<1> HIDE DEF I, R, o
<1>6. /\ o \in [1 .. Cardinality(I) -> I]
      /\ \A x \in I : \E k \in 1 .. Cardinality(I) : o[k] = x
      /\ \A k, l \in 1 .. Cardinality(I) : o[k] = o[l] => k = l
      /\ \A k, l \in 1 .. Cardinality(I) : k < l => <<o[k], o[l]>> \in R
  <2>1. /\ Ordered(I, R) \in [1 .. Cardinality(I) -> I]
        /\ \A x \in I : \E k \in 1 .. Cardinality(I) : Ordered(I, R)[k] = x
        /\ \A k, l \in 1 .. Cardinality(I) : Ordered(I, R)[k] = Ordered(I, R)[l] => k = l
        /\ \A k, l \in 1 .. Cardinality(I) :
             k < l => <<Ordered(I, R)[k], Ordered(I, R)[l]>> \in R
    BY <1>1, <1>3, OrderedLists, Zenon
  <2> QED BY <1>4, <2>1
<1>7. \A k, l \in 1 .. n : k < l => key[o[k]] <= key[o[l]]
  BY <1>1, <1>5, <1>6
<1> QED BY <1>1, <1>6, <1>7 DEF o, I
=============================================================================
