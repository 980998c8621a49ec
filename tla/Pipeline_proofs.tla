--------------------------- MODULE Pipeline_proofs ---------------------------
(***************************************************************************)
(* Proofs about Pipeline, for every set of queries, names, aliases, zones  *)
(* and configurations: first what the balance stage does to an answer,     *)
(* then the invariant of the names, then that of the records.              *)
(***************************************************************************)
EXTENDS Pipeline, Ordering_proofs

-----------------------------------------------------------------------------
(* Balance: moving the records of a family                                 *)

\* order rearranges 1 .. n.
Permutes(order, n) ==
  /\ order \in [1 .. n -> 1 .. n]
  /\ \A i \in 1 .. n : \E k \in 1 .. n : order[k] = i
  /\ \A k, l \in 1 .. n : order[k] = order[l] => k = l

\* The slots of a family, in ascending order.
Slots(slots, s, family) ==
  /\ Len(slots) \in Nat /\ slots \in [1 .. Len(slots) -> 1 .. Len(s)]
  /\ \A i \in 1 .. Len(s) :
       s[i].type = family <=> \E k \in 1 .. Len(slots) : slots[k] = i
  /\ \A k, l \in 1 .. Len(slots) : slots[k] = slots[l] => k = l
  /\ \A k, l \in 1 .. Len(slots) : k < l => slots[k] < slots[l]

\* The records of s are records of t, none of them twice.
Injects(s, t) ==
  \E p \in [1 .. Len(s) -> 1 .. Len(t)] :
    /\ \A i \in 1 .. Len(s) : s[i] = t[p[i]]
    /\ \A i, j \in 1 .. Len(s) : p[i] = p[j] => i = j

LEMMA InjectsTwice ==
  ASSUME NEW s, NEW x, NEW y, Injects(x, s), Injects(y, x)
  PROVE  Injects(y, s)
<1> DEFINE n == Len(s)
           m == Len(x)
           l == Len(y)
<1>1. PICK p \in [1 .. m -> 1 .. n] :
        /\ \A i \in 1 .. m : x[i] = s[p[i]]
        /\ \A i, j \in 1 .. m : p[i] = p[j] => i = j
  BY DEF Injects
<1>2. PICK r \in [1 .. l -> 1 .. m] :
        /\ \A i \in 1 .. l : y[i] = x[r[i]]
        /\ \A i, j \in 1 .. l : r[i] = r[j] => i = j
  BY DEF Injects
<1> HIDE DEF n, m, l
<1> DEFINE o == [i \in 1 .. l |-> p[r[i]]]
<1>3. /\ o \in [1 .. l -> 1 .. n]
      /\ \A i \in 1 .. l : y[i] = s[o[i]]
      /\ \A i, j \in 1 .. l : o[i] = o[j] => i = j
  BY <1>1, <1>2
<1> HIDE DEF o
<1> QED BY <1>3 DEF Injects, n, l

\* A sequence whose elements stand elsewhere as they do here.
LEMMA PrefixInjects ==
  ASSUME NEW s, NEW t, Len(s) \in Nat, Len(t) \in Nat, Len(s) <= Len(t),
         \A i \in 1 .. Len(s) : s[i] = t[i]
  PROVE  Injects(s, t)
<1> DEFINE p == [i \in 1 .. Len(s) |-> i]
<1>1. /\ p \in [1 .. Len(s) -> 1 .. Len(t)]
      /\ \A i \in 1 .. Len(s) : s[i] = t[p[i]]
      /\ \A i, j \in 1 .. Len(s) : p[i] = p[j] => i = j
  OBVIOUS
<1> HIDE DEF p
<1> QED BY <1>1 DEF Injects

\* x has the records of s, each type in the same places.
Reordered(x, s) ==
  /\ x \in Seq(Records) /\ Len(x) = Len(s)
  /\ \A i \in 1 .. Len(s) : x[i].type = s[i].type
  /\ \A i \in 1 .. Len(s) : \E j \in 1 .. Len(s) : x[j] = s[i]
  /\ Injects(x, s)

LEMMA ReorderedSelf ==
  ASSUME NEW s \in Seq(Records)
  PROVE  Reordered(s, s)
BY PrefixInjects DEF Reordered

LEMMA ReorderedTwice ==
  ASSUME NEW s, NEW x, NEW y, Reordered(x, s), Reordered(y, x)
  PROVE  Reordered(y, s)
<1> DEFINE n == Len(s)
<1>1. /\ Len(x) = n /\ y \in Seq(Records) /\ Len(y) = n
      /\ \A i \in 1 .. n : x[i].type = s[i].type /\ y[i].type = x[i].type
      /\ \A i \in 1 .. n : \E j \in 1 .. n : x[j] = s[i]
      /\ \A i \in 1 .. n : \E j \in 1 .. n : y[j] = x[i]
  BY DEF Reordered
<1>2. Injects(y, s)
  BY InjectsTwice DEF Reordered
<1> HIDE DEF n
<1>3. \A i \in 1 .. n : y[i].type = s[i].type
  BY <1>1
<1>4. \A i \in 1 .. n : \E j \in 1 .. n : y[j] = s[i]
  BY <1>1
<1> QED BY <1>1, <1>2, <1>3, <1>4 DEF Reordered, n

LEMMA CollectedSlots ==
  ASSUME NEW s \in Seq(Records), NEW family
  PROVE  Slots(collect_family(s, family), s, family)
<1> DEFINE I == {i \in 1 .. Len(s) : s[i].type = family}
           a == Ascending(I)
           n == Cardinality(I)
<1>1. Len(s) \in Nat
  OBVIOUS
<1>2. IsFiniteSet(I) /\ I \subseteq Int
  <2>1. IsFiniteSet(1 .. Len(s))
    BY <1>1, FS_Interval
  <2> QED BY <1>1, <2>1, FS_Subset
<1>3. /\ n \in Nat /\ a \in [1 .. n -> I]
      /\ \A x \in I : \E k \in 1 .. n : a[k] = x
      /\ \A k, l \in 1 .. n : a[k] = a[l] => k = l
      /\ \A k, l \in 1 .. n : k < l => a[k] < a[l]
  BY <1>2, AscendingLists
<1>4. collect_family(s, family) = a
  BY DEF collect_family
<1> HIDE DEF a, n
<1>5. Len(a) = n
  BY <1>3
<1>6. a \in [1 .. n -> 1 .. Len(s)]
  BY <1>3
<1>7. \A i \in 1 .. Len(s) : s[i].type = family <=> \E k \in 1 .. n : a[k] = i
  BY <1>3
<1> QED BY <1>3, <1>4, <1>5, <1>6, <1>7 DEF Slots

\* permute_family moves the record of slot order[k] to slot k.
LEMMA PermutedFamily ==
  ASSUME NEW s \in Seq(Records), NEW family, NEW slots, Slots(slots, s, family),
         NEW order, Permutes(order, Len(slots))
  PROVE  LET x == permute_family(s, slots, order) IN
         /\ Reordered(x, s)
         /\ \A k \in 1 .. Len(slots) : x[slots[k]] = s[slots[order[k]]]
         /\ \A i \in 1 .. Len(s) : s[i].type # family => x[i] = s[i]
<1> DEFINE n == Len(slots)
           m == Len(s)
           x == permute_family(s, slots, order)
           At(i) == CHOOSE k \in 1 .. n : slots[k] = i
           p == [i \in 1 .. m |-> IF \E k \in 1 .. n : slots[k] = i
                                  THEN slots[order[At(i)]] ELSE i]
<1>1. n \in Nat /\ m \in Nat /\ \A i \in 1 .. m : s[i] \in Records
  BY DEF Slots
<1>2. /\ slots \in [1 .. n -> 1 .. m]
      /\ \A i \in 1 .. m : s[i].type = family <=> \E k \in 1 .. n : slots[k] = i
      /\ \A k, l \in 1 .. n : slots[k] = slots[l] => k = l
  BY DEF Slots
<1>3. /\ order \in [1 .. n -> 1 .. n]
      /\ \A i \in 1 .. n : \E k \in 1 .. n : order[k] = i
      /\ \A k, l \in 1 .. n : order[k] = order[l] => k = l
  BY DEF Permutes
<1>4. x = [i \in 1 .. m |-> IF \E k \in 1 .. n : slots[k] = i
                            THEN s[slots[order[At(i)]]] ELSE s[i]]
  BY DEF permute_family
<1> HIDE DEF n, m, x
<1>5. \A k \in 1 .. n : At(slots[k]) = k
  BY <1>2
<1> HIDE DEF At
<1>6. \A k \in 1 .. n : slots[k] \in 1 .. m /\ p[slots[k]] = slots[order[k]]
  BY <1>2, <1>5
<1>7. \A i \in 1 .. m : s[i].type # family => p[i] = i
  BY <1>2
<1>8. DOMAIN x = 1 .. m /\ \A i \in 1 .. m : x[i] = s[p[i]]
  BY <1>4
<1>9. p \in [1 .. m -> 1 .. m]
  <2>1. \A i \in 1 .. m : p[i] \in 1 .. m
    <3> SUFFICES ASSUME NEW i \in 1 .. m PROVE p[i] \in 1 .. m
      OBVIOUS
    <3>1. CASE s[i].type = family
      <4>1. PICK k \in 1 .. n : slots[k] = i
        BY <1>2, <3>1
      <4> HIDE DEF p
      <4> QED BY <1>2, <1>3, <1>6, <4>1
    <3> QED BY <1>7, <3>1
  <2> QED BY <2>1
<1> HIDE DEF p
<1>10. ASSUME NEW i \in 1 .. m, s[i].type = family
       PROVE  \E k \in 1 .. n : i = slots[k] /\ p[i] = slots[order[k]] /\ s[p[i]].type = family
  <2>1. PICK k \in 1 .. n : slots[k] = i
    BY <1>2, <1>10
  <2>2. order[k] \in 1 .. n /\ slots[order[k]] \in 1 .. m
    BY <1>2, <1>3
  <2>3. s[slots[order[k]]].type = family
    BY <1>2, <2>2
  <2> QED BY <1>6, <2>1, <2>3
<1>11. \A i \in 1 .. m : x[i].type = s[i].type
  BY <1>7, <1>8, <1>10
<1>12. ASSUME NEW i \in 1 .. m, NEW j \in 1 .. m, p[i] = p[j]
       PROVE  i = j
  <2>1. CASE s[i].type = family /\ s[j].type = family
    <3>1. PICK k \in 1 .. n : i = slots[k] /\ p[i] = slots[order[k]]
      BY <1>10, <2>1
    <3>2. PICK l \in 1 .. n : j = slots[l] /\ p[j] = slots[order[l]]
      BY <1>10, <2>1
    <3>3. order[k] \in 1 .. n /\ order[l] \in 1 .. n /\ slots[order[k]] = slots[order[l]]
      BY <1>3, <1>12, <3>1, <3>2
    <3>4. order[k] = order[l]
      BY <1>2, <3>3
    <3>5. k = l
      BY <1>3, <3>4
    <3> QED BY <3>1, <3>2, <3>5
  <2>2. CASE s[i].type # family
    BY <1>7, <1>10, <1>12, <2>2
  <2>3. CASE s[j].type # family
    BY <1>7, <1>10, <1>12, <2>3
  <2> QED BY <2>1, <2>2, <2>3
<1>13. ASSUME NEW i \in 1 .. m
       PROVE  \E j \in 1 .. m : x[j] = s[i]
  <2>1. CASE s[i].type # family
    BY <1>7, <1>8, <2>1
  <2>2. CASE s[i].type = family
    <3>1. PICK l \in 1 .. n : slots[l] = i
      BY <1>2, <2>2
    <3>2. PICK k \in 1 .. n : order[k] = l
      BY <1>3
    <3>3. slots[k] \in 1 .. m /\ p[slots[k]] = i
      BY <1>6, <3>1, <3>2
    <3>4. x[slots[k]] = s[i]
      BY <1>8, <3>3
    <3> QED BY <3>3, <3>4
  <2> QED BY <2>1, <2>2
<1>14. x \in Seq(Records) /\ Len(x) = m
  <2>1. \A i \in 1 .. m : x[i] \in Records
    BY <1>1, <1>8, <1>9
  <2> DEFINE y == [i \in 1 .. m |-> x[i]]
  <2>2. y \in Seq(Records) /\ Len(y) = m
    BY <1>1, <2>1
  <2>3. x = y
    BY <1>4, <1>8
  <2> HIDE DEF y
  <2> QED BY <2>2, <2>3
<1>15. Reordered(x, s)
  <2>1. p \in [1 .. Len(x) -> 1 .. Len(s)]
    BY <1>9, <1>14 DEF m
  <2>2. /\ \A i \in 1 .. Len(x) : x[i] = s[p[i]]
        /\ \A i, j \in 1 .. Len(x) : p[i] = p[j] => i = j
    BY <1>8, <1>12, <1>14
  <2>3. Injects(x, s)
    BY <2>1, <2>2 DEF Injects
  <2> QED BY <1>11, <1>13, <1>14, <2>3 DEF Reordered, m
<1>16. \A k \in 1 .. n : x[slots[k]] = s[slots[order[k]]]
  BY <1>6, <1>8
<1>17. \A i \in 1 .. m : s[i].type # family => x[i] = s[i]
  BY <1>7, <1>8
<1> QED BY <1>15, <1>16, <1>17 DEF x, n, m

LEMMA RotationPermutes ==
  ASSUME NEW n \in Nat, NEW start \in 0 .. n - 1
  PROVE  Permutes(Rotation(n, start), n)
<1> DEFINE o == Rotation(n, start)
<1>1. \A k \in 1 .. n :
        o[k] = IF k - 1 + start < n THEN k + start ELSE k + start - n
  <2> SUFFICES ASSUME NEW k \in 1 .. n
               PROVE  o[k] = IF k - 1 + start < n THEN k + start ELSE k + start - n
    OBVIOUS
  <2> DEFINE t == k - 1 + start
  <2>1. o[k] = 1 + (t % n)
    BY DEF Rotation
  <2>2. t \in Nat /\ n \in Nat /\ n > 0 /\ t < n + n
    OBVIOUS
  <2> HIDE DEF t, o
  <2>3. t % n = IF t < n THEN t ELSE t - n
    BY <2>2
  <2> QED BY <2>1, <2>3 DEF t
<1>2. DOMAIN o = 1 .. n /\ o = [k \in 1 .. n |-> o[k]]
  BY DEF Rotation
<1> HIDE DEF o
<1>3. \A k \in 1 .. n : o[k] \in 1 .. n
  BY <1>1
<1>4. o \in [1 .. n -> 1 .. n]
  BY <1>2, <1>3
<1>5. \A k, l \in 1 .. n : o[k] = o[l] => k = l
  BY <1>1
<1>6. ASSUME NEW i \in 1 .. n
      PROVE  \E k \in 1 .. n : o[k] = i
  <2>1. CASE i > start
    <3>1. i - start \in 1 .. n /\ o[i - start] = i
      BY <1>1, <2>1
    <3> QED BY <3>1
  <2>2. CASE i <= start
    <3>1. i - start + n \in 1 .. n /\ o[i - start + n] = i
      BY <1>1, <2>2
    <3> QED BY <3>1
  <2> QED BY <2>1, <2>2
<1> QED BY <1>4, <1>5, <1>6 DEF Permutes, o

LEMMA SortPermutes ==
  ASSUME NEW n \in Nat, NEW key \in [1 .. n -> Int]
  PROVE  /\ Permutes(StableOrder(key), n)
         /\ \A k, l \in 1 .. n : k < l => key[StableOrder(key)[k]] <= key[StableOrder(key)[l]]
BY StableOrderPermutes DEF Permutes

-----------------------------------------------------------------------------
(* Balance: priorities                                                     *)

\* A balance stage as init makes it.
Built(b) ==
  /\ b.enabled \in BOOLEAN /\ b.max \in Nat /\ Len(b.cidrs) \in Nat
  /\ b.mode \in {"none", "round_robin", "speed"}

LEMMA BalanceBuilt ==
  ASSUME NEW c \in Configs
  PROVE  Built(init(c.raw))
<1> DEFINE raw == c.raw
           b == init(raw)
<1>1. CASE raw.section \in {"absent", "invalid"}
  BY <1>1 DEF init, Inert, Built
<1>2. CASE raw.section \notin {"absent", "invalid"}
  <2> DEFINE I == {i \in DOMAIN raw.prefers : ParsesCidr(raw.prefers[i])}
             Cidrs == [family : Families, net : Nat, prefix : Nat]
  <2>1. raw.max \in Nat /\ raw.prefers \in Seq(Cidrs)
    BY <1>2, ConfigsAssumption
  <2>2. I \in SUBSET (1 .. Len(raw.prefers))
    BY <2>1
  <2>3. b = [enabled |-> TRUE, cidrs |-> Picked(raw.prefers, I),
             mode |-> ParseMode(raw.mode), max |-> raw.max]
    BY <1>2 DEF init
  <2> HIDE DEF raw, b, I, Cidrs
  <2>4. Picked(raw.prefers, I) \in Seq(Cidrs)
    BY <2>1, <2>2, PickedKeeps
  <2>5. ParseMode(raw.mode) \in {"none", "round_robin", "speed"}
    BY DEF ParseMode
  <2> QED BY <2>1, <2>3, <2>4, <2>5 DEF Built, raw, b
<1> QED BY <1>1, <1>2

LEMMA RankIsInt ==
  ASSUME NEW b, Len(b.cidrs) \in Nat, NEW r
  PROVE  rank(b, r) \in Int
<1> DEFINE hits == {i \in 1 .. Len(b.cidrs) : contains(b.cidrs[i], r)}
<1>1. hits \subseteq Nat
  OBVIOUS
<1>2. rank(b, r) = IF hits = {} THEN Len(b.cidrs)
                   ELSE (CHOOSE i \in hits : \A j \in hits : i <= j) - 1
  BY DEF rank
<1> HIDE DEF hits
<1>3. hits # {} => (CHOOSE i \in hits : \A j \in hits : i <= j) \in Nat
  BY <1>1, LeastNat
<1> QED BY <1>2, <1>3

\* Among records of a family, those with a lower rank come first.
RankedIn(b, x, family) ==
  \A i, j \in 1 .. Len(x) :
    i < j /\ x[i].type = family /\ x[j].type = family =>
      rank(b, x[i]) <= rank(b, x[j])

\* Moving the records of another family keeps the order.
LEMMA OtherFamily ==
  ASSUME NEW b, NEW s, NEW x, NEW f, NEW g, f # g, RankedIn(b, s, f), Reordered(x, s),
         \A i \in 1 .. Len(s) : s[i].type # g => x[i] = s[i]
  PROVE  RankedIn(b, x, f)
BY DEF RankedIn, Reordered

\* The slots of a family whose keys ascend are ranked.
LEMMA RankedBySlots ==
  ASSUME NEW b, Len(b.cidrs) \in Nat, NEW s, NEW x, NEW f, NEW slots,
         Slots(slots, s, f), Reordered(x, s), Len(s) \in Nat,
         \A k, l \in 1 .. Len(slots) :
           k < l => rank(b, x[slots[k]]) <= rank(b, x[slots[l]])
  PROVE  RankedIn(b, x, f)
<1> DEFINE n == Len(slots)
<1>1. /\ n \in Nat /\ slots \in [1 .. n -> 1 .. Len(s)]
      /\ \A i \in 1 .. Len(s) : s[i].type = f <=> \E k \in 1 .. n : slots[k] = i
      /\ \A k, l \in 1 .. n : k < l => slots[k] < slots[l]
  BY DEF Slots
<1>2. Len(x) = Len(s) /\ \A i \in 1 .. Len(s) : x[i].type = s[i].type
  BY DEF Reordered
<1> SUFFICES ASSUME NEW i \in 1 .. Len(s), NEW j \in 1 .. Len(s), i < j,
                    s[i].type = f, s[j].type = f
             PROVE  rank(b, x[i]) <= rank(b, x[j])
  BY <1>2 DEF RankedIn
<1>3. PICK k \in 1 .. n : slots[k] = i
  BY <1>1
<1>4. PICK l \in 1 .. n : slots[l] = j
  BY <1>1
<1>5. k < l
  <2>1. CASE l < k
    <3>1. slots[l] < slots[k]
      BY <1>1, <2>1
    <3> QED BY <1>1, <1>3, <1>4, <3>1
  <2>2. CASE l = k
    BY <1>3, <1>4, <2>2
  <2> QED BY <1>1, <2>1, <2>2
<1> QED BY <1>3, <1>4, <1>5

\* balance_family, whatever the mode, rotation and latencies.
LEMMA FamilyBalanced ==
  ASSUME NEW b, Built(b), NEW s \in Seq(Records), NEW f,
         NEW x \in balance_family(b, s, f)
  PROVE  /\ Reordered(x, s) /\ RankedIn(b, x, f)
         /\ \A i \in 1 .. Len(s) : s[i].type # f => x[i] = s[i]
<1> DEFINE slots == collect_family(s, f)
           n == Len(slots)
           ranks == [k \in 1 .. n |-> rank(b, s[slots[k]])]
           uniform == \A k \in 1 .. n : ranks[k] = ranks[1]
           rtts(rtt) == [k \in 1 .. n |-> rtt[s[slots[k]].ip]]
<1>1. Slots(slots, s, f) /\ n \in Nat /\ Len(s) \in Nat /\ slots \in [1 .. n -> 1 .. Len(s)]
  BY CollectedSlots DEF Slots
<1>2. \/ n < 2 /\ x = s
      \/ n >= 2 /\ ~uniform /\ x = permute_family(s, slots, StableOrder(ranks))
      \/ n >= 2 /\ uniform /\ x = s
      \/ /\ n >= 2 /\ uniform
         /\ \E start \in 0 .. n - 1 : x = permute_family(s, slots, Rotation(n, start))
      \/ /\ n >= 2 /\ uniform
         /\ \E rtt \in Latencies(s, slots) :
              x = permute_family(s, slots, StableOrder(rtts(rtt)))
  <2> HIDE DEF slots
  <2>1. (n < 2 \/ n >= 2) /\ b.mode \in {"none", "round_robin", "speed"}
    BY <1>1 DEF Built
  <2>2. x \in CASE n < 2 -> {s}
       [] n >= 2 /\ ~uniform -> {permute_family(s, slots, StableOrder(ranks))}
       [] n >= 2 /\ uniform /\ b.mode = "none" -> {s}
       [] n >= 2 /\ uniform /\ b.mode = "round_robin" ->
            {permute_family(s, slots, Rotation(n, start)) : start \in 0 .. n - 1}
       [] n >= 2 /\ uniform /\ b.mode = "speed" ->
            {permute_family(s, slots, StableOrder(rtts(rtt))) :
               rtt \in Latencies(s, slots)}
    BY DEF balance_family, slots
  <2> HIDE DEF n, ranks, uniform, rtts
  <2> QED BY <1>1, <2>1, <2>2
<1> HIDE DEF slots
<1>3. \A k \in 1 .. n : ranks[k] = rank(b, s[slots[k]]) /\ ranks[k] \in Int
  BY RankIsInt DEF Built
<1>4. ranks \in [1 .. n -> Int]
  BY <1>3
<1> HIDE DEF n, ranks, rtts
<1>5. ASSUME NEW order, Permutes(order, n), x = permute_family(s, slots, order),
             \A k, l \in 1 .. n : k < l => ranks[order[k]] <= ranks[order[l]]
      PROVE  /\ Reordered(x, s) /\ RankedIn(b, x, f)
             /\ \A i \in 1 .. Len(s) : s[i].type # f => x[i] = s[i]
  <2>1. /\ Reordered(x, s)
        /\ \A k \in 1 .. n : x[slots[k]] = s[slots[order[k]]]
        /\ \A i \in 1 .. Len(s) : s[i].type # f => x[i] = s[i]
    BY <1>1, <1>5, PermutedFamily DEF n
  <2>2. \A k \in 1 .. n : order[k] \in 1 .. n
    BY <1>5 DEF Permutes
  <2>3. \A k \in 1 .. n : rank(b, x[slots[k]]) = ranks[order[k]]
    BY <1>3, <2>1, <2>2
  <2>4. \A k, l \in 1 .. n : k < l => rank(b, x[slots[k]]) <= rank(b, x[slots[l]])
    BY <1>5, <2>3
  <2>5. RankedIn(b, x, f)
    BY <1>1, <2>1, <2>4, RankedBySlots DEF n, Built
  <2> QED BY <2>1, <2>5
<1>6. ASSUME \A k, l \in 1 .. n : ranks[k] = ranks[l], x = s
      PROVE  /\ Reordered(x, s) /\ RankedIn(b, x, f)
             /\ \A i \in 1 .. Len(s) : s[i].type # f => x[i] = s[i]
  <2>1. Reordered(x, s)
    BY <1>6, ReorderedSelf
  <2>2. \A k, l \in 1 .. n : k < l => rank(b, x[slots[k]]) <= rank(b, x[slots[l]])
    BY <1>3, <1>6
  <2>3. RankedIn(b, x, f)
    BY <1>1, <2>1, <2>2, RankedBySlots DEF n, Built
  <2> QED BY <1>6, <2>1, <2>3
<1>7. ASSUME uniform, n >= 2
      PROVE  \A k, l \in 1 .. n : ranks[k] = ranks[l]
  BY <1>7
<1>8. CASE n < 2 /\ x = s
  <2>1. \A k, l \in 1 .. n : k = l
    BY <1>1, <1>8
  <2> QED BY <1>6, <1>8, <2>1
<1>9. CASE n >= 2 /\ ~uniform /\ x = permute_family(s, slots, StableOrder(ranks))
  BY <1>1, <1>4, <1>5, <1>9, SortPermutes
<1>10. CASE n >= 2 /\ uniform /\ x = s
  BY <1>6, <1>7, <1>10
<1>11. ASSUME NEW order, Permutes(order, n), n >= 2, uniform, x = permute_family(s, slots, order)
       PROVE  /\ Reordered(x, s) /\ RankedIn(b, x, f)
              /\ \A i \in 1 .. Len(s) : s[i].type # f => x[i] = s[i]
  <2>1. \A k \in 1 .. n : order[k] \in 1 .. n
    BY <1>11 DEF Permutes
  <2>2. \A k, l \in 1 .. n : ranks[order[k]] = ranks[order[l]]
    BY <1>7, <1>11, <2>1
  <2>3. \A k, l \in 1 .. n : k < l => ranks[order[k]] <= ranks[order[l]]
    BY <1>3, <2>1, <2>2
  <2> QED BY <1>5, <1>11, <2>3
<1>12. CASE /\ n >= 2 /\ uniform
            /\ \E start \in 0 .. n - 1 : x = permute_family(s, slots, Rotation(n, start))
  BY <1>1, <1>11, <1>12, RotationPermutes
<1>13. CASE /\ n >= 2 /\ uniform
            /\ \E rtt \in Latencies(s, slots) :
                 x = permute_family(s, slots, StableOrder(rtts(rtt)))
  <2>1. PICK rtt \in Latencies(s, slots) :
          x = permute_family(s, slots, StableOrder(rtts(rtt)))
    BY <1>13
  <2>2. rtts(rtt) \in [1 .. n -> Int]
    <3>1. \A k \in 1 .. n : rtt[s[slots[k]].ip] \in Int
      BY MaxRttAssumption DEF Latencies, n
    <3> QED BY <3>1 DEF rtts
  <2>3. Permutes(StableOrder(rtts(rtt)), n)
    BY <1>1, <2>2, SortPermutes
  <2> QED BY <1>11, <1>13, <2>1, <2>3
<1> QED BY <1>2, <1>8, <1>9, <1>10, <1>12, <1>13

LEMMA FamilyMaybeBalanced ==
  ASSUME NEW b, Built(b), NEW s \in Seq(Records), NEW f, NEW on \in BOOLEAN,
         NEW x \in BalancedFamily(b, s, f, on)
  PROVE  /\ Reordered(x, s) /\ x \in Seq(Records) /\ (on => RankedIn(b, x, f))
         /\ \A i \in 1 .. Len(s) : s[i].type # f => x[i] = s[i]
<1>1. CASE on
  <2>1. x \in balance_family(b, s, f)
    BY <1>1 DEF BalancedFamily
  <2>2. /\ Reordered(x, s) /\ RankedIn(b, x, f)
        /\ \A i \in 1 .. Len(s) : s[i].type # f => x[i] = s[i]
    BY <2>1, FamilyBalanced
  <2> QED BY <2>2 DEF Reordered
<1>2. CASE ~on
  BY <1>2, ReorderedSelf DEF BalancedFamily
<1> QED BY <1>1, <1>2

\* What handle returns: the answer with its families in the order of their
\* ranks, cut.
LEMMA HandleReorders ==
  ASSUME NEW b, Built(b), NEW s \in Seq(Records), NEW qtype, NEW skip,
         NEW recs \in handle(b, s, qtype, skip)
  PROVE  IF ~b.enabled \/ skip \/ ~Balanced(qtype) THEN recs = s
         ELSE \E y : /\ Reordered(y, s) /\ recs = Cap(b, y)
                     /\ \A f \in families(qtype) : RankedIn(b, y, f)
<1>1. CASE ~b.enabled \/ skip \/ ~Balanced(qtype)
  BY <1>1 DEF handle
<1>2. CASE b.enabled /\ ~skip /\ Balanced(qtype)
  <2>1. PICK x \in BalancedFamily(b, s, "A", "A" \in families(qtype)) :
          \E y \in BalancedFamily(b, x, "AAAA", "AAAA" \in families(qtype)) : recs = Cap(b, y)
    BY <1>2 DEF handle
  <2>0. PICK y \in BalancedFamily(b, x, "AAAA", "AAAA" \in families(qtype)) : recs = Cap(b, y)
    BY <2>1
  <2>2. Reordered(x, s) /\ x \in Seq(Records) /\ ("A" \in families(qtype) => RankedIn(b, x, "A"))
    <3>1. ("A" \in families(qtype)) \in BOOLEAN
      OBVIOUS
    <3> QED BY <3>1, FamilyMaybeBalanced
  <2>3. /\ Reordered(y, x) /\ ("AAAA" \in families(qtype) => RankedIn(b, y, "AAAA"))
        /\ \A i \in 1 .. Len(x) : x[i].type # "AAAA" => y[i] = x[i]
    <3> DEFINE on == "AAAA" \in families(qtype)
    <3>1. on \in BOOLEAN /\ y \in BalancedFamily(b, x, "AAAA", on) /\ x \in Seq(Records)
      BY <2>0, <2>2
    <3> HIDE DEF on
    <3>2. /\ Reordered(y, x) /\ (on => RankedIn(b, y, "AAAA"))
          /\ \A i \in 1 .. Len(x) : x[i].type # "AAAA" => y[i] = x[i]
      BY <3>1, FamilyMaybeBalanced
    <3> QED BY <3>2 DEF on
  <2>4. Reordered(y, s)
    BY <2>2, <2>3, ReorderedTwice
  <2>5. "A" \in families(qtype) => RankedIn(b, y, "A")
    BY <2>2, <2>3, OtherFamily
  <2>6. families(qtype) \subseteq {"A", "AAAA"}
    BY DEF families, Families
  <2>7. \A f \in families(qtype) : RankedIn(b, y, f)
    BY <2>3, <2>5, <2>6
  <2> QED BY <1>2, <2>0, <2>4, <2>7
<1> QED BY <1>1, <1>2 DEF Built

-----------------------------------------------------------------------------
(* What becomes of the records of an answer                                *)

\* s is t with records exchanged among the places of their types, maybe cut.
Shuffled(s, t) ==
  /\ s \in Seq(Records) /\ t \in Seq(Records) /\ Len(s) <= Len(t)
  /\ \A i \in 1 .. Len(s) : s[i].type = t[i].type
  /\ Injects(s, t)

LEMMA ReorderedShuffles ==
  ASSUME NEW s \in Seq(Records), NEW x, Reordered(x, s)
  PROVE  Shuffled(x, s)
<1>1. Len(s) \in Nat
  OBVIOUS
<1> QED BY <1>1 DEF Shuffled, Reordered

LEMMA ShuffledSelf ==
  ASSUME NEW s \in Seq(Records)
  PROVE  Shuffled(s, s)
BY ReorderedSelf, ReorderedShuffles

LEMMA ShuffledTwice ==
  ASSUME NEW s, NEW x, NEW y, Shuffled(x, s), Shuffled(y, x)
  PROVE  Shuffled(y, s)
<1>1. /\ s \in Seq(Records) /\ x \in Seq(Records) /\ y \in Seq(Records)
      /\ Len(x) <= Len(s) /\ Len(y) <= Len(x)
      /\ \A i \in 1 .. Len(x) : x[i].type = s[i].type
      /\ \A i \in 1 .. Len(y) : y[i].type = x[i].type
  BY DEF Shuffled
<1>2. Len(s) \in Nat /\ Len(x) \in Nat /\ Len(y) \in Nat
  BY <1>1
<1>3. Len(y) <= Len(s) /\ \A i \in 1 .. Len(y) : i \in 1 .. Len(x)
  BY <1>1, <1>2
<1>4. \A i \in 1 .. Len(y) : y[i].type = s[i].type
  BY <1>1, <1>3
<1>5. Injects(y, s)
  BY InjectsTwice DEF Shuffled
<1> QED BY <1>1, <1>3, <1>4, <1>5 DEF Shuffled

\* Cap takes a prefix.
LEMMA CapCuts ==
  ASSUME NEW b, Built(b), NEW s \in Seq(Records)
  PROVE  /\ Cap(b, s) \in Seq(Records) /\ Len(Cap(b, s)) \in Nat /\ Len(Cap(b, s)) <= Len(s)
         /\ \A i \in 1 .. Len(Cap(b, s)) : Cap(b, s)[i] = s[i]
         /\ b.max > 0 => Len(Cap(b, s)) <= b.max
         /\ b.max = 0 \/ Len(s) <= b.max => Cap(b, s) = s
<1>1. Len(s) \in Nat /\ b.max \in Nat
  BY DEF Built
<1>2. CASE b.max > 0 /\ Len(s) > b.max
  <2>1. /\ SubSeq(s, 1, b.max) \in Seq(Records) /\ Len(SubSeq(s, 1, b.max)) = b.max
        /\ \A i \in 1 .. b.max : SubSeq(s, 1, b.max)[i] = s[i]
    BY <1>1, <1>2
  <2>2. Cap(b, s) = SubSeq(s, 1, b.max)
    BY <1>2 DEF Cap
  <2> QED BY <1>1, <1>2, <2>1, <2>2
<1>3. CASE ~(b.max > 0 /\ Len(s) > b.max)
  <2>1. Cap(b, s) = s
    BY <1>3 DEF Cap
  <2> QED BY <1>1, <1>3, <2>1
<1> QED BY <1>2, <1>3

LEMMA CapShuffles ==
  ASSUME NEW b, Built(b), NEW s \in Seq(Records)
  PROVE  Shuffled(Cap(b, s), s)
<1> DEFINE c == Cap(b, s)
<1>1. /\ c \in Seq(Records) /\ Len(c) \in Nat /\ Len(c) <= Len(s) /\ Len(s) \in Nat
      /\ \A i \in 1 .. Len(c) : c[i] = s[i]
  BY CapCuts
<1> HIDE DEF c
<1>2. Injects(c, s)
  BY <1>1, PrefixInjects
<1>3. \A i \in 1 .. Len(c) : c[i].type = s[i].type
  BY <1>1
<1> QED BY <1>1, <1>2, <1>3 DEF Shuffled, c

\* The balance stage exchanges records within their types and cuts the answer.
LEMMA HandleShuffles ==
  ASSUME NEW b, Built(b), NEW s \in Seq(Records), NEW qtype, NEW skip,
         NEW recs \in handle(b, s, qtype, skip)
  PROVE  /\ Shuffled(recs, s)
         /\ ~b.enabled \/ skip \/ ~Balanced(qtype) => recs = s
         /\ b.enabled /\ ~skip /\ Balanced(qtype) /\ b.max > 0 => Len(recs) <= b.max
         /\ b.max = 0 \/ Len(s) <= b.max => Len(recs) = Len(s)
<1>1. CASE ~b.enabled \/ skip \/ ~Balanced(qtype)
  BY <1>1, HandleReorders, ShuffledSelf
<1>2. CASE ~(~b.enabled \/ skip \/ ~Balanced(qtype))
  <2>1. PICK y : Reordered(y, s) /\ recs = Cap(b, y)
    BY <1>2, HandleReorders
  <2>2. y \in Seq(Records) /\ Len(y) = Len(s)
    BY <2>1 DEF Reordered
  <2>3. Shuffled(recs, y) /\ Shuffled(y, s)
    BY <2>1, <2>2, CapShuffles, ReorderedShuffles
  <2>4. Shuffled(recs, s)
    BY <2>3, ShuffledTwice
  <2>5. /\ b.max > 0 => Len(recs) <= b.max
        /\ b.max = 0 \/ Len(s) <= b.max => Len(recs) = Len(s)
    BY <2>1, <2>2, CapCuts
  <2> QED BY <1>2, <2>4, <2>5
<1> QED BY <1>1, <1>2

\* No record is multiplied on its way.
LEMMA ShuffledRearranges ==
  ASSUME NEW s, NEW t, Shuffled(s, t)
  PROVE  Rearranged(s, t)
<1>1. /\ Len(s) \in Nat /\ Len(t) \in Nat /\ Len(s) <= Len(t)
      /\ DOMAIN s = 1 .. Len(s) /\ DOMAIN t = 1 .. Len(t)
      /\ \A i \in 1 .. Len(s) : s[i].type = t[i].type
  BY DEF Shuffled
<1>2. PICK p \in [1 .. Len(s) -> 1 .. Len(t)] :
        /\ \A i \in 1 .. Len(s) : s[i] = t[p[i]]
        /\ \A i, j \in 1 .. Len(s) : p[i] = p[j] => i = j
  BY DEF Shuffled, Injects
<1>3. ASSUME NEW r
      PROVE  Count(r, s) <= Count(r, t)
  <2> DEFINE S == {i \in DOMAIN s : s[i] = r}
             T == {i \in DOMAIN t : t[i] = r}
             f == [i \in S |-> p[i]]
  <2>1. IsFiniteSet(S) /\ IsFiniteSet(T)
    <3>1. IsFiniteSet(1 .. Len(s)) /\ IsFiniteSet(1 .. Len(t))
      BY <1>1, FS_Interval
    <3> QED BY <1>1, <3>1, FS_Subset
  <2>2. f \in [S -> T] /\ \A i, j \in S : f[i] = f[j] => i = j
    BY <1>1, <1>2
  <2> HIDE DEF f, S, T
  <2>3. f \in Injection(S, T)
    BY <2>2 DEF Injection, IsInjective
  <2>4. Cardinality(S) <= Cardinality(T)
    BY <2>1, <2>3, FS_Injection
  <2> QED BY <2>4 DEF Count, S, T
<1> QED BY <1>1, <1>3 DEF Rearranged

\* Cacheable drops the records of other types and keeps the rest in order.
LEMMA CacheableKeeps ==
  ASSUME NEW s \in Seq(Records)
  PROVE  /\ Cacheable(s) \in Seq(Records) /\ Len(Cacheable(s)) <= Len(s)
         /\ \A k \in 1 .. Len(Cacheable(s)) :
              \E i \in 1 .. Len(s) : Cacheable(s)[k] = s[i] /\ s[i].type \in CacheTypes
         /\ \A i \in 1 .. Len(s) : s[i].type \in CacheTypes =>
              \E k \in 1 .. Len(Cacheable(s)) : Cacheable(s)[k] = s[i]
         /\ (\A i \in 1 .. Len(s) : s[i].type \in CacheTypes) => Cacheable(s) = s
<1> DEFINE I == {i \in 1 .. Len(s) : s[i].type \in CacheTypes}
           c == Cacheable(s)
<1>1. I \in SUBSET (1 .. Len(s))
  OBVIOUS
<1>2. c = Picked(s, I)
  BY DEF Cacheable
<1>3. (\A i \in 1 .. Len(s) : s[i].type \in CacheTypes) => I = 1 .. Len(s)
  OBVIOUS
<1>4. \A i : i \in I <=> i \in 1 .. Len(s) /\ s[i].type \in CacheTypes
  OBVIOUS
<1> HIDE DEF I, c
<1>5. /\ c \in Seq(Records) /\ Len(c) <= Len(s)
      /\ \A i \in I : \E k \in 1 .. Len(c) : c[k] = s[i]
      /\ \A k \in 1 .. Len(c) : \E i \in I : c[k] = s[i]
  BY <1>1, <1>2, PickedKeeps
<1>6. (\A i \in 1 .. Len(s) : s[i].type \in CacheTypes) => c = s
  BY <1>2, <1>3, PickedAll
<1> QED BY <1>4, <1>5, <1>6 DEF c

-----------------------------------------------------------------------------
(* The best are kept                                                       *)

\* The balance stage of a configuration.
BalanceOf(g) == init(g.raw)

\* What recs leaves out of all, no kept record of its family ranks behind.
Best(g, recs, all) ==
  \A i \in 1 .. Len(all) :
    all[i].type \in families(g.qtype) /\ (\A k \in 1 .. Len(recs) : recs[k] # all[i]) =>
      \A j \in 1 .. Len(recs) :
        recs[j].type = all[i].type => rank(BalanceOf(g), recs[j]) <= rank(BalanceOf(g), all[i])

LEMMA BestOfAll ==
  ASSUME NEW g, NEW s \in Seq(Records)
  PROVE  Best(g, s, s)
BY DEF Best

LEMMA BestCacheable ==
  ASSUME NEW g, NEW s \in Seq(Records), NEW all, Best(g, s, all)
  PROVE  Best(g, Cacheable(s), all)
<1> DEFINE c == Cacheable(s)
<1>1. /\ \A k \in 1 .. Len(c) :
           \E i \in 1 .. Len(s) : c[k] = s[i] /\ s[i].type \in CacheTypes
      /\ \A i \in 1 .. Len(s) : s[i].type \in CacheTypes =>
           \E k \in 1 .. Len(c) : c[k] = s[i]
  BY CacheableKeeps
<1>2. families(g.qtype) \subseteq CacheTypes
  BY DEF families, Families, CacheTypes
<1> HIDE DEF c
<1> SUFFICES ASSUME NEW i \in 1 .. Len(all), all[i].type \in families(g.qtype),
                    \A k \in 1 .. Len(c) : c[k] # all[i],
                    NEW j \in 1 .. Len(c), c[j].type = all[i].type
             PROVE  rank(BalanceOf(g), c[j]) <= rank(BalanceOf(g), all[i])
  BY DEF Best, c
<1>3. \A k \in 1 .. Len(s) : s[k] # all[i]
  BY <1>1, <1>2
<1>4. PICK l \in 1 .. Len(s) : c[j] = s[l]
  BY <1>1
<1> QED BY <1>3, <1>4 DEF Best

\* Sorting and cutting what was best leaves the best.
LEMMA BestHandled ==
  ASSUME NEW g, Built(BalanceOf(g)), NEW s \in Seq(Records), NEW all, Best(g, s, all), NEW skip,
         NEW recs \in handle(BalanceOf(g), s, g.qtype, skip)
  PROVE  Best(g, recs, all)
<1>1. CASE ~BalanceOf(g).enabled \/ skip \/ ~Balanced(g.qtype)
  BY <1>1, HandleReorders
<1>2. CASE ~(~BalanceOf(g).enabled \/ skip \/ ~Balanced(g.qtype))
  <2>1. PICK y : /\ Reordered(y, s) /\ recs = Cap(BalanceOf(g), y)
                 /\ \A f \in families(g.qtype) : RankedIn(BalanceOf(g), y, f)
    BY <1>2, HandleReorders
  <2>2. /\ y \in Seq(Records) /\ Len(y) = Len(s) /\ Len(s) \in Nat
        /\ \A i \in 1 .. Len(s) : \E j \in 1 .. Len(s) : y[j] = s[i]
    BY <2>1 DEF Reordered
  <2>0. \A i \in 1 .. Len(y) : \E j \in 1 .. Len(s) : y[i] = s[j]
    BY <2>1 DEF Reordered, Injects
  <2>3. /\ Len(recs) \in Nat /\ Len(recs) <= Len(s)
        /\ \A i \in 1 .. Len(recs) : recs[i] = y[i]
    <3> DEFINE c == Cap(BalanceOf(g), y)
    <3>1. /\ Len(c) \in Nat /\ Len(c) <= Len(y)
          /\ \A i \in 1 .. Len(c) : c[i] = y[i]
      BY <2>2, CapCuts
    <3>2. recs = c
      BY <2>1
    <3> HIDE DEF c
    <3> QED BY <2>2, <3>1, <3>2
  <2> SUFFICES ASSUME NEW i \in 1 .. Len(all), all[i].type \in families(g.qtype),
                      \A k \in 1 .. Len(recs) : recs[k] # all[i],
                      NEW j \in 1 .. Len(recs), recs[j].type = all[i].type
               PROVE  rank(BalanceOf(g), recs[j]) <= rank(BalanceOf(g), all[i])
    BY DEF Best
  <2>4. j \in 1 .. Len(s) /\ recs[j] = y[j]
    BY <2>2, <2>3
  <2>5. CASE \A k \in 1 .. Len(s) : s[k] # all[i]
    <3>1. PICK l \in 1 .. Len(s) : y[j] = s[l]
      BY <2>0, <2>2, <2>4
    <3>2. recs[j] = s[l]
      BY <2>4, <3>1
    <3> QED BY <2>5, <3>1, <3>2 DEF Best
  <2>6. CASE \E k \in 1 .. Len(s) : s[k] = all[i]
    <3>1. PICK k \in 1 .. Len(s) : y[k] = all[i]
      BY <2>2, <2>6
    <3>2. k > Len(recs)
      <4>1. k \in 1 .. Len(recs) => recs[k] = all[i]
        BY <2>3, <3>1
      <4>2. k \in Nat /\ k >= 1
        BY <2>2
      <4> QED BY <2>3, <4>1, <4>2
    <3>3. j < k
      BY <2>3, <3>2
    <3>4. RankedIn(BalanceOf(g), y, all[i].type)
      BY <2>1
    <3>5. y[j].type = all[i].type /\ y[k].type = all[i].type
      BY <2>4, <3>1
    <3>6. rank(BalanceOf(g), y[j]) <= rank(BalanceOf(g), y[k])
      BY <2>2, <2>4, <3>3, <3>4, <3>5 DEF RankedIn
    <3> QED BY <2>4, <3>1, <3>6
  <2> QED BY <2>5, <2>6
<1> QED BY <1>1, <1>2

-----------------------------------------------------------------------------
(* The invariant                                                           *)

PCs == {"idle", "asking", "responding", "answered"}

\* What groups, cache and rules see of a query: the name it asked for, or, for
\* an alias, the original domain, in the key always and in the question if the
\* name can be rewritten there.
Rewritten(c) ==
  /\ c.asked \in Names /\ c.key \in Names /\ c.question \in Names
  /\ \/ c.original_name = "none" /\ c.key = c.asked /\ c.question = c.asked
     \/ /\ c.original_name = c.asked
        /\ from_utf8(c.key) => c.question = c.key

\* A response is a record, and its source has a name where one is remembered.
Fields ==
  {"asked", "question", "key", "original_name", "group", "skip_cache", "skip_balance"}
RespFields == {"origin", "question", "owner", "recs", "src"}
SrcFields == {"name", "recs", "skipped", "first"}
Shaped(r) ==
  /\ DOMAIN r = RespFields
  /\ r.origin = "upstream" => DOMAIN r.src = SrcFields

\* The records come from the name they will be stored under.
Sourced(c, r) == Storable(r) /\ from_utf8(c.key) => r.src.name = c.key

\* The response still carries the rewritten name, or the client's.
Named(c, r) == r.question = c.question /\ r.owner = c.question
Restorable(c, r) ==
  from_utf8(c.asked) => r.question = c.asked /\ r.owner = c.asked

Domains ==
  /\ DOMAIN pc = Queries /\ DOMAIN ctx = Queries /\ DOMAIN resp = Queries
  /\ DOMAIN entry = Names

Linked(q) ==
  /\ pc[q] \in PCs
  /\ pc[q] # "idle" => Rewritten(ctx[q])
  /\ pc[q] \in {"responding", "answered"} => Shaped(resp[q]) /\ Sourced(ctx[q], resp[q])
  /\ pc[q] = "responding" => Named(ctx[q], resp[q])
  /\ pc[q] = "answered" => Restorable(ctx[q], resp[q])

Entries == \A k \in Names : entry[k] # Absent /\ from_utf8(k) => entry[k].src.name = k

IInv == Domains /\ Entries /\ \A q \in Queries : Linked(q)

-----------------------------------------------------------------------------
(* The operators                                                           *)

\* A client's context is its own name, with or without the flags of a group.
LEMMA NewRewritten ==
    ASSUME NEW n \in Names
    PROVE  Rewritten(NewCtx(n)) /\ NewCtx(n).question = n
BY DEF Rewritten, NewCtx

\* The groups and the cache write control bits only.
SameNames(c, d) ==
  /\ DOMAIN d = Fields
  /\ d.asked = c.asked /\ d.question = c.question /\ d.key = c.key
  /\ d.original_name = c.original_name

LEMMA BitsOnly ==
    ASSUME NEW c, DOMAIN c = Fields, NEW g, NEW s1, NEW s2
    PROVE  /\ SameNames(c, [c EXCEPT !.skip_balance = s2])
           /\ SameNames(c, [c EXCEPT !.group = g, !.skip_cache = s1, !.skip_balance = s2])
BY DEF SameNames, Fields

\* Hosts and groups leave a context that is rewritten as a whole.
LEMMA PreparedNames ==
    ASSUME NEW n \in Names
    PROVE  DOMAIN Prepared(n) = Fields /\ Rewritten(Prepared(n))
<1>1. CASE hosts[n] = "alias"
  <2> DEFINE c == Aliased(n)
  <2>1. Target[n] \in Names
    BY TargetAssumption
  <2>2. LET d == rewrite_name(NewCtx(n), Target[n]) IN
          /\ DOMAIN d = Fields /\ d.asked = n /\ d.key = Target[n]
          /\ from_utf8(Target[n]) => d.question = Target[n]
          /\ d.question \in Names
    BY <2>1 DEF rewrite_name, NewCtx, Fields
  <2>3. DOMAIN c = Fields /\ Rewritten(c)
    BY <2>1, <2>2 DEF Aliased, Fields, Rewritten
  <2> HIDE DEF c
  <2>4. SameNames(c, WithGroup(c))
    BY <2>3, BitsOnly DEF WithGroup
  <2>5. Prepared(n) = WithGroup(c)
    BY <1>1 DEF Prepared, c
  <2> QED  BY <2>3, <2>4, <2>5 DEF SameNames, Rewritten
<1>2. CASE hosts[n] # "alias"
  <2> DEFINE c == NewCtx(n)
  <2>1. DOMAIN c = Fields /\ Rewritten(c)
    BY DEF NewCtx, Fields, Rewritten
  <2> HIDE DEF c
  <2>2. SameNames(c, WithGroup(c))
    BY <2>1, BitsOnly DEF WithGroup
  <2>3. Prepared(n) = WithGroup(c)
    BY <1>2 DEF Prepared, c
  <2> QED  BY <2>1, <2>2, <2>3 DEF SameNames, Rewritten
<1> QED  BY <1>1, <1>2

\* A new response carries the question of its context.
LEMMA ResponseProps ==
    ASSUME NEW c, NEW origin, NEW recs, NEW src
    PROVE  LET r == Response(c, origin, recs, src) IN
           /\ DOMAIN r = RespFields /\ r.origin = origin /\ r.recs = recs /\ r.src = src
           /\ Named(c, r)
BY DEF Response, Named, RespFields

\* The name of a source survives that its first reply is remembered.
LEMMA RememberProps ==
    ASSUME NEW r, Shaped(r), NEW recs
    PROVE  /\ r.origin = "upstream" => DOMAIN Remember(r, recs) = SrcFields
           /\ Remember(r, recs).name = r.src.name
BY DEF Remember, Shaped, SrcFields

\* The reply made of a response and its balanced records.
Reply(c, r, recs) == [Restored(c, r) EXCEPT !.recs = recs, !.src = Remember(r, recs)]

\* Restoring gives the client its name back and leaves the rest.
LEMMA RestoredProps ==
    ASSUME NEW c, Rewritten(c), NEW r, Shaped(r), Named(c, r), NEW recs
    PROVE  LET t == Reply(c, r, recs) IN
           /\ Shaped(t) /\ t.origin = r.origin /\ t.recs = recs /\ t.src = Remember(r, recs)
           /\ t.src.name = r.src.name /\ Restorable(c, t)
<1> DEFINE u == Restored(c, r)
           t == Reply(c, r, recs)
<1>0. t = [u EXCEPT !.recs = recs, !.src = Remember(r, recs)]
  BY DEF Reply
<1>1. /\ DOMAIN u = RespFields /\ u.origin = r.origin
      /\ from_utf8(c.asked) => u.question = c.asked /\ u.owner = c.asked
  <2>1. c.asked # "none"
    BY NamesAssumption DEF Rewritten
  <2> QED  BY <2>1 DEF Restored, Named, Rewritten, Shaped, RespFields
<1> HIDE DEF u, t
<1>2. /\ DOMAIN t = RespFields /\ t.origin = u.origin
      /\ t.recs = recs /\ t.src = Remember(r, recs)
      /\ t.question = u.question /\ t.owner = u.owner
  BY <1>0, <1>1 DEF RespFields
<1>3. Shaped(t)
  BY <1>1, <1>2, RememberProps DEF Shaped
<1>4. t.src.name = r.src.name
  BY <1>2, RememberProps
<1>5. Restorable(c, t)
  BY <1>1, <1>2 DEF Restorable
<1> QED  BY <1>1, <1>2, <1>3, <1>4, <1>5 DEF t

-----------------------------------------------------------------------------
(* The steps                                                               *)

\* What a step of q leaves alone.
Alone(q) ==
  /\ UNCHANGED cfg
  /\ DOMAIN pc' = Queries /\ DOMAIN ctx' = Queries /\ DOMAIN resp' = Queries
  /\ \A p \in Queries \ {q} : pc'[p] = pc[p] /\ ctx'[p] = ctx[p] /\ resp'[p] = resp[p]

LEMMA OthersLinked ==
    ASSUME NEW q \in Queries, Alone(q), NEW p \in Queries \ {q}, Linked(p)
    PROVE  Linked(p)'
BY DEF Alone, Linked, Rewritten, Shaped, Sourced, Storable, Named, Restorable, from_utf8

\* A step of q that keeps the cache.
LEMMA StepOfOne ==
    ASSUME IInv, NEW q \in Queries, Alone(q), UNCHANGED entry, Linked(q)'
    PROVE  IInv'
<1>1. Domains'
  BY DEF IInv, Domains, Alone
<1>2. Entries'
  BY DEF IInv, Entries, Alone, from_utf8
<1>3. \A p \in Queries : Linked(p)'
  BY OthersLinked DEF IInv
<1> QED  BY <1>1, <1>2, <1>3 DEF IInv

LEMMA HostsAnswerKeeps ==
    ASSUME IInv, NEW q \in Queries, NEW n \in Names, HostsAnswer(q, n)
    PROVE  IInv'
<1> DEFINE c == NewCtx(n)
           r == Response(NewCtx(n), "hosts", HostRecs, NoSrc)
<1>1. Alone(q)
  BY DEF IInv, Domains, HostsAnswer, Alone
<1>2. ctx'[q] = c /\ resp'[q] = r /\ pc'[q] = "responding" /\ UNCHANGED cfg
  BY DEF IInv, Domains, HostsAnswer
<1>3. Rewritten(c)
  BY NewRewritten
<1>4. DOMAIN r = RespFields /\ r.origin = "hosts" /\ Named(c, r)
  BY ResponseProps
<1> HIDE DEF c, r
<1>5. Linked(q)'
  BY <1>2, <1>3, <1>4
     DEF Linked, PCs, Shaped, Sourced, Storable, Rewritten, Named, from_utf8
<1> QED  BY <1>1, <1>5, StepOfOne DEF HostsAnswer

\* A hit answers from an entry of the name in the key.
LEMMA HitKeeps ==
    ASSUME IInv, NEW q \in Queries, NEW n \in Names, CacheHit(q, n)
    PROVE  IInv'
<1> DEFINE b == Prepared(n)
           c == [b EXCEPT !.skip_balance = cfg.onhit]
           r == Response(b, "hit", entry[b.key].recs, entry[b.key].src)
<1>1. Alone(q) /\ UNCHANGED <<groups, entry>>
  BY DEF IInv, Domains, CacheHit, Found, Alone
<1>2. /\ ctx'[q] = c /\ resp'[q] = r /\ pc'[q] = "responding" /\ UNCHANGED cfg
      /\ entry[b.key] # Absent
  BY DEF IInv, Domains, CacheHit, Found
<1>3. DOMAIN b = Fields /\ Rewritten(b)
  BY PreparedNames
<1>4. /\ DOMAIN r = RespFields /\ r.origin = "hit" /\ Named(b, r)
      /\ r.src = entry[b.key].src
  BY ResponseProps
<1> HIDE DEF b
<1>5. SameNames(b, c)
  BY <1>3, BitsOnly
<1> HIDE DEF c, r
<1>6. from_utf8(b.key) => entry[b.key].src.name = b.key
  BY <1>2, <1>3 DEF IInv, Entries, Rewritten
<1>7. Rewritten(c) /\ Shaped(r) /\ Sourced(c, r) /\ Named(c, r)
  BY <1>3, <1>4, <1>5, <1>6 DEF SameNames, Rewritten, Shaped, Sourced, Named
<1>8. Linked(q)'
  BY <1>2, <1>7 DEF Linked, PCs, Shaped, Sourced, Storable, Rewritten, Named, from_utf8
<1> QED  BY <1>1, <1>8, StepOfOne

LEMMA MissKeeps ==
    ASSUME IInv, NEW q \in Queries, NEW n \in Names, CacheMiss(q, n)
    PROVE  IInv'
<1>1. Alone(q) /\ UNCHANGED <<groups, entry>>
  BY DEF IInv, Domains, CacheMiss, Alone
<1>2. ctx'[q] = Prepared(n) /\ pc'[q] = "asking" /\ UNCHANGED cfg
  BY DEF IInv, Domains, CacheMiss
<1>3. Rewritten(ctx'[q])
  BY <1>2, PreparedNames
<1>4. Linked(q)'
  BY <1>2, <1>3 DEF Linked, PCs, Rewritten, from_utf8
<1> QED  BY <1>1, <1>4, StepOfOne

\* The rules stage answers, from an upstream or by itself.
LEMMA RespondKeeps ==
    ASSUME IInv, NEW q \in Queries, NEW origin, NEW recs, NEW src,
           Respond(q, origin, recs, src),
           origin \in {"failed", "local"}
             \/ (origin = "upstream" /\ DOMAIN src = SrcFields /\ src.name = ctx[q].question)
    PROVE  IInv'
<1> DEFINE r == Response(ctx[q], origin, recs, src)
<1>1. Alone(q) /\ UNCHANGED <<groups, entry>>
  BY DEF IInv, Domains, Respond, Alone
<1>2. /\ ctx' = ctx /\ resp'[q] = r /\ pc'[q] = "responding" /\ UNCHANGED cfg
      /\ pc[q] = "asking"
  BY DEF IInv, Domains, Respond
<1>3. DOMAIN r = RespFields /\ r.origin = origin /\ r.src = src /\ Named(ctx[q], r)
  BY ResponseProps
<1> HIDE DEF r
<1>4. Rewritten(ctx[q])
  BY <1>2 DEF IInv, Linked
<1>5. Shaped(r) /\ Sourced(ctx[q], r)
  BY <1>3, <1>4 DEF Shaped, Sourced, Storable, Rewritten
<1>6. Linked(q)'
  BY <1>2, <1>3, <1>4, <1>5
     DEF Linked, PCs, Shaped, Sourced, Storable, Rewritten, Named, from_utf8
<1> QED  BY <1>1, <1>6, StepOfOne

\* The upstream is asked the question, which is the key where names can be
\* rewritten.
LEMMA ForwardedKeeps ==
    ASSUME IInv, NEW q \in Queries, Forwarded(q)
    PROVE  IInv'
<1> DEFINE n == ctx[q].question
           src == [name |-> n, recs |-> Zone[n], skipped |-> ctx[q].group.skip_balance,
                   first |-> Cacheable(Zone[n])]
<1>1. Respond(q, "upstream", Zone[n], src)
  BY DEF Forwarded
<1>2. DOMAIN src = SrcFields /\ src.name = ctx[q].question
  BY DEF SrcFields
<1> HIDE DEF n, src
<1> QED  BY <1>1, <1>2, RespondKeeps

LEMMA FinishKeeps ==
    ASSUME IInv, NEW q \in Queries, BalanceAndRestore(q)
    PROVE  IInv'
<1>0. Domains
  BY DEF IInv
<1>1. PICK recs \in handle(balance, resp[q].recs, cfg.qtype, ctx[q].skip_balance) :
        resp' = [resp EXCEPT ![q] = Reply(ctx[q], resp[q], recs)]
  BY DEF BalanceAndRestore, Finished, Reply
<1>2. /\ pc[q] = "responding" /\ pc' = [pc EXCEPT ![q] = "answered"]
      /\ UNCHANGED <<cfg, entry, ctx>>
  BY DEF BalanceAndRestore, Finished
<1>3. Alone(q)
  BY <1>0, <1>1, <1>2 DEF Domains, Alone
<1> DEFINE t == Reply(ctx[q], resp[q], recs)
<1>4. Rewritten(ctx[q]) /\ Shaped(resp[q]) /\ Sourced(ctx[q], resp[q]) /\ Named(ctx[q], resp[q])
  BY <1>2 DEF IInv, Linked
<1>5. /\ Shaped(t) /\ t.origin = resp[q].origin
      /\ t.src.name = resp[q].src.name /\ Restorable(ctx[q], t)
  BY <1>4, RestoredProps
<1>6. resp'[q] = t /\ pc'[q] = "answered"
  BY <1>0, <1>1, <1>2 DEF Domains
<1> HIDE DEF t
<1>7. Sourced(ctx[q], t)
  BY <1>4, <1>5 DEF Sourced, Storable
<1>8. Linked(q)'
  BY <1>2, <1>4, <1>5, <1>6, <1>7
     DEF Linked, PCs, Shaped, Sourced, Storable, Rewritten, Restorable, from_utf8
<1> QED  BY <1>2, <1>3, <1>8, StepOfOne

\* What is stored under a key came from it.
LEMMA WriteBackKeeps ==
    ASSUME IInv, NEW q \in Queries, WriteBack(q)
    PROVE  IInv'
<1>1. Alone(q) /\ pc'[q] = "idle" /\ pc[q] = "answered" /\ UNCHANGED cfg
  BY DEF IInv, Domains, WriteBack, Alone
<1>2. Rewritten(ctx[q]) /\ Sourced(ctx[q], resp[q])
  BY <1>1 DEF IInv, Linked
<1>3. /\ DOMAIN entry' = Names
      /\ \A k \in Names : k = ctx[q].key \/ entry'[k] = entry[k]
      /\ \/ UNCHANGED entry
         \/ Storable(resp[q]) /\ entry'[ctx[q].key] = Stored(resp[q])
  <2>1. \/ UNCHANGED entry
        \/ Storable(resp[q]) /\ entry' = [entry EXCEPT ![ctx[q].key] = Stored(resp[q])]
    BY DEF WriteBack
  <2>2. DOMAIN entry = Names /\ ctx[q].key \in Names
    BY <1>2 DEF IInv, Domains, Rewritten
  <2> QED  BY <2>1, <2>2
<1>4. Stored(resp[q]).src = resp[q].src
  BY DEF Stored
<1>5. Entries'
  <2> SUFFICES ASSUME NEW k \in Names, entry'[k] # Absent, from_utf8(k)
               PROVE  entry'[k].src.name = k
    BY <1>1 DEF Entries, from_utf8
  <2>1. CASE entry'[k] = entry[k]
    BY <2>1 DEF IInv, Entries
  <2>2. CASE entry'[k] # entry[k]
    BY <2>2, <1>2, <1>3, <1>4 DEF Sourced
  <2> QED  BY <2>1, <2>2
<1>6. Linked(q)'
  BY <1>1 DEF Linked, PCs
<1>7. \A p \in Queries : Linked(p)'
  BY <1>1, <1>6, OthersLinked DEF IInv
<1>8. Domains'
  BY <1>1, <1>3 DEF Domains, Alone
<1> QED  BY <1>5, <1>7, <1>8 DEF IInv

\* The environment moves no query.
LEMMA QuietKeeps ==
    ASSUME IInv, UNCHANGED <<cfg, pc, ctx, resp>>,
           UNCHANGED entry \/ \E k \in Names : Expire(k)
    PROVE  IInv'
<1>1. \A p \in Queries : Linked(p)'
  BY DEF IInv, Linked, Rewritten, Shaped, Sourced, Storable, Named, Restorable, from_utf8
<1>2. /\ DOMAIN entry' = Names
      /\ \A k \in Names : entry'[k] = entry[k] \/ entry'[k] = Absent
  BY DEF IInv, Domains, Expire
<1>3. Domains' /\ Entries'
  BY <1>2 DEF IInv, Domains, Entries, from_utf8
<1> QED  BY <1>1, <1>3 DEF IInv

LEMMA InitIInv == Init => IInv
BY DEF Init, IInv, Domains, Entries, Linked, PCs

LEMMA StepIInv == IInv /\ [Next]_vars => IInv'
<1> SUFFICES ASSUME IInv, [Next]_vars PROVE IInv'
  OBVIOUS
<1>1. ASSUME NEW q \in Queries, Stage(q) PROVE IInv'
  <2>1. CASE \E n \in Names : HostsAnswer(q, n) \/ CacheHit(q, n) \/ CacheMiss(q, n)
    BY <2>1, HostsAnswerKeeps, HitKeeps, MissKeeps
  <2>2. CASE Forwarded(q)
    BY <2>2, ForwardedKeeps
  <2>3. CASE Failed(q) \/ Local(q)
    BY <2>3, RespondKeeps DEF Failed, Local
  <2>4. CASE BalanceAndRestore(q)
    BY <2>4, FinishKeeps
  <2>5. CASE WriteBack(q)
    BY <2>5, WriteBackKeeps
  <2> QED  BY <1>1, <2>1, <2>2, <2>3, <2>4, <2>5 DEF Stage
<1>2. CASE \E k \in Names : Expire(k)
  BY <1>2, QuietKeeps DEF Expire
<1>3. CASE HostsReload \/ GroupsReload \/ UNCHANGED vars
  BY <1>3, QuietKeeps DEF HostsReload, GroupsReload, vars
<1> QED  BY <1>1, <1>2, <1>3 DEF Next

-----------------------------------------------------------------------------
(* The records                                                             *)

\* recs has no more records than the balance stage leaves, where it runs.
Capped(g, recs) ==
  BalanceOf(g).enabled /\ Balanced(g.qtype) /\ BalanceOf(g).max > 0 =>
    Len(recs) <= BalanceOf(g).max

\* What the cache holds, and a reply rebuilt from it: e has recs and src.
StoredWell(g, e) ==
  /\ DOMAIN e.src = SrcFields /\ e.recs \in Seq(Records) /\ e.src.recs \in Seq(Records)
  /\ \A i \in 1 .. Len(e.recs) : e.recs[i].type \in CacheTypes
  /\ ~e.src.skipped => Capped(g, e.recs)
  /\ ~e.src.skipped => Shuffled(e.recs, e.src.first) /\ Len(e.recs) = Len(e.src.first)
  /\ Best(g, e.recs, e.src.recs)
  /\ e.src.skipped => e.src.first = Cacheable(e.src.recs)
  /\ g.onhit => e.recs = e.src.first

\* A reply of an upstream that is ready to be stored.
FreshWell(g, e) ==
  /\ DOMAIN e.src = SrcFields /\ e.src.recs \in Seq(Records)
  /\ e.src.first = Cacheable(e.recs)
  /\ ~e.src.skipped => Capped(g, e.recs)
  /\ Shuffled(e.recs, e.src.recs)
  /\ Best(g, e.recs, e.src.recs)
  /\ e.src.skipped => e.recs = e.src.recs

Origins == {"hosts", "upstream", "failed", "local", "hit"}

\* The bit of the balance stage is that of the query's group.
Grouped(c) == c.group \in Flags /\ c.skip_balance = c.group.skip_balance

\* A response on its way to the balance stage.
Coming(g, c, r) ==
  /\ r.recs \in Seq(Records) /\ r.origin \in Origins
  /\ r.origin = "hosts" => ~c.skip_balance /\ r.src = NoSrc
  /\ r.origin \in {"upstream", "failed", "local"} => Grouped(c)
  /\ r.origin \in {"failed", "local"} => r.src = NoSrc
  /\ r.origin = "upstream" => r.src.recs = r.recs /\ r.src.skipped = c.group.skip_balance
  /\ r.origin = "hit" => c.skip_balance = g.onhit /\ StoredWell(g, r)

\* A reply.
Going(g, c, r) ==
  /\ r.origin \in Origins
  /\ r.origin = "hosts" => Capped(g, r.recs)
  /\ r.origin \in {"failed", "local"} /\ ~c.group.skip_balance => Capped(g, r.recs)
  /\ r.origin \in {"hosts", "failed", "local"} => r.src = NoSrc
  /\ r.origin = "upstream" => r.src.skipped = c.group.skip_balance /\ FreshWell(g, r)
  /\ r.origin = "hit" => StoredWell(g, r) /\ (~g.onhit => Capped(g, r.recs))

Carried(g, at, c, r) ==
  /\ at = "asking" => Grouped(c)
  /\ at = "responding" => Coming(g, c, r)
  /\ at = "answered" => Going(g, c, r)

CacheWell == \A k \in Names : entry[k] # Absent => StoredWell(cfg, entry[k])

RInv ==
  /\ cfg \in Configs /\ groups \in cfg.groups
  /\ CacheWell
  /\ \A q \in Queries : Carried(cfg, pc[q], ctx[q], resp[q])

\* The balance stage between a hit and its reply.
LEMMA HitHandled ==
    ASSUME NEW g \in Configs, NEW e, StoredWell(g, e),
           NEW recs \in handle(BalanceOf(g), e.recs, g.qtype, g.onhit),
           NEW f, f.recs = recs, f.src = e.src
    PROVE  StoredWell(g, f) /\ (~g.onhit => Capped(g, recs))
<1> DEFINE b == BalanceOf(g)
<1>1. Built(b) /\ g.onhit \in BOOLEAN
  BY BalanceBuilt, ConfigsAssumption DEF BalanceOf
<1>2. /\ e.recs \in Seq(Records) /\ Best(g, e.recs, e.src.recs)
      /\ DOMAIN f.src = SrcFields /\ f.src.recs \in Seq(Records)
  BY DEF StoredWell
<1>3. /\ Shuffled(recs, e.recs)
      /\ ~b.enabled \/ g.onhit \/ ~Balanced(g.qtype) => recs = e.recs
      /\ b.enabled /\ ~g.onhit /\ Balanced(g.qtype) /\ b.max > 0 => Len(recs) <= b.max
      /\ b.max = 0 \/ Len(e.recs) <= b.max => Len(recs) = Len(e.recs)
  BY <1>1, <1>2, HandleShuffles
<1>4. Best(g, recs, e.src.recs)
  BY <1>1, <1>2, BestHandled
<1>5. /\ recs \in Seq(Records) /\ Len(recs) \in Nat /\ Len(e.recs) \in Nat
      /\ Len(recs) <= Len(e.recs)
      /\ \A i \in 1 .. Len(recs) : recs[i].type = e.recs[i].type
  BY <1>2, <1>3 DEF Shuffled
<1>6. \A i \in 1 .. Len(recs) : recs[i].type \in CacheTypes
  <2>1. \A i \in 1 .. Len(e.recs) : e.recs[i].type \in CacheTypes
    BY DEF StoredWell
  <2> QED BY <1>5, <2>1
<1>7. ~e.src.skipped \/ ~g.onhit => Capped(g, recs)
  BY <1>3 DEF StoredWell, Capped
<1>8. ASSUME ~e.src.skipped
      PROVE  Shuffled(recs, e.src.first) /\ Len(recs) = Len(e.src.first)
  <2>1. Shuffled(e.recs, e.src.first) /\ Len(e.recs) = Len(e.src.first)
    BY <1>8 DEF StoredWell
  <2>2. Shuffled(recs, e.src.first)
    BY <1>3, <2>1, ShuffledTwice
  <2>3. CASE recs = e.recs
    BY <2>1, <2>2, <2>3
  <2>4. CASE recs # e.recs
    <3>1. b.enabled /\ Balanced(g.qtype)
      BY <1>3, <2>4
    <3>2. b.max = 0 \/ Len(e.recs) <= b.max
      BY <1>1, <1>8, <3>1 DEF StoredWell, Capped, Built
    <3> QED BY <1>3, <2>1, <2>2, <3>2
  <2> QED BY <2>3, <2>4
<1>9. g.onhit => recs = e.src.first
  BY <1>3 DEF StoredWell
<1>10. e.src.skipped => e.src.first = Cacheable(e.src.recs)
  BY DEF StoredWell
<1> QED BY <1>2, <1>4, <1>5, <1>6, <1>7, <1>8, <1>9, <1>10 DEF StoredWell

\* The balance stage between an upstream's answer and its reply.
LEMMA AnswerHandled ==
    ASSUME NEW g \in Configs, NEW skip, NEW s \in Seq(Records),
           NEW recs \in handle(BalanceOf(g), s, g.qtype, skip),
           NEW f, f.recs = recs, DOMAIN f.src = SrcFields, f.src.recs = s,
           f.src.first = Cacheable(recs), f.src.skipped = skip
    PROVE  FreshWell(g, f)
<1> DEFINE b == BalanceOf(g)
<1>1. Built(b)
  BY BalanceBuilt DEF BalanceOf
<1>2. /\ Shuffled(recs, s)
      /\ skip => recs = s
      /\ ~skip => Capped(g, recs)
  BY <1>1, HandleShuffles DEF Capped
<1>3. Best(g, recs, s)
  BY <1>1, BestOfAll, BestHandled
<1> QED BY <1>2, <1>3 DEF FreshWell

\* What write_back stores of a reply.
LEMMA HitStored ==
    ASSUME NEW g, NEW r, StoredWell(g, r)
    PROVE  StoredWell(g, Stored(r))
<1>1. Stored(r).recs = r.recs /\ Stored(r).src = r.src
  BY CacheableKeeps DEF Stored, StoredWell
<1> QED BY <1>1 DEF StoredWell

LEMMA FreshStored ==
    ASSUME NEW g \in Configs, NEW r, FreshWell(g, r)
    PROVE  StoredWell(g, Stored(r))
<1> DEFINE c == Cacheable(r.recs)
<1>1. r.recs \in Seq(Records)
  BY DEF FreshWell, Shuffled
<1>2. /\ c \in Seq(Records) /\ Len(c) <= Len(r.recs)
      /\ \A i \in 1 .. Len(c) :
           \E j \in 1 .. Len(r.recs) : c[i] = r.recs[j] /\ r.recs[j].type \in CacheTypes
  BY <1>1, CacheableKeeps
<1>3. Best(g, c, r.src.recs)
  BY <1>1, BestCacheable DEF FreshWell
<1>4. Stored(r).recs = c /\ Stored(r).src = r.src
  BY DEF Stored
<1>5. Shuffled(c, c)
  BY <1>2, ShuffledSelf
<1>6. r.src.skipped => c = Cacheable(r.src.recs)
  BY DEF FreshWell
<1>7. DOMAIN r.src = SrcFields /\ r.src.recs \in Seq(Records) /\ r.src.first = c
  BY DEF FreshWell
<1>8. ~r.src.skipped => Capped(g, c)
  <2>1. Built(BalanceOf(g))
    BY BalanceBuilt DEF BalanceOf
  <2>2. Len(c) \in Nat /\ Len(r.recs) \in Nat
    BY <1>1, <1>2
  <2> QED BY <1>2, <2>1, <2>2 DEF FreshWell, Capped, Built
<1> HIDE DEF c
<1>9. \A i \in 1 .. Len(c) : c[i].type \in CacheTypes
  BY <1>2
<1> QED BY <1>2, <1>3, <1>4, <1>5, <1>6, <1>7, <1>8, <1>9 DEF StoredWell

-----------------------------------------------------------------------------
(* The records, step by step                                               *)

\* The bit of the balance stage is that of the group found now.
LEMMA PreparedBit ==
    ASSUME cfg \in Configs, groups \in cfg.groups, NEW n \in Names
    PROVE  Grouped(Prepared(n))
<1>1. Target[n] \in Names
  BY TargetAssumption
<1>2. ASSUME NEW c, DOMAIN c = Fields, c.key \in Names, c.skip_balance = FALSE,
             Prepared(n) = WithGroup(c)
      PROVE  Grouped(Prepared(n))
  <2> DEFINE f == groups[c.key]
  <2>1. f \in Flags /\ f.skip_balance \in BOOLEAN
    <3>1. groups \in [Names -> Flags]
      BY ConfigsAssumption
    <3> QED BY <1>2, <3>1 DEF Flags
  <2>2. WithGroup(c).group = f /\ WithGroup(c).skip_balance = (c.skip_balance \/ f.skip_balance)
    BY <1>2 DEF WithGroup, Fields
  <2> HIDE DEF f
  <2>3. (c.skip_balance \/ f.skip_balance) = f.skip_balance
    BY <1>2, <2>1
  <2> QED BY <1>2, <2>1, <2>2, <2>3 DEF Grouped
<1>3. /\ DOMAIN NewCtx(n) = Fields /\ NewCtx(n).key = n
      /\ NewCtx(n).skip_balance = FALSE
  BY DEF NewCtx, Fields
<1>4. /\ DOMAIN Aliased(n) = Fields /\ Aliased(n).key = Target[n]
      /\ Aliased(n).skip_balance = FALSE
  <2> DEFINE d == rewrite_name(NewCtx(n), Target[n])
  <2>1. DOMAIN d = Fields /\ d.key = Target[n] /\ d.skip_balance = FALSE
    BY DEF rewrite_name, NewCtx, Fields
  <2> HIDE DEF d
  <2>2. Aliased(n) = [d EXCEPT !.original_name = n]
    BY DEF Aliased, d
  <2> QED BY <2>1, <2>2 DEF Fields
<1>5. Prepared(n) = WithGroup(IF hosts[n] = "alias" THEN Aliased(n) ELSE NewCtx(n))
  BY DEF Prepared
<1>6. CASE hosts[n] = "alias"
  BY <1>1, <1>2, <1>4, <1>5, <1>6
<1>7. CASE hosts[n] # "alias"
  BY <1>2, <1>3, <1>5, <1>7
<1> QED BY <1>6, <1>7

\* A step of q carries the records of the others on.
LEMMA StepOfCarrier ==
    ASSUME RInv, NEW q \in Queries, Alone(q), UNCHANGED groups, CacheWell',
           Carried(cfg, pc'[q], ctx'[q], resp'[q])
    PROVE  RInv'
<1>1. cfg' = cfg
  BY DEF Alone
<1>2. \A p \in Queries : Carried(cfg, pc'[p], ctx'[p], resp'[p])
  BY DEF RInv, Alone
<1> QED BY <1>1, <1>2 DEF RInv

LEMMA CacheStays ==
    ASSUME RInv, UNCHANGED <<cfg, entry>>
    PROVE  CacheWell'
BY DEF RInv, CacheWell

LEMMA HostsAnswerCarries ==
    ASSUME IInv, RInv, NEW q \in Queries, NEW n \in Names, HostsAnswer(q, n)
    PROVE  RInv'
<1> DEFINE c == NewCtx(n)
           r == Response(NewCtx(n), "hosts", HostRecs, NoSrc)
<1>1. Alone(q) /\ UNCHANGED <<groups, entry>>
  BY DEF IInv, Domains, HostsAnswer, Alone
<1>2. ctx'[q] = c /\ resp'[q] = r /\ pc'[q] = "responding" /\ UNCHANGED cfg
  BY DEF IInv, Domains, HostsAnswer
<1>3. c.skip_balance = FALSE
  BY DEF NewCtx
<1>4. r.origin = "hosts" /\ r.recs = HostRecs /\ r.src = NoSrc
  BY ResponseProps
<1> HIDE DEF c, r
<1>5. Carried(cfg, pc'[q], ctx'[q], resp'[q])
  BY <1>2, <1>3, <1>4, RecordsAssumption DEF Carried, Coming, Origins
<1> QED BY <1>1, <1>2, <1>5, CacheStays, StepOfCarrier

LEMMA HitCarries ==
    ASSUME IInv, RInv, NEW q \in Queries, NEW n \in Names, CacheHit(q, n)
    PROVE  RInv'
<1> DEFINE b == Prepared(n)
           c == [b EXCEPT !.skip_balance = cfg.onhit]
           e == entry[b.key]
           r == Response(b, "hit", e.recs, e.src)
<1>1. Alone(q) /\ UNCHANGED <<groups, entry>>
  BY DEF IInv, Domains, CacheHit, Found, Alone
<1>2. /\ ctx'[q] = c /\ resp'[q] = r /\ pc'[q] = "responding" /\ UNCHANGED cfg
      /\ entry[b.key] # Absent
  BY DEF IInv, Domains, CacheHit, Found
<1>3. DOMAIN b = Fields /\ b.key \in Names
  BY PreparedNames DEF Rewritten
<1>4. r.origin = "hit" /\ r.recs = e.recs /\ r.src = e.src
  BY ResponseProps
<1> HIDE DEF b
<1>5. c.key = b.key /\ c.skip_balance = cfg.onhit
  BY <1>3 DEF Fields
<1>6. StoredWell(cfg, e)
  BY <1>2, <1>3 DEF RInv, CacheWell
<1> HIDE DEF c, r, e
<1>7. StoredWell(cfg, r) /\ r.recs \in Seq(Records)
  BY <1>4, <1>5, <1>6 DEF StoredWell
<1>8. Carried(cfg, pc'[q], ctx'[q], resp'[q])
  BY <1>2, <1>4, <1>5, <1>7 DEF Carried, Coming, Origins
<1> QED BY <1>1, <1>2, <1>8, CacheStays, StepOfCarrier

LEMMA MissCarries ==
    ASSUME IInv, RInv, NEW q \in Queries, NEW n \in Names, CacheMiss(q, n)
    PROVE  RInv'
<1>1. Alone(q) /\ UNCHANGED <<groups, entry>>
  BY DEF IInv, Domains, CacheMiss, Alone
<1>2. ctx'[q] = Prepared(n) /\ pc'[q] = "asking" /\ UNCHANGED cfg
  BY DEF IInv, Domains, CacheMiss
<1>3. Carried(cfg, pc'[q], ctx'[q], resp'[q])
  BY <1>2, PreparedBit DEF RInv, Carried
<1> QED BY <1>1, <1>2, <1>3, CacheStays, StepOfCarrier

LEMMA RespondCarries ==
    ASSUME IInv, RInv, NEW q \in Queries, NEW origin, NEW recs \in Seq(Records), NEW src,
           Respond(q, origin, recs, src),
           \/ origin \in {"failed", "local"} /\ src = NoSrc
           \/ /\ origin = "upstream"
              /\ src.recs = recs /\ src.skipped = ctx[q].group.skip_balance
    PROVE  RInv'
<1> DEFINE r == Response(ctx[q], origin, recs, src)
<1>1. Alone(q) /\ UNCHANGED <<groups, entry>>
  BY DEF IInv, Domains, Respond, Alone
<1>2. /\ ctx' = ctx /\ resp'[q] = r /\ pc'[q] = "responding" /\ UNCHANGED cfg
      /\ pc[q] = "asking"
  BY DEF IInv, Domains, Respond
<1>3. r.origin = origin /\ r.recs = recs /\ r.src = src
  BY ResponseProps
<1> HIDE DEF r
<1>4. Grouped(ctx[q])
  BY <1>2 DEF RInv, Carried
<1>5. Carried(cfg, pc'[q], ctx'[q], resp'[q])
  BY <1>2, <1>3, <1>4 DEF Carried, Coming, Origins
<1> QED BY <1>1, <1>2, <1>5, CacheStays, StepOfCarrier

LEMMA RulesCarry ==
    ASSUME IInv, RInv, NEW q \in Queries, Forwarded(q) \/ Failed(q) \/ Local(q)
    PROVE  RInv'
<1>1. CASE Forwarded(q)
  <2> DEFINE n == ctx[q].question
             src == [name |-> n, recs |-> Zone[n], skipped |-> ctx[q].group.skip_balance,
                   first |-> Cacheable(Zone[n])]
  <2>1. /\ Respond(q, "upstream", Zone[n], src) /\ pc[q] = "asking"
        /\ src.recs = Zone[n] /\ src.skipped = ctx[q].group.skip_balance
    BY <1>1 DEF Forwarded, Respond
  <2>2. n \in Names
    BY <2>1 DEF IInv, Linked, Rewritten
  <2>3. Zone[n] \in Seq(Records)
    BY <2>2, RecordsAssumption
  <2> HIDE DEF n, src
  <2> QED BY <2>1, <2>3, RespondCarries
<1>2. CASE Failed(q)
  <2>1. << >> \in Seq(Records)
    OBVIOUS
  <2>2. Respond(q, "failed", << >>, NoSrc)
    BY <1>2 DEF Failed
  <2> QED BY <2>1, <2>2, RespondCarries
<1>3. CASE Local(q)
  BY <1>3, RecordsAssumption, RespondCarries DEF Local
<1> QED BY <1>1, <1>2, <1>3

LEMMA FinishCarries ==
    ASSUME IInv, RInv, NEW q \in Queries, BalanceAndRestore(q)
    PROVE  RInv'
<1> DEFINE c == ctx[q]
           r == resp[q]
<1>0. Domains /\ cfg \in Configs
  BY DEF IInv, RInv
<1>1. PICK recs \in handle(BalanceOf(cfg), r.recs, cfg.qtype, c.skip_balance) :
        resp' = [resp EXCEPT ![q] = Reply(c, r, recs)]
  BY DEF BalanceAndRestore, Finished, Reply, balance, BalanceOf
<1>2. /\ pc[q] = "responding" /\ pc' = [pc EXCEPT ![q] = "answered"]
      /\ UNCHANGED <<cfg, groups, entry, ctx>>
  BY DEF BalanceAndRestore, Finished
<1>3. Alone(q)
  BY <1>0, <1>1, <1>2 DEF Domains, Alone
<1> DEFINE t == Reply(c, r, recs)
<1>4. Rewritten(c) /\ Shaped(r) /\ Named(c, r) /\ c.key \in Names
  BY <1>2 DEF IInv, Linked, Rewritten
<1>5. Shaped(t) /\ t.origin = r.origin /\ t.recs = recs /\ t.src = Remember(r, recs)
  BY <1>4, RestoredProps
<1>6. resp'[q] = t /\ pc'[q] = "answered" /\ ctx'[q] = c
  BY <1>0, <1>1, <1>2 DEF Domains
<1>7. Coming(cfg, c, r) /\ r.recs \in Seq(Records) /\ r.origin \in Origins
  BY <1>2 DEF RInv, Carried, Coming
<1> HIDE DEF t
<1>8. r.origin # "upstream" => t.src = r.src
  BY <1>5 DEF Remember
<1>9. ~c.skip_balance => Capped(cfg, recs)
  <2>1. Built(BalanceOf(cfg))
    BY <1>0, BalanceBuilt DEF BalanceOf
  <2> QED BY <1>1, <1>7, <2>1, HandleShuffles DEF Capped
<1>10. ASSUME r.origin = "hosts"
       PROVE  Going(cfg, c, t)
  BY <1>5, <1>7, <1>8, <1>9, <1>10 DEF Coming, Going
<1>11. ASSUME r.origin \in {"failed", "local"}
       PROVE  Going(cfg, c, t)
  BY <1>5, <1>7, <1>8, <1>9, <1>11 DEF Coming, Going, Grouped
<1>12. ASSUME r.origin = "upstream"
       PROVE  Going(cfg, c, t)
  <2>1. /\ c.skip_balance = c.group.skip_balance
        /\ r.src.recs = r.recs /\ r.src.skipped = c.group.skip_balance
    BY <1>7, <1>12 DEF Coming, Grouped
  <2>2. /\ DOMAIN t.src = SrcFields /\ t.src.recs = r.recs /\ t.src.first = Cacheable(recs)
        /\ t.src.skipped = c.skip_balance
    BY <1>4, <1>5, <1>12, <2>1 DEF Remember, Shaped, SrcFields
  <2>3. FreshWell(cfg, t)
    BY <1>0, <1>1, <1>5, <1>7, <2>2, AnswerHandled
  <2> QED BY <1>5, <1>7, <1>12, <2>1, <2>2, <2>3 DEF Going
<1>13. ASSUME r.origin = "hit"
       PROVE  Going(cfg, c, t)
  <2>1. c.skip_balance = cfg.onhit /\ StoredWell(cfg, r)
    BY <1>7, <1>13 DEF Coming
  <2>2. StoredWell(cfg, t) /\ (~cfg.onhit => Capped(cfg, recs))
    BY <1>0, <1>1, <1>5, <1>8, <1>13, <2>1, HitHandled
  <2> QED BY <1>5, <1>7, <1>13, <2>2 DEF Going, StoredWell
<1>14. Going(cfg, c, t)
  BY <1>7, <1>10, <1>11, <1>12, <1>13 DEF Origins
<1>15. Carried(cfg, pc'[q], ctx'[q], resp'[q])
  BY <1>6, <1>14 DEF Carried
<1> QED BY <1>2, <1>3, <1>15, CacheStays, StepOfCarrier

LEMMA WriteBackCarries ==
    ASSUME IInv, RInv, NEW q \in Queries, WriteBack(q)
    PROVE  RInv'
<1> DEFINE k == ctx[q].key
<1>1. /\ Alone(q) /\ pc'[q] = "idle" /\ pc[q] = "answered"
      /\ UNCHANGED <<cfg, groups>>
  BY DEF IInv, Domains, WriteBack, Alone
<1>2. k \in Names /\ Going(cfg, ctx[q], resp[q]) /\ cfg \in Configs
  BY <1>1 DEF IInv, Linked, Rewritten, RInv, Carried
<1>3. \/ UNCHANGED entry
      \/ Storable(resp[q]) /\ entry' = [entry EXCEPT ![k] = Stored(resp[q])]
  BY DEF WriteBack
<1>4. ASSUME Storable(resp[q])
      PROVE  StoredWell(cfg, Stored(resp[q]))
  BY <1>2, <1>4, HitStored, FreshStored DEF Storable, Going
<1>5. CacheWell'
  <2>1. CASE UNCHANGED entry
    BY <1>1, <2>1, CacheStays
  <2>2. CASE Storable(resp[q]) /\ entry' = [entry EXCEPT ![k] = Stored(resp[q])]
    <3>1. DOMAIN entry = Names
      BY DEF IInv, Domains
    <3>2. entry'[k] = Stored(resp[q]) /\ \A l \in Names \ {k} : entry'[l] = entry[l]
      BY <1>2, <2>2, <3>1
    <3>3. \A l \in Names : entry'[l] # Absent => StoredWell(cfg, entry'[l])
      BY <1>4, <2>2, <3>2 DEF RInv, CacheWell
    <3> QED BY <1>1, <3>3 DEF CacheWell
  <2> QED BY <1>3, <2>1, <2>2
<1>6. Carried(cfg, pc'[q], ctx'[q], resp'[q])
  BY <1>1 DEF Carried
<1> QED BY <1>1, <1>5, <1>6, StepOfCarrier

LEMMA QuietCarries ==
    ASSUME IInv, RInv, UNCHANGED <<cfg, pc, ctx, resp>>, groups' \in cfg.groups,
           UNCHANGED entry \/ \E k \in Names : Expire(k)
    PROVE  RInv'
<1>1. \A k \in Names : entry'[k] = entry[k] \/ entry'[k] = Absent
  BY DEF IInv, Domains, Expire
<1>2. CacheWell'
  BY <1>1 DEF RInv, CacheWell
<1> QED BY <1>2 DEF RInv

LEMMA InitRInv == Init => RInv
BY DEF Init, RInv, CacheWell, Carried

LEMMA StepRInv == IInv /\ RInv /\ [Next]_vars => RInv'
<1> SUFFICES ASSUME IInv, RInv, [Next]_vars PROVE RInv'
  OBVIOUS
<1>1. ASSUME NEW q \in Queries, Stage(q) PROVE RInv'
  BY <1>1, HostsAnswerCarries, HitCarries, MissCarries, RulesCarry, FinishCarries,
     WriteBackCarries DEF Stage
<1>2. CASE \E k \in Names : Expire(k)
  BY <1>2, QuietCarries DEF Expire, RInv
<1>3. CASE HostsReload \/ GroupsReload \/ UNCHANGED vars
  BY <1>3, QuietCarries DEF HostsReload, GroupsReload, vars, RInv
<1> QED  BY <1>1, <1>2, <1>3 DEF Next

LEMMA RecordsInvariant == Spec => []RInv
BY InitIInv, StepIInv, InitRInv, StepRInv, PTL DEF Spec

-----------------------------------------------------------------------------
(* The theorem                                                             *)

LEMMA LinkedNames == IInv => NamesMatch
BY DEF IInv, Entries, Linked, Restorable, NamesMatch

\* Whatever the hosts tables say while queries run, whether a query is an alias,
\* hits the cache or is answered by the rules, the cache holds under a name what
\* an upstream said about it, and the client reads the name it asked for.
THEOREM NamesAgree == Spec => []NamesMatch
BY InitIInv, StepIInv, LinkedNames, PTL DEF Spec

\* A hit and an upstream's answer alone carry a source.
LEMMA SourceTold ==
    ASSUME RInv, NEW q \in Queries, pc[q] = "answered"
    PROVE  /\ Going(cfg, ctx[q], resp[q]) /\ resp[q].origin \in Origins
           /\ resp[q].src # NoSrc => resp[q].origin \in {"upstream", "hit"}
BY DEF RInv, Carried, Going, Origins

LEMMA RInvCaps == RInv => CapKept
<1> SUFFICES ASSUME RInv, NEW q \in Queries, pc[q] = "answered", ToCut(q)
             PROVE  Len(resp[q].recs) <= balance.max
  BY DEF CapKept
<1> DEFINE r == resp[q]
<1>1. Going(cfg, ctx[q], r) /\ r.origin \in Origins
  BY SourceTold
<1>2. /\ balance.enabled /\ Balanced(cfg.qtype) /\ balance.max > 0
      /\ r.origin = "hit" => ~cfg.onhit \/ ~r.src.skipped
      /\ r.origin \notin {"hosts", "hit"} => ~ctx[q].group.skip_balance
  BY DEF ToCut
<1> HIDE DEF r
<1>3. Capped(cfg, r.recs)
  <2>1. CASE r.origin \in {"hosts", "failed", "local"}
    BY <1>1, <1>2, <2>1 DEF Going
  <2>2. CASE r.origin = "upstream"
    BY <1>1, <1>2, <2>2 DEF Going, FreshWell
  <2>3. CASE r.origin = "hit"
    BY <1>1, <1>2, <2>3 DEF Going, StoredWell
  <2> QED BY <1>1, <2>1, <2>2, <2>3 DEF Origins
<1> QED BY <1>2, <1>3 DEF Capped, BalanceOf, balance, r

LEMMA RInvKeepsRecords == RInv => RecordsKept
<1> SUFFICES ASSUME RInv, NEW q \in Queries, pc[q] = "answered"
             PROVE  LET r == resp[q] IN
               /\ r.origin = "upstream" => Rearranged(r.recs, r.src.recs)
               /\ /\ r.origin = "hit"
                  /\ cfg.onhit \/ ~r.src.skipped
                  => Rearranged(r.recs, r.src.first) /\ Len(r.recs) = Len(r.src.first)
  BY DEF RecordsKept
<1>1. Going(cfg, ctx[q], resp[q])
  BY SourceTold
<1>2. resp[q].origin = "upstream" => Shuffled(resp[q].recs, resp[q].src.recs)
  BY <1>1 DEF Going, FreshWell
<1>3. ASSUME resp[q].origin = "hit", cfg.onhit \/ ~resp[q].src.skipped
      PROVE  /\ Shuffled(resp[q].recs, resp[q].src.first)
             /\ Len(resp[q].recs) = Len(resp[q].src.first)
  <2>1. StoredWell(cfg, resp[q])
    BY <1>1, <1>3 DEF Going
  <2>2. CASE ~resp[q].src.skipped
    BY <2>1, <2>2 DEF StoredWell
  <2>3. CASE cfg.onhit
    BY <2>1, <2>3, ShuffledSelf DEF StoredWell
  <2> QED BY <1>3, <2>2, <2>3
<1> QED BY <1>2, <1>3, ShuffledRearranges

LEMMA RInvKeepsBest == RInv => BestKept
<1> SUFFICES ASSUME RInv, NEW q \in Queries, pc[q] = "answered", resp[q].src # NoSrc,
                    NEW i \in DOMAIN resp[q].src.recs,
                    resp[q].src.recs[i].type \in families(cfg.qtype),
                    ~InSeq(resp[q].src.recs[i], resp[q].recs),
                    NEW j \in DOMAIN resp[q].recs,
                    resp[q].recs[j].type = resp[q].src.recs[i].type
             PROVE  rank(balance, resp[q].recs[j]) <= rank(balance, resp[q].src.recs[i])
  BY DEF BestKept
<1> DEFINE s == resp[q].recs
           all == resp[q].src.recs
<1>1. Going(cfg, ctx[q], resp[q]) /\ resp[q].origin \in {"upstream", "hit"}
  BY SourceTold
<1>2. s \in Seq(Records) /\ all \in Seq(Records) /\ Best(cfg, s, all)
  BY <1>1 DEF Going, FreshWell, StoredWell, Shuffled
<1>3. i \in 1 .. Len(all) /\ j \in 1 .. Len(s) /\ \A k \in 1 .. Len(s) : s[k] # all[i]
  BY <1>2 DEF InSeq
<1>4. rank(BalanceOf(cfg), s[j]) <= rank(BalanceOf(cfg), all[i])
  <2> HIDE DEF s, all
  <2>1. all[i].type \in families(cfg.qtype) /\ s[j].type = all[i].type
    BY DEF s, all
  <2> QED BY <1>2, <1>3, <2>1 DEF Best
<1> QED BY <1>4 DEF BalanceOf, balance

LEMMA RInvSkips == RInv => SkipHonoured
<1> SUFFICES ASSUME RInv, NEW q \in Queries, pc[q] = "answered"
             PROVE  LET r == resp[q] IN
               /\ r.origin = "upstream" /\ ctx[q].group.skip_balance => r.recs = r.src.recs
               /\ r.origin = "hit" /\ cfg.onhit =>
                    /\ r.recs = r.src.first
                    /\ r.src.skipped => r.recs = Cacheable(r.src.recs)
  BY DEF SkipHonoured
<1>1. Going(cfg, ctx[q], resp[q])
  BY SourceTold
<1>2. resp[q].origin = "upstream" /\ ctx[q].group.skip_balance =>
        resp[q].recs = resp[q].src.recs
  BY <1>1 DEF Going, FreshWell
<1>3. resp[q].origin = "hit" => StoredWell(cfg, resp[q])
  BY <1>1 DEF Going
<1>4. resp[q].origin = "hit" /\ cfg.onhit =>
        /\ resp[q].recs = resp[q].src.first
        /\ resp[q].src.skipped => resp[q].recs = Cacheable(resp[q].src.recs)
  BY <1>3 DEF StoredWell
<1> QED BY <1>2, <1>4

\* max_answers bounds every reply it is meant for, from the cache as well, where
\* the balance stage may not run, and however names join and leave groups while
\* their entries are cached: what write_back stores is cut already, unless a
\* group with skip_balance had it fetched.
THEOREM CapIsKept == Spec => []CapKept
BY RecordsInvariant, RInvCaps, PTL

\* However often hits are balanced and stored again, a reply has the records the
\* upstream sent, none twice and each type in its places, and a hit as many as
\* the reply that was stored first.
THEOREM RecordsAreKept == Spec => []RecordsKept
BY RecordsInvariant, RInvKeepsRecords, PTL

\* The cap drops no address that the CIDR list prefers to a kept one.
THEOREM BestAreKept == Spec => []BestKept
BY RecordsInvariant, RInvKeepsBest, PTL

\* A query of a group with skip_balance gets what the upstream sent, and where
\* hits are not balanced, a hit gets the records of the reply that first stored
\* them in their order, whichever groups the name joins and leaves meanwhile.
THEOREM SkipIsHonoured == Spec => []SkipHonoured
BY RecordsInvariant, RInvSkips, PTL
=============================================================================
