------------------------------- MODULE Ordering -------------------------------
(***************************************************************************)
(* Sorting and filtering as the code asks the standard library for them,   *)
(* stated by position: the k-th element is the one with k - 1 before it.   *)
(***************************************************************************)
EXTENDS Integers, Sequences, FiniteSets

\* What stands before x in S, where R holds the pairs <<earlier, later>>.
Earlier(S, R, x) == {y \in S : <<y, x>> \in R}

\* The elements of S in the order R, which is strict and total on S.
Listed(S, R) ==
  [k \in 1 .. Cardinality(S) |->
     CHOOSE x \in S : Cardinality(Earlier(S, R, x)) = k - 1]

\* The same, evaluated once for what S and R are computed from.
Ordered(S, R) == CHOOSE o \in {Listed(T, Q) : T \in {S}, Q \in {R}} : TRUE

\* Positions in ascending order.
Ascending(I) == Ordered(I, {p \in I \X I : p[1] < p[2]})

\* The order a stable sort by `key` puts the positions of key in.
StableOrder(key) ==
  LET I == 1 .. Len(key) IN
  Ordered(I, {p \in I \X I : \/ key[p[1]] < key[p[2]]
                             \/ key[p[1]] = key[p[2]] /\ p[1] < p[2]})

\* The elements of s at the positions I, in their order: a filter.
Picked(s, I) ==
  LET a == Ascending(I) IN [k \in 1 .. Cardinality(I) |-> s[a[k]]]
=============================================================================
