-------------------------------- MODULE Orders --------------------------------
(***************************************************************************)
(* A finite set in the order of a relation: what sorted() makes of rows    *)
(* whose keys differ.  The element of rank n is the one with n - 1         *)
(* elements before it; the lemmas say that there is one, and that every    *)
(* element has its rank.  Then sequences joined and numbers summed.        *)
(***************************************************************************)
EXTENDS Integers, FiniteSets, Sequences, FiniteSetTheorems, WellFoundedInduction, TLAPS

\* The value of x: TLC evaluates it here, and not at every use.
Value(x) == CHOOSE y \in {x} : y = x

\* R holds of x and y when x comes before y.
Preceding(x, S, R) == {y \in S : <<y, x>> \in R}
Ordered(S, R) ==
    [n \in 1 .. Cardinality(S) |-> CHOOSE x \in S : Cardinality(Preceding(x, S, R)) = n - 1]

\* Numbers by size.
Increasing(S) == {p \in S \X S : p[1] < p[2]}
Ascending(S) == Ordered(S, Increasing(S))
\* Positions by their keys, and by position where keys are equal: a stable sort.
Stable(D, keys) == {p \in D \X D : keys[p[1]] < keys[p[2]]
                                   \/ (keys[p[1]] = keys[p[2]] /\ p[1] < p[2])}
\* The members of a sequence at some of its positions.
Picked(s, I) == [n \in 1 .. Cardinality(I) |-> s[Ascending(I)[n]]]

\* Sequences one after the other, and the sum of f over a finite set.
Joined(ss) ==
    LET all[i \in 0 .. Len(ss)] == IF i = 0 THEN << >> ELSE all[i - 1] \o ss[i]
    IN  all[Len(ss)]
Summed(s) ==
    LET sum[i \in 0 .. Len(s)] == IF i = 0 THEN 0 ELSE sum[i - 1] + s[i]
    IN  sum[Len(s)]
SumOver(f, S) ==
    LET sum[T \in SUBSET S] ==
            IF T = {} THEN 0 ELSE LET x == CHOOSE x \in T : TRUE IN f[x] + sum[T \ {x}]
    IN  sum[S]

Smallest(S) == CHOOSE x \in S : \A y \in S : x <= y
Largest(S) == CHOOSE x \in S : \A y \in S : x >= y

IsOrder(R, S) ==
    /\ \A x \in S : <<x, x>> \notin R
    /\ \A x, y, z \in S : <<x, y>> \in R /\ <<y, z>> \in R => <<x, z>> \in R
    /\ \A x, y \in S : x # y => <<x, y>> \in R \/ <<y, x>> \in R

-----------------------------------------------------------------------------
\* A set of naturals that is not empty has a least element.
LEMMA LeastNat ==
    ASSUME NEW T, T \subseteq Nat, T # {}
    PROVE  \E n \in T : \A m \in T : n <= m
  <1> DEFINE R == OpToRel(<, Nat)
  <1>1. IsWellFoundedOn(R, Nat)
    BY NatLessThanWellFounded
  <1>2. \A x, y \in Nat : x < y => <<x, y>> \in R
    BY DEF OpToRel
  <1> HIDE DEF R
  <1>3. PICK n \in T : \A m \in T : ~(<<m, n>> \in R)
    BY <1>1, WFMin
  <1>4. ASSUME NEW m \in T PROVE n <= m
    <2>1. n \in Nat /\ m \in Nat /\ ~(m < n)
      BY <1>2, <1>3
    <2> QED
      BY <2>1
  <1> QED
    BY <1>4

LEMMA PrecedingFinite ==
    ASSUME NEW S, IsFiniteSet(S), NEW R, NEW x
    PROVE  /\ IsFiniteSet(Preceding(x, S, R))
           /\ Cardinality(Preceding(x, S, R)) \in Nat
           /\ Preceding(x, S, R) \subseteq S
  <1>1. Preceding(x, S, R) \subseteq S
    BY DEF Preceding
  <1> QED
    BY <1>1, FS_Subset, FS_CardinalityType

\* An element before another one has fewer elements before it.
LEMMA RankGrows ==
    ASSUME NEW S, IsFiniteSet(S), NEW R, IsOrder(R, S),
           NEW x \in S, NEW y \in S, <<x, y>> \in R
    PROVE  Cardinality(Preceding(x, S, R)) < Cardinality(Preceding(y, S, R))
  <1>1. Preceding(x, S, R) \subseteq Preceding(y, S, R)
    BY DEF Preceding, IsOrder
  <1>2. x \in Preceding(y, S, R) /\ x \notin Preceding(x, S, R)
    BY DEF Preceding, IsOrder
  <1>3. IsFiniteSet(Preceding(y, S, R)) /\ Cardinality(Preceding(y, S, R)) \in Nat
        /\ Cardinality(Preceding(x, S, R)) \in Nat
    BY PrecedingFinite
  <1>4. /\ Cardinality(Preceding(x, S, R)) <= Cardinality(Preceding(y, S, R))
        /\ Cardinality(Preceding(x, S, R)) # Cardinality(Preceding(y, S, R))
    BY <1>1, <1>2, <1>3, FS_Subset
  <1> QED
    BY <1>3, <1>4

LEMMA RankDecides ==
    ASSUME NEW S, IsFiniteSet(S), NEW R, IsOrder(R, S), NEW x \in S, NEW y \in S
    PROVE  /\ <<x, y>> \in R <=> Cardinality(Preceding(x, S, R)) < Cardinality(Preceding(y, S, R))
           /\ Cardinality(Preceding(x, S, R)) = Cardinality(Preceding(y, S, R)) => x = y
  <1>1. Cardinality(Preceding(x, S, R)) \in Nat /\ Cardinality(Preceding(y, S, R)) \in Nat
    BY PrecedingFinite
  <1>2. <<x, y>> \in R => Cardinality(Preceding(x, S, R)) < Cardinality(Preceding(y, S, R))
    BY RankGrows
  <1>3. <<y, x>> \in R => Cardinality(Preceding(y, S, R)) < Cardinality(Preceding(x, S, R))
    BY RankGrows
  <1>4. x # y => <<x, y>> \in R \/ <<y, x>> \in R
    BY DEF IsOrder
  <1> QED
    BY <1>1, <1>2, <1>3, <1>4

\* Every element has a rank from 1 to the size of the set, and every rank an element.
LEMMA RankHit ==
    ASSUME NEW S, IsFiniteSet(S), NEW R, IsOrder(R, S)
    PROVE  /\ \A x \in S : Cardinality(Preceding(x, S, R)) \in 0 .. Cardinality(S) - 1
           /\ \A k \in 0 .. Cardinality(S) - 1 :
                  \E x \in S : Cardinality(Preceding(x, S, R)) = k
  <1> DEFINE n == Cardinality(S)
             f == [x \in S |-> Cardinality(Preceding(x, S, R))]
             T == 0 .. n - 1
  <1>1. n \in Nat
    BY FS_CardinalityType
  <1>2. ASSUME NEW x \in S PROVE Cardinality(Preceding(x, S, R)) \in T
    <2>1. Preceding(x, S, R) \subseteq S /\ x \notin Preceding(x, S, R)
      BY DEF Preceding, IsOrder
    <2>2. Cardinality(Preceding(x, S, R)) <= n /\ Cardinality(Preceding(x, S, R)) # n
      BY <2>1, FS_Subset
    <2>3. Cardinality(Preceding(x, S, R)) \in Nat
      BY PrecedingFinite
    <2> QED
      BY <1>1, <2>2, <2>3
  <1>3. f \in [S -> T]
    BY <1>2
  <1>4. ASSUME NEW x \in S, NEW y \in S, f[x] = f[y] PROVE x = y
    <2>1. Cardinality(Preceding(x, S, R)) = Cardinality(Preceding(y, S, R))
      BY <1>4
    <2> HIDE DEF f
    <2> QED
      BY <2>1, RankDecides
  <1>5. f \in Injection(S, T)
    BY <1>3, <1>4 DEF Injection, IsInjective
  <1>6. IsFiniteSet(T) /\ Cardinality(T) = n
    BY <1>1, FS_Interval
  <1>7. f \in Surjection(S, T)
    BY <1>5, <1>6, FS_Injection
  <1>8. ASSUME NEW k \in T PROVE \E x \in S : Cardinality(Preceding(x, S, R)) = k
    BY <1>7 DEF Surjection
  <1> QED
    BY <1>2, <1>8

\* What a sorted sequence is: the elements of the set, each once, none before an earlier one.
LEMMA OrderedRank ==
    ASSUME NEW S, IsFiniteSet(S), NEW R, IsOrder(R, S)
    PROVE  /\ Cardinality(S) \in Nat
           /\ \A n \in 1 .. Cardinality(S) :
                  /\ Ordered(S, R)[n] \in S
                  /\ Cardinality(Preceding(Ordered(S, R)[n], S, R)) = n - 1
  <1>1. Cardinality(S) \in Nat
    BY FS_CardinalityType
  <1>2. ASSUME NEW n \in 1 .. Cardinality(S)
        PROVE  /\ Ordered(S, R)[n] \in S
               /\ Cardinality(Preceding(Ordered(S, R)[n], S, R)) = n - 1
    <2>1. n - 1 \in 0 .. Cardinality(S) - 1
      BY <1>1
    <2>2. \E x \in S : Cardinality(Preceding(x, S, R)) = n - 1
      BY <2>1, RankHit
    <2>3. Ordered(S, R)[n] = CHOOSE x \in S : Cardinality(Preceding(x, S, R)) = n - 1
      BY DEF Ordered
    <2> QED
      BY <2>2, <2>3
  <1> QED
    BY <1>1, <1>2

LEMMA OrderedSorts ==
    ASSUME NEW S, IsFiniteSet(S), NEW R, IsOrder(R, S)
    PROVE  /\ Ordered(S, R) \in Seq(S) /\ Len(Ordered(S, R)) = Cardinality(S)
           /\ DOMAIN Ordered(S, R) = 1 .. Cardinality(S) /\ Cardinality(S) \in Nat
           /\ \A m, n \in 1 .. Cardinality(S) :
                  /\ m < n <=> <<Ordered(S, R)[m], Ordered(S, R)[n]>> \in R
                  /\ Ordered(S, R)[m] = Ordered(S, R)[n] => m = n
           /\ \A x \in S : \E n \in 1 .. Cardinality(S) : Ordered(S, R)[n] = x
  <1> DEFINE o == Ordered(S, R)
             N == Cardinality(S)
  <1>1. /\ N \in Nat
        /\ \A n \in 1 .. N : o[n] \in S /\ Cardinality(Preceding(o[n], S, R)) = n - 1
    BY OrderedRank
  <1>2. DOMAIN o = 1 .. N /\ o = [n \in 1 .. N |-> o[n]]
    BY DEF Ordered
  <1> HIDE DEF o
  <1>3. o \in Seq(S) /\ Len(o) = N
    BY <1>1, <1>2
  <1>4. ASSUME NEW m \in 1 .. N, NEW n \in 1 .. N
        PROVE  /\ m < n <=> <<o[m], o[n]>> \in R
               /\ o[m] = o[n] => m = n
    <2>1. /\ o[m] \in S /\ Cardinality(Preceding(o[m], S, R)) = m - 1
          /\ o[n] \in S /\ Cardinality(Preceding(o[n], S, R)) = n - 1
      BY <1>1
    <2>2. <<o[m], o[n]>> \in R <=> m - 1 < n - 1
      BY <2>1, RankDecides
    <2>3. o[m] = o[n] => m - 1 = n - 1
      BY <2>1
    <2> QED
      BY <1>1, <2>2, <2>3
  <1>5. ASSUME NEW x \in S PROVE \E n \in 1 .. N : o[n] = x
    <2>1. PICK k : k = Cardinality(Preceding(x, S, R))
      OBVIOUS
    <2>2. k \in 0 .. N - 1
      BY <2>1, RankHit
    <2>3. PICK n \in 1 .. N : n - 1 = k
      BY <1>1, <2>2
    <2>4. PICK y : y = o[n]
      OBVIOUS
    <2>5. y \in S /\ Cardinality(Preceding(y, S, R)) = Cardinality(Preceding(x, S, R))
      BY <1>1, <2>1, <2>3, <2>4
    <2>6. y = x
      BY <2>5, RankDecides
    <2> QED
      BY <2>4, <2>6
  <1> QED
    BY <1>1, <1>2, <1>3, <1>4, <1>5 DEF o

-----------------------------------------------------------------------------
(* Numbers. *)

LEMMA IncreasingOrders ==
    ASSUME NEW S, S \subseteq Int
    PROVE  IsOrder(Increasing(S), S)
  <1>1. \A x, y \in S : <<x, y>> \in Increasing(S) <=> x < y
    BY DEF Increasing
  <1>2. \A x \in S : x \in Int
    OBVIOUS
  <1> QED
    BY <1>1, <1>2 DEF IsOrder

LEMMA StableOrders ==
    ASSUME NEW D, D \subseteq Int, NEW keys, \A x \in D : keys[x] \in Int
    PROVE  IsOrder(Stable(D, keys), D)
  <1>1. \A x, y \in D : <<x, y>> \in Stable(D, keys)
                         <=> keys[x] < keys[y] \/ (keys[x] = keys[y] /\ x < y)
    BY DEF Stable
  <1>2. \A x \in D : x \in Int /\ keys[x] \in Int
    OBVIOUS
  <1>3. \A x \in D : <<x, x>> \notin Stable(D, keys)
    BY <1>1, <1>2
  <1>4. \A x, y, z \in D : <<x, y>> \in Stable(D, keys) /\ <<y, z>> \in Stable(D, keys)
                            => <<x, z>> \in Stable(D, keys)
    BY <1>1, <1>2
  <1>5. \A x, y \in D : x # y => <<x, y>> \in Stable(D, keys) \/ <<y, x>> \in Stable(D, keys)
    BY <1>1, <1>2
  <1> QED
    BY <1>3, <1>4, <1>5 DEF IsOrder

LEMMA AscendingSorts ==
    ASSUME NEW S, IsFiniteSet(S), S \subseteq Int
    PROVE  /\ Ascending(S) \in Seq(S) /\ Len(Ascending(S)) = Cardinality(S)
           /\ DOMAIN Ascending(S) = 1 .. Cardinality(S) /\ Cardinality(S) \in Nat
           /\ \A n \in 1 .. Cardinality(S) : Ascending(S)[n] \in S
           /\ \A m, n \in 1 .. Cardinality(S) :
                  /\ m < n <=> Ascending(S)[m] < Ascending(S)[n]
                  /\ Ascending(S)[m] = Ascending(S)[n] => m = n
           /\ \A x \in S : \E n \in 1 .. Cardinality(S) : Ascending(S)[n] = x
  <1>1. IsOrder(Increasing(S), S)
    BY IncreasingOrders
  <1>2. \A x, y \in S : <<x, y>> \in Increasing(S) <=> x < y
    BY DEF Increasing
  <1>3. Cardinality(S) \in Nat /\ \A n \in 1 .. Cardinality(S) : Ascending(S)[n] \in S
    BY <1>1, OrderedRank DEF Ascending
  <1>4. /\ Ascending(S) \in Seq(S) /\ Len(Ascending(S)) = Cardinality(S)
        /\ DOMAIN Ascending(S) = 1 .. Cardinality(S)
        /\ \A m, n \in 1 .. Cardinality(S) :
                  /\ m < n <=> <<Ascending(S)[m], Ascending(S)[n]>> \in Increasing(S)
                  /\ Ascending(S)[m] = Ascending(S)[n] => m = n
        /\ \A x \in S : \E n \in 1 .. Cardinality(S) : Ascending(S)[n] = x
    BY <1>1, OrderedSorts DEF Ascending
  <1> QED
    BY <1>2, <1>3, <1>4

\* Filtering a sequence: its members at the positions in I, in their order.
LEMMA PickedMembers ==
    ASSUME NEW X, NEW s \in Seq(X), NEW I, I \subseteq DOMAIN s
    PROVE  /\ IsFiniteSet(I) /\ Cardinality(I) \in Nat
           /\ Picked(s, I) \in Seq(X) /\ Len(Picked(s, I)) = Cardinality(I)
           /\ DOMAIN Picked(s, I) = 1 .. Cardinality(I)
           /\ \A n \in 1 .. Cardinality(I) :
                 Ascending(I)[n] \in I /\ Picked(s, I)[n] = s[Ascending(I)[n]]
           /\ \A i \in I : \E n \in 1 .. Cardinality(I) : Picked(s, I)[n] = s[i]
  <1>1. DOMAIN s = 1 .. Len(s) /\ Len(s) \in Nat
    OBVIOUS
  <1>2. IsFiniteSet(1 .. Len(s))
    BY <1>1, FS_Interval
  <1>3. IsFiniteSet(I) /\ I \subseteq Int
    BY <1>1, <1>2, FS_Subset
  <1>4. /\ Cardinality(I) \in Nat /\ \A n \in 1 .. Cardinality(I) : Ascending(I)[n] \in I
        /\ \A i \in I : \E n \in 1 .. Cardinality(I) : Ascending(I)[n] = i
    BY <1>3, AscendingSorts
  <1>5. \A n \in 1 .. Cardinality(I) : s[Ascending(I)[n]] \in X
    BY <1>4
  <1>6. Picked(s, I) \in Seq(X) /\ Len(Picked(s, I)) = Cardinality(I)
    BY <1>4, <1>5 DEF Picked
  <1>7. DOMAIN Picked(s, I) = 1 .. Cardinality(I)
        /\ \A n \in 1 .. Cardinality(I) : Picked(s, I)[n] = s[Ascending(I)[n]]
    BY DEF Picked
  <1> QED
    BY <1>3, <1>4, <1>6, <1>7

\* A finite set of integers that is not empty has a greatest and a least element.
LEMMA Extremes ==
    ASSUME NEW S, S \subseteq Int, IsFiniteSet(S), S # {}
    PROVE  /\ \E x \in S : \A y \in S : x >= y
           /\ \E x \in S : \A y \in S : x <= y
  <1> DEFINE N == Cardinality(S)
  <1>1. /\ N \in Nat /\ \A n \in 1 .. N : Ascending(S)[n] \in S
        /\ \A m, n \in 1 .. N : m < n <=> Ascending(S)[m] < Ascending(S)[n]
        /\ \A x \in S : \E n \in 1 .. N : Ascending(S)[n] = x
    BY AscendingSorts
  <1>2. N # 0
    BY FS_EmptySet
  <1>3. 1 \in 1 .. N /\ N \in 1 .. N
    BY <1>1, <1>2
  <1>4. \A y \in S : Ascending(S)[N] >= y /\ Ascending(S)[1] <= y
    <2> SUFFICES ASSUME NEW y \in S PROVE Ascending(S)[N] >= y /\ Ascending(S)[1] <= y
      OBVIOUS
    <2>1. PICK n \in 1 .. N : Ascending(S)[n] = y
      BY <1>1
    <2>2. n = N \/ n < N
      BY <1>1
    <2>3. n = 1 \/ 1 < n
      BY <1>1
    <2>4. Ascending(S)[N] \in Int /\ Ascending(S)[1] \in Int /\ y \in Int
      BY <1>1, <1>3
    <2> QED
      BY <1>1, <1>3, <2>1, <2>2, <2>3, <2>4
  <1> QED
    BY <1>1, <1>3, <1>4

-----------------------------------------------------------------------------
(* Recursion: what Joined and SumOver are is proved of the least length, or  *)
(* the smallest set, for which it would not hold.                          *)

LEMMA SmallestIs ==
    ASSUME NEW S, S \subseteq Int, IsFiniteSet(S), S # {}
    PROVE  Smallest(S) \in S /\ \A y \in S : Smallest(S) <= y
  <1>1. \E x \in S : \A y \in S : x <= y
    BY Extremes
  <1> QED
    BY <1>1 DEF Smallest

LEMMA LargestIs ==
    ASSUME NEW S, S \subseteq Int, IsFiniteSet(S), S # {}
    PROVE  Largest(S) \in S /\ \A y \in S : Largest(S) >= y
  <1>1. \E x \in S : \A y \in S : x >= y
    BY Extremes
  <1> QED
    BY <1>1 DEF Largest

\* A function takes no more values on a set than the set has members.
LEMMA ValuesFinite ==
    ASSUME NEW D, IsFiniteSet(D), NEW f
    PROVE  /\ IsFiniteSet({f[x] : x \in D})
           /\ Cardinality(D) \in Nat /\ Cardinality({f[x] : x \in D}) \in Nat
           /\ Cardinality({f[x] : x \in D}) <= Cardinality(D)
  <1> DEFINE T == {f[x] : x \in D}
             h == [x \in D |-> f[x]]
  <1>1. h \in Surjection(D, T)
    BY DEF Surjection
  <1> HIDE DEF T, h
  <1>2. IsFiniteSet(T) /\ Cardinality(T) <= Cardinality(D)
    BY <1>1, FS_Surjection
  <1> QED
    BY <1>2, FS_CardinalityType DEF T

\* What holds of the first value of a row, and of each value when of the one before, holds
\* of all: P says what it is.
LEMMA HoldsAlong ==
    ASSUME NEW n \in Nat, NEW f, NEW P, f[0] \in P[0],
           \A i \in 1 .. n : f[i - 1] \in P[i - 1] => f[i] \in P[i]
    PROVE  \A i \in 0 .. n : f[i] \in P[i]
  <1> DEFINE T == {i \in 0 .. n : f[i] \notin P[i]}
  <1> SUFFICES ASSUME T # {} PROVE FALSE
    OBVIOUS
  <1>1. T \subseteq Nat
    OBVIOUS
  <1>2. PICK i \in T : \A m \in T : i <= m
    BY <1>1, LeastNat
  <1>3. i \in 0 .. n /\ f[i] \notin P[i]
    OBVIOUS
  <1>4. i # 0
    BY <1>3
  <1>5. i \in 1 .. n /\ i - 1 \in 0 .. n /\ i - 1 \notin T
    BY <1>2, <1>3, <1>4
  <1>6. f[i - 1] \in P[i - 1]
    BY <1>5
  <1> QED
    BY <1>3, <1>5, <1>6

\* The row whose first value is x0 and where step[i] makes the i-th value of the one before.
RowOf(x0, step, n, g) == g = [i \in 0 .. n |-> IF i = 0 THEN x0 ELSE step[i][g[i - 1]]]

LEMMA RowsExist ==
    ASSUME NEW x0, NEW step, NEW n \in Nat
    PROVE  \E g : RowOf(x0, step, n, g)
  <1> DEFINE T == {k \in Nat : ~ \E g : RowOf(x0, step, k, g)}
  <1> SUFFICES ASSUME T # {} PROVE FALSE
    OBVIOUS
  <1>1. PICK k \in T : \A m \in T : k <= m
    BY LeastNat
  <1>2. k # 0
    <2> DEFINE g == [i \in 0 .. 0 |-> x0]
    <2>1. g = [i \in 0 .. 0 |-> IF i = 0 THEN x0 ELSE step[i][g[i - 1]]]
      OBVIOUS
    <2> HIDE DEF g
    <2>2. RowOf(x0, step, 0, g)
      BY <2>1 DEF RowOf
    <2> QED
      BY <1>1, <2>2
  <1>3. k - 1 \in Nat /\ k - 1 \notin T
    BY <1>1, <1>2
  <1>4. PICK g : RowOf(x0, step, k - 1, g)
    BY <1>3
  <1> DEFINE h == [i \in 0 .. k |-> IF i < k THEN g[i] ELSE step[k][g[k - 1]]]
  <1>5. \A i \in 0 .. k - 1 : g[i] = IF i = 0 THEN x0 ELSE step[i][g[i - 1]]
    BY <1>4 DEF RowOf
  <1>6. (\A i \in 0 .. k - 1 : h[i] = g[i]) /\ h[k] = step[k][g[k - 1]]
    <2>1. k \in 0 .. k /\ ~(k < k) /\ \A i \in 0 .. k - 1 : i \in 0 .. k /\ i < k
      BY <1>3
    <2> QED
      BY <2>1
  <1>7. ASSUME NEW i \in 0 .. k
        PROVE  h[i] = IF i = 0 THEN x0 ELSE step[i][h[i - 1]]
    <2> HIDE DEF h
    <2>1. CASE i < k
      <3>1. i \in 0 .. k - 1 /\ (i # 0 => i - 1 \in 0 .. k - 1)
        BY <1>3, <2>1
      <3> QED
        BY <1>5, <1>6, <3>1
    <2>2. CASE i = k
      <3>1. k - 1 \in 0 .. k - 1 /\ k # 0
        BY <1>2, <1>3
      <3> QED
        BY <1>6, <2>2, <3>1
    <2> QED
      BY <1>3, <2>1, <2>2
  <1>8. h = [i \in 0 .. k |-> IF i = 0 THEN x0 ELSE step[i][h[i - 1]]]
    BY <1>7
  <1> HIDE DEF h
  <1> QED
    BY <1>1, <1>8 DEF RowOf

JoinsUpTo(ss, n, g) == g = [i \in 0 .. n |-> IF i = 0 THEN << >> ELSE g[i - 1] \o ss[i]]

LEMMA JoinsExist ==
    ASSUME NEW ss, NEW n \in Nat
    PROVE  \E g : JoinsUpTo(ss, n, g)
  <1> DEFINE T == {k \in Nat : ~ \E g : JoinsUpTo(ss, k, g)}
  <1> SUFFICES ASSUME T # {} PROVE FALSE
    OBVIOUS
  <1>1. PICK k \in T : \A m \in T : k <= m
    BY LeastNat
  <1>2. k # 0
    <2> DEFINE g == [i \in 0 .. 0 |-> << >>]
    <2>1. g = [i \in 0 .. 0 |-> IF i = 0 THEN << >> ELSE g[i - 1] \o ss[i]]
      OBVIOUS
    <2> HIDE DEF g
    <2>2. JoinsUpTo(ss, 0, g)
      BY <2>1 DEF JoinsUpTo
    <2> QED
      BY <1>1, <2>2
  <1>3. k - 1 \in Nat /\ k - 1 \notin T
    BY <1>1, <1>2
  <1>4. PICK g : JoinsUpTo(ss, k - 1, g)
    BY <1>3
  <1> DEFINE h == [i \in 0 .. k |-> IF i < k THEN g[i] ELSE g[k - 1] \o ss[k]]
  <1>5. \A i \in 0 .. k - 1 : g[i] = IF i = 0 THEN << >> ELSE g[i - 1] \o ss[i]
    BY <1>4 DEF JoinsUpTo
  <1>6. (\A i \in 0 .. k - 1 : h[i] = g[i]) /\ h[k] = g[k - 1] \o ss[k]
    <2>1. k \in 0 .. k /\ ~(k < k) /\ \A i \in 0 .. k - 1 : i \in 0 .. k /\ i < k
      BY <1>3
    <2> QED
      BY <2>1
  <1>7. ASSUME NEW i \in 0 .. k
        PROVE  h[i] = IF i = 0 THEN << >> ELSE h[i - 1] \o ss[i]
    <2> HIDE DEF h
    <2>1. CASE i < k
      <3>1. i \in 0 .. k - 1 /\ (i # 0 => i - 1 \in 0 .. k - 1)
        BY <1>3, <2>1
      <3> QED
        BY <1>5, <1>6, <3>1
    <2>2. CASE i = k
      <3>1. k - 1 \in 0 .. k - 1 /\ k # 0
        BY <1>2, <1>3
      <3> QED
        BY <1>6, <2>2, <3>1
    <2> QED
      BY <1>3, <2>1, <2>2
  <1>8. h = [i \in 0 .. k |-> IF i = 0 THEN << >> ELSE h[i - 1] \o ss[i]]
    BY <1>7
  <1> HIDE DEF h
  <1> QED
    BY <1>1, <1>8 DEF JoinsUpTo

LEMMA JoinedMembers ==
    ASSUME NEW X, NEW ss \in Seq(Seq(X))
    PROVE  Joined(ss) \in Seq(X)
  <1> DEFINE w == CHOOSE g : JoinsUpTo(ss, Len(ss), g)
  <1>1. Joined(ss) = w[Len(ss)]
    BY DEF Joined, JoinsUpTo
  <1>2. \E g : JoinsUpTo(ss, Len(ss), g)
    <2>1. Len(ss) \in Nat
      OBVIOUS
    <2> QED
      BY <2>1, JoinsExist
  <1>3. PICK g : JoinsUpTo(ss, Len(ss), g) /\ Joined(ss) = g[Len(ss)]
    BY <1>1, <1>2
  <1>4. \A i \in 0 .. Len(ss) : g[i] = IF i = 0 THEN << >> ELSE g[i - 1] \o ss[i]
    BY <1>3 DEF JoinsUpTo
  <1> DEFINE T == {i \in 0 .. Len(ss) : g[i] \notin Seq(X)}
  <1>5. T = {}
    <2> SUFFICES ASSUME T # {} PROVE FALSE
      OBVIOUS
    <2>1. T \subseteq Nat
      OBVIOUS
    <2>2. PICK i \in T : \A m \in T : i <= m
      BY <2>1, LeastNat
    <2>3. i \in 0 .. Len(ss) /\ g[i] \notin Seq(X)
      OBVIOUS
    <2>4. i # 0
      <3>1. i = 0 => g[i] = << >>
        BY <1>4, <2>3
      <3>2. << >> \in Seq(X)
        OBVIOUS
      <3> QED
        BY <2>3, <3>1, <3>2
    <2>5. i - 1 \in 0 .. Len(ss) /\ i \in 1 .. Len(ss) /\ i - 1 \notin T
      BY <2>2, <2>3, <2>4
    <2>6. g[i - 1] \in Seq(X) /\ ss[i] \in Seq(X)
      BY <2>5
    <2>7. g[i] = g[i - 1] \o ss[i]
      BY <1>4, <2>3, <2>4
    <2> QED
      BY <2>3, <2>6, <2>7
  <1>6. Len(ss) \in 0 .. Len(ss)
    OBVIOUS
  <1> QED
    BY <1>3, <1>5, <1>6

\* Something of s is x.
Has(s, x) == \E i \in DOMAIN s : s[i] = x

\* A joined row has what its parts have.
LEMMA JoinedHas ==
    ASSUME NEW X, NEW ss \in Seq(Seq(X)), NEW k \in 1 .. Len(ss), NEW x \in X, Has(ss[k], x)
    PROVE  Has(Joined(ss), x)
  <1>0. \E i \in DOMAIN ss[k] : ss[k][i] = x
    BY DEF Has
  <1>1. \E g : JoinsUpTo(ss, Len(ss), g)
    BY Len(ss) \in Nat, JoinsExist
  <1>2. PICK g : JoinsUpTo(ss, Len(ss), g) /\ Joined(ss) = g[Len(ss)]
    BY <1>1 DEF Joined, JoinsUpTo
  <1>3. \A i \in 0 .. Len(ss) : g[i] = IF i = 0 THEN << >> ELSE g[i - 1] \o ss[i]
    BY <1>2 DEF JoinsUpTo
  <1>4. PICK n \in Nat : n = Len(ss)
    OBVIOUS
  <1>5. PICK P : P = [i \in 0 .. n |-> {t \in Seq(X) : i >= k => \E j \in DOMAIN t : t[j] = x}]
    OBVIOUS
  <1>6. g[0] \in P[0]
    <2>1. 0 \in 0 .. n /\ ~(0 >= k) /\ g[0] = << >>
      BY <1>3, <1>4
    <2>2. << >> \in Seq(X)
      OBVIOUS
    <2> QED
      BY <1>5, <2>1, <2>2
  <1>7. ASSUME NEW i \in 1 .. n, g[i - 1] \in P[i - 1] PROVE g[i] \in P[i]
    <2>1. i - 1 \in 0 .. n /\ i \in 0 .. n /\ i # 0 /\ i \in 1 .. Len(ss)
      BY <1>4
    <2>2. PICK t, s, u : t = g[i - 1] /\ s = ss[i] /\ u = t \o s
      OBVIOUS
    <2>3. g[i] = u
      BY <1>3, <1>4, <2>1, <2>2
    <2>4. t \in Seq(X) /\ (i - 1 >= k => \E j \in DOMAIN t : t[j] = x)
      BY <1>5, <1>7, <2>1, <2>2
    <2>5. s \in Seq(X)
      BY <2>1, <2>2
    <2>6. /\ u \in Seq(X) /\ Len(u) = Len(t) + Len(s)
          /\ \A j \in 1 .. Len(t) : u[j] = t[j]
          /\ \A j \in 1 .. Len(s) : u[Len(t) + j] = s[j]
      <3>1. u \in Seq(X) /\ Len(u) = Len(t) + Len(s)
        BY <2>2, <2>4, <2>5
      <3>2. ASSUME NEW j \in 1 .. Len(t) PROVE u[j] = t[j]
        <4>1. j \in 1 .. Len(t) + Len(s) /\ j <= Len(t)
          BY <2>4, <2>5
        <4> QED
          BY <2>2, <2>4, <2>5, <4>1
      <3>3. ASSUME NEW j \in 1 .. Len(s) PROVE u[Len(t) + j] = s[j]
        <4>1. /\ Len(t) + j \in 1 .. Len(t) + Len(s) /\ Len(t) + j > Len(t)
              /\ Len(t) + j - Len(t) = j
          BY <2>4, <2>5
        <4> QED
          BY <2>2, <2>4, <2>5, <4>1
      <3> QED
        BY <3>1, <3>2, <3>3
    <2>7. DOMAIN t = 1 .. Len(t) /\ DOMAIN s = 1 .. Len(s) /\ DOMAIN u = 1 .. Len(u)
      BY <2>4, <2>5, <2>6
    <2>8. Len(t) \in Nat /\ Len(s) \in Nat
      BY <2>4, <2>5
    <2>9. ASSUME i >= k PROVE \E j \in DOMAIN u : u[j] = x
      <3>1. CASE i = k
        <4>1. PICK j \in DOMAIN s : s[j] = x
          BY <1>0, <2>2, <3>1
        <4>2. Len(t) + j \in DOMAIN u /\ u[Len(t) + j] = x
          BY <2>6, <2>7, <2>8, <4>1
        <4> QED
          BY <4>2
      <3>2. CASE i # k
        <4>1. i - 1 >= k
          BY <2>9, <3>2
        <4>2. PICK j \in DOMAIN t : t[j] = x
          BY <2>4, <4>1
        <4>3. j \in DOMAIN u /\ u[j] = x
          BY <2>6, <2>7, <2>8, <4>2
        <4> QED
          BY <4>3
      <3> QED
        BY <3>1, <3>2
    <2> QED
      BY <1>5, <2>1, <2>3, <2>6, <2>9
  <1>8. \A i \in 0 .. n : g[i] \in P[i]
    BY <1>6, <1>7, HoldsAlong
  <1>9. n \in 0 .. n /\ n >= k
    BY <1>4
  <1> QED
    BY <1>2, <1>4, <1>5, <1>8, <1>9 DEF Has

\* The sum of a row of naturals, as the sums up to each place.
SumsTo(s, n, g) == g = [i \in 0 .. n |-> IF i = 0 THEN 0 ELSE g[i - 1] + s[i]]
AddSteps(s, n) == [i \in 1 .. n |-> [x \in Nat |-> x + s[i]]]

LEMMA SumsToExist ==
    ASSUME NEW s \in Seq(Nat), NEW n, n = Len(s)
    PROVE  \E g : SumsTo(s, n, g)
  <1>0. n \in Nat /\ \A i \in 1 .. n : s[i] \in Nat
    OBVIOUS
  <1>1. PICK step, P : step = AddSteps(s, n) /\ P = [i \in 0 .. n |-> Nat]
    OBVIOUS
  <1>2. PICK g : RowOf(0, step, n, g)
    BY <1>0, RowsExist
  <1>3. \A i \in 0 .. n : g[i] = IF i = 0 THEN 0 ELSE step[i][g[i - 1]]
    BY <1>2 DEF RowOf
  <1>4. \A i \in 1 .. n : \A x \in Nat : step[i][x] = x + s[i]
    BY <1>1 DEF AddSteps
  <1>5. g[0] \in P[0]
    BY <1>0, <1>1, <1>3
  <1>6. ASSUME NEW i \in 1 .. n, g[i - 1] \in P[i - 1] PROVE g[i] \in P[i]
    <2>1. i - 1 \in 0 .. n /\ i \in 0 .. n /\ i # 0
      BY <1>0
    <2>2. g[i - 1] \in Nat /\ s[i] \in Nat
      BY <1>0, <1>1, <1>6, <2>1
    <2>3. g[i] = g[i - 1] + s[i]
      BY <1>3, <1>4, <2>1, <2>2
    <2> QED
      BY <1>1, <2>1, <2>2, <2>3
  <1>7. \A i \in 0 .. n : g[i] \in P[i]
    BY <1>0, <1>5, <1>6, HoldsAlong
  <1>8. ASSUME NEW i \in 0 .. n PROVE g[i] = IF i = 0 THEN 0 ELSE g[i - 1] + s[i]
    <2>1. CASE i = 0
      BY <1>3, <2>1
    <2>2. CASE i # 0
      <3>1. i \in 1 .. n /\ i - 1 \in 0 .. n
        BY <1>0, <2>2
      <3>2. g[i - 1] \in Nat
        BY <1>1, <1>7, <3>1
      <3> QED
        BY <1>3, <1>4, <2>2, <3>1, <3>2
    <2> QED
      BY <2>1, <2>2
  <1>9. g = [i \in 0 .. n |-> g[i]]
    BY <1>2 DEF RowOf
  <1>10. g = [i \in 0 .. n |-> IF i = 0 THEN 0 ELSE g[i - 1] + s[i]]
    BY <1>8, <1>9
  <1> QED
    BY <1>10 DEF SumsTo

LEMMA SummedIs ==
    ASSUME NEW s \in Seq(Nat)
    PROVE  \E g : /\ Summed(s) = g[Len(s)] /\ g[0] = 0
                  /\ \A i \in 1 .. Len(s) : g[i] = g[i - 1] + s[i]
  <1>1. PICK g : SumsTo(s, Len(s), g) /\ Summed(s) = g[Len(s)]
    BY SumsToExist DEF Summed, SumsTo
  <1>2. \A i \in 0 .. Len(s) : g[i] = IF i = 0 THEN 0 ELSE g[i - 1] + s[i]
    BY <1>1 DEF SumsTo
  <1>3. g[0] = 0
    BY <1>2, Len(s) \in Nat
  <1>4. \A i \in 1 .. Len(s) : g[i] = g[i - 1] + s[i]
    <2> SUFFICES ASSUME NEW i \in 1 .. Len(s) PROVE g[i] = g[i - 1] + s[i]
      OBVIOUS
    <2>1. i \in 0 .. Len(s) /\ i # 0
      OBVIOUS
    <2> QED
      BY <1>2, <2>1
  <1> QED
    BY <1>1, <1>3, <1>4

\* g sums f over the subsets of S with at most n members.
AddTo(f, T, g) == LET x == CHOOSE x \in T : TRUE IN f[x] + g[T \ {x}]
Small(S, n) == {T \in SUBSET S : Cardinality(T) <= n}
SumsUpTo(f, S, n, g) == g = [T \in Small(S, n) |-> IF T = {} THEN 0 ELSE AddTo(f, T, g)]
Sums(f, S, g) ==
    /\ g[{}] = 0
    /\ \A T \in SUBSET S : T # {} => \E x \in T : g[T] = f[x] + g[T \ {x}]

LEMMA OneLess ==
    ASSUME NEW S, IsFiniteSet(S), NEW T \in SUBSET S, T # {}, NEW x, x = CHOOSE y \in T : TRUE
    PROVE  /\ x \in T /\ T \ {x} \in SUBSET S
           /\ Cardinality(T) \in Nat \ {0} /\ Cardinality(T \ {x}) = Cardinality(T) - 1
  <1>1. IsFiniteSet(T)
    BY FS_Subset
  <1>2. x \in T
    OBVIOUS
  <1> QED
    BY <1>1, <1>2, FS_RemoveElement, FS_CardinalityType, FS_EmptySet

LEMMA SumsExist ==
    ASSUME NEW S, IsFiniteSet(S), NEW f, NEW n \in Nat
    PROVE  \E g : SumsUpTo(f, S, n, g)
  <1> DEFINE B == {k \in Nat : ~ \E g : SumsUpTo(f, S, k, g)}
  <1> SUFFICES ASSUME B # {} PROVE FALSE
    OBVIOUS
  <1>1. PICK k \in B : \A m \in B : k <= m
    BY LeastNat
  <1>0. \A T \in SUBSET S : Cardinality(T) \in Nat /\ (Cardinality(T) = 0 <=> T = {})
    BY FS_Subset, FS_CardinalityType, FS_EmptySet
  <1>2. k # 0
    <2>1. PICK g : g = [T \in Small(S, 0) |-> 0]
      OBVIOUS
    <2>2. \A T \in Small(S, 0) : T = {}
      BY <1>0 DEF Small
    <2>3. g = [T \in Small(S, 0) |-> IF T = {} THEN 0 ELSE AddTo(f, T, g)]
      BY <2>1, <2>2
    <2>4. SumsUpTo(f, S, 0, g)
      BY <2>3 DEF SumsUpTo
    <2> QED
      BY <1>1, <2>4
  <1>3. k - 1 \in Nat /\ k - 1 \notin B
    BY <1>1, <1>2
  <1>4. PICK g : SumsUpTo(f, S, k - 1, g)
    BY <1>3
  <1>5. PICK h : h = [T \in Small(S, k) |-> IF T = {} THEN 0 ELSE AddTo(f, T, g)]
    OBVIOUS
  <1>6. \A T \in Small(S, k - 1) : T \in Small(S, k) /\ h[T] = g[T]
    <2>1. \A T \in Small(S, k - 1) : T \in Small(S, k)
      BY <1>0, <1>3 DEF Small
    <2>2. \A T \in Small(S, k - 1) : g[T] = IF T = {} THEN 0 ELSE AddTo(f, T, g)
      BY <1>4 DEF SumsUpTo
    <2> QED
      BY <1>5, <2>1, <2>2
  <1>7. ASSUME NEW T \in Small(S, k), T # {} PROVE AddTo(f, T, g) = AddTo(f, T, h)
    <2>1. PICK x : x = CHOOSE y \in T : TRUE
      OBVIOUS
    <2>2. T \in SUBSET S /\ Cardinality(T) <= k
      BY DEF Small
    <2>3. T \ {x} \in SUBSET S /\ Cardinality(T) \in Nat \ {0} /\ Cardinality(T \ {x}) = Cardinality(T) - 1
      BY <1>7, <2>1, <2>2, OneLess
    <2>4. T \ {x} \in Small(S, k - 1)
      BY <1>3, <2>2, <2>3 DEF Small
    <2>5. h[T \ {x}] = g[T \ {x}]
      BY <1>6, <2>4
    <2> QED
      BY <2>1, <2>5 DEF AddTo
  <1>8. h = [T \in Small(S, k) |-> IF T = {} THEN 0 ELSE AddTo(f, T, h)]
    BY <1>5, <1>7
  <1> QED
    BY <1>1, <1>8 DEF SumsUpTo

LEMMA SumOverIs ==
    ASSUME NEW S, IsFiniteSet(S), NEW f
    PROVE  \E g : SumOver(f, S) = g[S] /\ Sums(f, S, g)
  <1>1. PICK n \in Nat : n = Cardinality(S)
    BY FS_CardinalityType
  <1>2. Small(S, n) = SUBSET S
    BY <1>1, FS_Subset DEF Small
  <1> DEFINE w == CHOOSE g : g = [T \in SUBSET S |-> IF T = {} THEN 0
                                      ELSE LET x == CHOOSE x \in T : TRUE IN f[x] + g[T \ {x}]]
  <1>3. SumOver(f, S) = w[S]
    BY DEF SumOver
  <1>4. \E g : g = [T \in SUBSET S |-> IF T = {} THEN 0
                                      ELSE LET x == CHOOSE x \in T : TRUE IN f[x] + g[T \ {x}]]
    <2>1. PICK g : SumsUpTo(f, S, n, g)
      BY SumsExist
    <2>2. g = [T \in SUBSET S |-> IF T = {} THEN 0
                                      ELSE LET x == CHOOSE x \in T : TRUE IN f[x] + g[T \ {x}]]
      BY <1>2, <2>1 DEF SumsUpTo, AddTo
    <2> QED
      BY <2>2
  <1>5. PICK g : g = [T \in SUBSET S |-> IF T = {} THEN 0 ELSE AddTo(f, T, g)] /\ SumOver(f, S) = g[S]
    BY <1>3, <1>4 DEF AddTo
  <1>6. \A T \in SUBSET S : g[T] = IF T = {} THEN 0 ELSE AddTo(f, T, g)
    BY <1>5
  <1>7. g[{}] = 0
    BY <1>6
  <1>8. ASSUME NEW T \in SUBSET S, T # {} PROVE \E x \in T : g[T] = f[x] + g[T \ {x}]
    <2>1. PICK x : x = CHOOSE y \in T : TRUE
      OBVIOUS
    <2>2. x \in T
      BY <1>8, <2>1
    <2>3. g[T] = f[x] + g[T \ {x}]
      BY <1>6, <1>8, <2>1 DEF AddTo
    <2> QED
      BY <2>2, <2>3
  <1> QED
    BY <1>5, <1>7, <1>8 DEF Sums

\* One step of a sum: some member, and the sum of the others.
LEMMA SumStep ==
    ASSUME NEW S, IsFiniteSet(S), NEW f, NEW g, Sums(f, S, g)
    PROVE  \A T \in SUBSET S : T # {} =>
               \E x \in T : /\ g[T] = f[x] + g[T \ {x}] /\ T \ {x} \in SUBSET S
                            /\ Cardinality(T) \in Nat \ {0}
                            /\ Cardinality(T \ {x}) = Cardinality(T) - 1
  <1> SUFFICES ASSUME NEW T \in SUBSET S, T # {}
               PROVE  \E x \in T : /\ g[T] = f[x] + g[T \ {x}] /\ T \ {x} \in SUBSET S
                                   /\ Cardinality(T) \in Nat \ {0}
                                   /\ Cardinality(T \ {x}) = Cardinality(T) - 1
    OBVIOUS
  <1>1. PICK x \in T : g[T] = f[x] + g[T \ {x}]
    BY DEF Sums
  <1>2. /\ Cardinality(T) \in Nat \ {0} /\ Cardinality(T \ {x}) = Cardinality(T) - 1
    BY FS_Subset, FS_RemoveElement, FS_CardinalityType, FS_EmptySet
  <1> QED
    BY <1>1, <1>2

LEMMA SumOverNat ==
    ASSUME NEW S, IsFiniteSet(S), NEW f, \A x \in S : f[x] \in Nat
    PROVE  /\ SumOver(f, S) \in Nat
           /\ \A x \in S : SumOver(f, S) >= f[x]
           /\ \A x, y \in S : x # y => SumOver(f, S) >= f[x] + f[y]
  <1>1. PICK g : SumOver(f, S) = g[S] /\ Sums(f, S, g)
    BY SumOverIs
  <1>0. {} \in SUBSET S /\ g[{}] = 0
    BY <1>1 DEF Sums
  <1> DEFINE Holds(T) == /\ g[T] \in Nat
                         /\ \A x \in T : g[T] >= f[x]
                         /\ \A x, y \in T : x # y => g[T] >= f[x] + f[y]
             B == {k \in Nat : \E T \in SUBSET S : Cardinality(T) = k /\ ~Holds(T)}
  <1>2. B = {}
    <2> SUFFICES ASSUME B # {} PROVE FALSE
      OBVIOUS
    <2>1. PICK k \in B : \A m \in B : k <= m
      BY LeastNat
    <2>2. PICK T \in SUBSET S : Cardinality(T) = k /\ ~Holds(T)
      OBVIOUS
    <2>3. T # {}
      BY <1>0, <2>2
    <2>4. PICK x \in T : /\ g[T] = f[x] + g[T \ {x}] /\ T \ {x} \in SUBSET S
                         /\ Cardinality(T) \in Nat \ {0}
                         /\ Cardinality(T \ {x}) = Cardinality(T) - 1
      BY <1>1, <2>3, SumStep
    <2>5. k - 1 \in Nat /\ k - 1 \notin B
      BY <2>1, <2>2, <2>4
    <2>6. Holds(T \ {x})
      BY <2>2, <2>4, <2>5
    <2>7. f[x] \in Nat /\ g[T \ {x}] \in Nat /\ g[T] \in Nat
      BY <2>4, <2>6
    <2>8. \A y \in T : g[T] >= f[y]
      <3> SUFFICES ASSUME NEW y \in T PROVE g[T] >= f[y]
        OBVIOUS
      <3>1. f[y] \in Nat /\ (y # x => f[y] <= g[T \ {x}])
        BY <2>6
      <3> QED
        BY <3>1, <2>4, <2>7
    <2>9. \A y, z \in T : y # z => g[T] >= f[y] + f[z]
      <3> SUFFICES ASSUME NEW y \in T, NEW z \in T, y # z PROVE g[T] >= f[y] + f[z]
        OBVIOUS
      <3>1. /\ f[y] \in Nat /\ (y # x => f[y] <= g[T \ {x}])
            /\ f[z] \in Nat /\ (z # x => f[z] <= g[T \ {x}])
            /\ (y # x /\ z # x => f[y] + f[z] <= g[T \ {x}])
        BY <2>6
      <3> QED
        BY <3>1, <2>4, <2>7
    <2> QED
      BY <2>2, <2>7, <2>8, <2>9
  <1>3. S \in SUBSET S /\ Cardinality(S) \in Nat
    BY FS_CardinalityType
  <1>4. Holds(S)
    BY <1>2, <1>3
  <1> QED
    BY <1>1, <1>4

LEMMA DisjointSizes ==
    ASSUME NEW U, NEW V, IsFiniteSet(U), IsFiniteSet(V), U \cap V = {}
    PROVE  Cardinality(U \cup V) = Cardinality(U) + Cardinality(V)
  <1>1. Cardinality(U \cup V) = Cardinality(U) + Cardinality(V) - Cardinality(U \cap V)
    BY FS_Union
  <1>2. Cardinality(U) \in Nat /\ Cardinality(V) \in Nat
    BY FS_CardinalityType
  <1>3. Cardinality(U \cap V) = 0
    BY FS_EmptySet
  <1> QED
    BY <1>1, <1>2, <1>3

\* The members of D by the value c gives them: the sizes of the classes add up.
ClassOf(D, c, x) == {i \in D : c[i] = x}

LEMMA SumOverCounts ==
    ASSUME NEW D, IsFiniteSet(D), NEW c, NEW S, IsFiniteSet(S), NEW f,
           \A x \in S : f[x] = Cardinality(ClassOf(D, c, x))
    PROVE  SumOver(f, S) = Cardinality({i \in D : c[i] \in S})
  <1>1. PICK g : SumOver(f, S) = g[S] /\ Sums(f, S, g)
    BY SumOverIs
  <1>2. {} \in SUBSET S /\ g[{}] = 0
    BY <1>1 DEF Sums
  <1> DEFINE In(T) == {i \in D : c[i] \in T}
  <1>0. \A T \in SUBSET S : T # {} =>
            \E x \in T : /\ g[T] = f[x] + g[T \ {x}] /\ T \ {x} \in SUBSET S
                         /\ Cardinality(T) \in Nat \ {0}
                         /\ Cardinality(T \ {x}) = Cardinality(T) - 1
    BY <1>1, SumStep
  <1>3. \A x \in S : f[x] = Cardinality(In({x}))
    <2> SUFFICES ASSUME NEW x \in S PROVE f[x] = Cardinality(In({x}))
      OBVIOUS
    <2>1. In({x}) = ClassOf(D, c, x)
      BY DEF ClassOf
    <2> QED
      BY <2>1
  <1>4. In({}) = {}
    OBVIOUS
  <1>5. \A T : IsFiniteSet(In(T))
    BY FS_Subset
  <1>6. \A T, x : x \in T => In(T) = In({x}) \cup In(T \ {x}) /\ In({x}) \cap In(T \ {x}) = {}
    OBVIOUS
  <1>8. S \in SUBSET S /\ Cardinality(S) \in Nat
    BY FS_CardinalityType
  <1> HIDE DEF In
  <1>9. \A T \in SUBSET S : g[T] = Cardinality(In(T))
    <2> SUFFICES ASSUME NEW W \in SUBSET S, g[W] # Cardinality(In(W)) PROVE FALSE
      OBVIOUS
    <2> DEFINE Off(T) == T \in SUBSET S /\ g[T] # Cardinality(In(T))
               B == {Cardinality(T) : T \in {U \in SUBSET S : Off(U)}}
    <2>1. B \subseteq Nat /\ B # {}
      BY FS_Subset, FS_CardinalityType
    <2>2. PICK k \in B : \A m \in B : k <= m
      BY <2>1, LeastNat
    <2>3. PICK T : Off(T) /\ Cardinality(T) = k
      OBVIOUS
    <2>4. T # {} /\ T \in SUBSET S
      BY <1>2, <1>4, <2>3, FS_EmptySet
    <2> HIDE DEF B, Off
    <2>5. PICK x \in T : /\ g[T] = f[x] + g[T \ {x}] /\ T \ {x} \in SUBSET S
                         /\ Cardinality(T) \in Nat \ {0}
                         /\ Cardinality(T \ {x}) = Cardinality(T) - 1
      BY <1>0, <2>4
    <2>6. ~Off(T \ {x})
      BY <2>2, <2>3, <2>5 DEF B
    <2>7. g[T \ {x}] = Cardinality(In(T \ {x}))
      BY <2>5, <2>6 DEF Off
    <2>8. Cardinality(In(T)) = Cardinality(In({x})) + Cardinality(In(T \ {x}))
      BY <1>5, <1>6, DisjointSizes
    <2>9. f[x] = Cardinality(In({x}))
      BY <1>3, <2>4
    <2> QED
      BY <2>3, <2>5, <2>7, <2>8, <2>9 DEF Off
  <1>10. SumOver(f, S) = Cardinality(In(S))
    BY <1>1, <1>8, <1>9
  <1> QED
    BY <1>10 DEF In

\* f[x] units on top of a[x], for each x in S: a sum of naturals counts them.
PiledUp(a, f, S) == UNION {{x} \X (a[x] + 1 .. a[x] + f[x]) : x \in S}

LEMMA PilesFinite ==
    ASSUME NEW S, IsFiniteSet(S), NEW a, NEW f, \A x \in S : a[x] \in Nat /\ f[x] \in Nat
    PROVE  IsFiniteSet(PiledUp(a, f, S))
  <1>1. PICK h : h = [x \in S |-> {x} \X (a[x] + 1 .. a[x] + f[x])]
    OBVIOUS
  <1>2. PICK U : U = {h[x] : x \in S}
    OBVIOUS
  <1>3. IsFiniteSet(U)
    BY <1>2, ValuesFinite
  <1>4. \A T \in U : IsFiniteSet(T)
    <2> SUFFICES ASSUME NEW x \in S PROVE IsFiniteSet({x} \X (a[x] + 1 .. a[x] + f[x]))
      BY <1>1, <1>2
    <2>0. PICK i, j \in Int : i = a[x] + 1 /\ j = a[x] + f[x]
      OBVIOUS
    <2>1. IsFiniteSet({x}) /\ IsFiniteSet(i .. j)
      BY FS_Singleton, FS_Interval
    <2> QED
      BY <2>0, <2>1, FS_Product
  <1>5. PiledUp(a, f, S) = UNION U
    BY <1>1, <1>2 DEF PiledUp
  <1> QED
    BY <1>3, <1>4, <1>5, FS_UNION

LEMMA SumIsSize ==
    ASSUME NEW S, IsFiniteSet(S), NEW a, NEW f, \A x \in S : a[x] \in Nat /\ f[x] \in Nat
    PROVE  SumOver(f, S) = Cardinality(PiledUp(a, f, S))
  <1>1. PICK D : D = PiledUp(a, f, S)
    OBVIOUS
  <1>2. IsFiniteSet(D)
    BY <1>1, PilesFinite
  <1>3. PICK c : c = [d \in D |-> d[1]]
    OBVIOUS
  <1>4. \A d \in D : c[d] = d[1] /\ d[1] \in S
    BY <1>1, <1>3 DEF PiledUp
  <1>5. ASSUME NEW x \in S PROVE f[x] = Cardinality(ClassOf(D, c, x))
    <2>1. PICK I : I = a[x] + 1 .. a[x] + f[x]
      OBVIOUS
    <2>2. ClassOf(D, c, x) = {x} \X I
      <3>1. ASSUME NEW d \in ClassOf(D, c, x) PROVE d \in {x} \X I
        <4>1. d \in D /\ d[1] = x
          BY <1>4 DEF ClassOf
        <4>2. PICK y \in S : d \in {y} \X (a[y] + 1 .. a[y] + f[y])
          BY <1>1, <4>1 DEF PiledUp
        <4> QED
          BY <2>1, <4>1, <4>2
      <3>2. ASSUME NEW d \in {x} \X I PROVE d \in ClassOf(D, c, x)
        <4>1. d \in D
          BY <1>1, <2>1 DEF PiledUp
        <4>2. d[1] = x
          OBVIOUS
        <4> QED
          BY <1>4, <4>1, <4>2 DEF ClassOf
      <3> QED
        BY <3>1, <3>2
    <2>3. IsFiniteSet(I) /\ Cardinality(I) = f[x]
      <3>1. PICK i, j \in Int : i = a[x] + 1 /\ j = a[x] + f[x]
        OBVIOUS
      <3>2. IsFiniteSet(i .. j) /\ Cardinality(i .. j) = IF i > j THEN 0 ELSE j - i + 1
        BY FS_Interval
      <3> QED
        BY <2>1, <3>1, <3>2
    <2>4. IsFiniteSet({x}) /\ Cardinality({x}) = 1
      BY FS_Singleton
    <2>5. Cardinality({x} \X I) = Cardinality({x}) * Cardinality(I)
      BY <2>3, <2>4, FS_Product
    <2> QED
      BY <2>2, <2>3, <2>4, <2>5
  <1>6. SumOver(f, S) = Cardinality({d \in D : c[d] \in S})
    BY <1>2, <1>5, SumOverCounts
  <1>7. {d \in D : c[d] \in S} = D
    BY <1>4
  <1> QED
    BY <1>1, <1>6, <1>7

\* The sum over a part, of less, is less.
LEMMA SumGrows ==
    ASSUME NEW S, IsFiniteSet(S), NEW T, T \subseteq S, NEW f, NEW g,
           \A x \in T : f[x] \in Nat, \A x \in S : g[x] \in Nat, \A x \in T : f[x] <= g[x]
    PROVE  SumOver(f, T) <= SumOver(g, S)
  <1>1. PICK a : a = [x \in S |-> 0]
    OBVIOUS
  <1>2. IsFiniteSet(T)
    BY FS_Subset
  <1>3. SumOver(f, T) = Cardinality(PiledUp(a, f, T)) /\ SumOver(g, S) = Cardinality(PiledUp(a, g, S))
    BY <1>1, <1>2, SumIsSize
  <1>4. IsFiniteSet(PiledUp(a, g, S))
    BY <1>1, PilesFinite
  <1>5. PiledUp(a, f, T) \subseteq PiledUp(a, g, S)
    <2> SUFFICES ASSUME NEW x \in T PROVE {x} \X (a[x] + 1 .. a[x] + f[x]) \subseteq PiledUp(a, g, S)
      BY DEF PiledUp
    <2>1. {x} \X (a[x] + 1 .. a[x] + g[x]) \subseteq PiledUp(a, g, S)
      BY DEF PiledUp
    <2>2. a[x] = 0 /\ f[x] \in Nat /\ g[x] \in Nat /\ f[x] <= g[x]
      BY <1>1
    <2>3. a[x] + 1 .. a[x] + f[x] \subseteq a[x] + 1 .. a[x] + g[x]
      BY <2>2
    <2> QED
      BY <2>1, <2>3
  <1>6. Cardinality(PiledUp(a, f, T)) <= Cardinality(PiledUp(a, g, S))
    BY <1>4, <1>5, FS_Subset
  <1> QED
    BY <1>3, <1>6

\* Zeros add nothing, and a sum depends on the values of its members only.
LEMMA SumOfPart ==
    ASSUME NEW S, IsFiniteSet(S), NEW T, T \subseteq S, NEW f, NEW g,
           \A x \in S : f[x] \in Nat, \A x \in T : g[x] = f[x], \A x \in S \ T : f[x] = 0
    PROVE  SumOver(f, S) = SumOver(g, T)
  <1>1. PICK a : a = [x \in S |-> 0]
    OBVIOUS
  <1>2. IsFiniteSet(T)
    BY FS_Subset
  <1>3. SumOver(f, S) = Cardinality(PiledUp(a, f, S)) /\ SumOver(g, T) = Cardinality(PiledUp(a, g, T))
    BY <1>1, <1>2, SumIsSize
  <1>4. \A x \in S \ T : {x} \X (a[x] + 1 .. a[x] + f[x]) = {}
    <2> SUFFICES ASSUME NEW x \in S \ T PROVE {x} \X (a[x] + 1 .. a[x] + f[x]) = {}
      OBVIOUS
    <2>1. a[x] + 1 .. a[x] + f[x] = {}
      BY <1>1
    <2> QED
      BY <2>1
  <1>5. \A x \in T : {x} \X (a[x] + 1 .. a[x] + f[x]) = {x} \X (a[x] + 1 .. a[x] + g[x])
    OBVIOUS
  <1>6. PiledUp(a, f, S) = PiledUp(a, g, T)
    <2>1. ASSUME NEW d \in PiledUp(a, f, S) PROVE d \in PiledUp(a, g, T)
      <3>1. PICK x \in S : d \in {x} \X (a[x] + 1 .. a[x] + f[x])
        BY DEF PiledUp
      <3>2. x \in T
        BY <1>4, <3>1
      <3> QED
        BY <1>5, <3>1, <3>2 DEF PiledUp
    <2>2. ASSUME NEW d \in PiledUp(a, g, T) PROVE d \in PiledUp(a, f, S)
      <3>1. PICK x \in T : d \in {x} \X (a[x] + 1 .. a[x] + g[x])
        BY DEF PiledUp
      <3> QED
        BY <1>5, <3>1 DEF PiledUp
    <2> QED
      BY <2>1, <2>2
  <1> QED
    BY <1>3, <1>6

\* The sum of sums.
LEMMA SumAdds ==
    ASSUME NEW S, IsFiniteSet(S), NEW f, NEW g, NEW h,
           \A x \in S : f[x] \in Nat /\ g[x] \in Nat /\ h[x] = f[x] + g[x]
    PROVE  SumOver(h, S) = SumOver(f, S) + SumOver(g, S)
  <1>1. PICK a : a = [x \in S |-> 0]
    OBVIOUS
  <1>2. PICK F, G, H : F = PiledUp(a, f, S) /\ G = PiledUp(f, g, S) /\ H = PiledUp(a, h, S)
    OBVIOUS
  <1>3. /\ SumOver(f, S) = Cardinality(F) /\ SumOver(g, S) = Cardinality(G)
        /\ SumOver(h, S) = Cardinality(H)
    BY <1>1, <1>2, SumIsSize
  <1>4. IsFiniteSet(F) /\ IsFiniteSet(G)
    BY <1>1, <1>2, PilesFinite
  <1>5. \A d : /\ d \in F <=> \E x \in S : d \in {x} \X (1 .. f[x])
               /\ d \in G <=> \E x \in S : d \in {x} \X (f[x] + 1 .. f[x] + g[x])
               /\ d \in H <=> \E x \in S : d \in {x} \X (1 .. f[x] + g[x])
    <2>1. \A x \in S : /\ a[x] + 1 .. a[x] + f[x] = 1 .. f[x]
                       /\ a[x] + 1 .. a[x] + h[x] = 1 .. f[x] + g[x]
      BY <1>1
    <2> QED
      BY <1>2, <2>1 DEF PiledUp
  <1>6. H = F \cup G
    <2>1. ASSUME NEW x \in S PROVE 1 .. f[x] + g[x] = (1 .. f[x]) \cup (f[x] + 1 .. f[x] + g[x])
      OBVIOUS
    <2> QED
      BY <1>5, <2>1
  <1>7. F \cap G = {}
    <2> SUFFICES ASSUME NEW d \in F, d \in G PROVE FALSE
      OBVIOUS
    <2>1. PICK x \in S : d \in {x} \X (1 .. f[x])
      BY <1>5
    <2>2. PICK y \in S : d \in {y} \X (f[y] + 1 .. f[y] + g[y])
      BY <1>5
    <2>3. x = d[1] /\ y = d[1] /\ d[2] \in 1 .. f[x] /\ d[2] \in f[y] + 1 .. f[y] + g[y]
      BY <2>1, <2>2
    <2>4. f[x] \in Nat /\ g[x] \in Nat
      OBVIOUS
    <2> QED
      BY <2>3, <2>4
  <1> QED
    BY <1>3, <1>4, <1>6, <1>7, DisjointSizes
=============================================================================
