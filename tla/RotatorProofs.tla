--------------------------- MODULE RotatorProofs ---------------------------
(***************************************************************************)
(* pkg/rotator/rotator.go, for any keys, providers, limits and callers: it *)
(* stays well formed, keeps to its limits on requests, lets healthy keys   *)
(* take turns, decides on requests and tokens as the abstract pool of      *)
(* KeyPool does, and loses no key for good.                                *)
(***************************************************************************)
EXTENDS RotatorAudit, TLAPS, SequenceTheorems, FiniteSetTheorems, WellFoundedInduction

(* Every non-empty set of naturals has a least element, which is its Min.  *)
LEMMA MinOfNaturals ==
  ASSUME NEW S \in SUBSET Nat, S # {}
  PROVE  Min(S) \in S /\ \A y \in S : Min(S) <= y
<1> DEFINE R == {ss \in Nat \X Nat : ss[1] < ss[2]}
<1>1. IsWellFoundedOn(R, Nat)
  BY NatLessThanWellFounded, Zenon DEF OpToRel
<1>2. PICK x \in S : \A y \in S : ~(<<y, x>> \in R)
  <2> HIDE DEF R
  <2> QED BY <1>1, WFMin
<1>3. \A a, b \in Nat : a < b => <<a, b>> \in R
  OBVIOUS
<1> HIDE DEF R
<1>4. ASSUME NEW y \in S PROVE x <= y
  <2>1. ~(y < x)
    BY <1>2, <1>3
  <2>2. QED
    BY <2>1, x \in Nat, y \in Nat
<1>5. QED
  BY <1>4, Zenon DEF Min

----------------------------------------------------------------------------
(* Induction, and the sums that SumFunction computes.                      *)

(* Strong induction over the naturals, for a set of naturals: a set that   *)
(* has a number whenever it has all smaller ones has them all.             *)
LEMMA AllNaturals ==
  ASSUME NEW B \in SUBSET Nat,
         \A n \in Nat : (\A m \in Nat : m < n => m \in B) => n \in B
  PROVE  \A n \in Nat : n \in B
<1> SUFFICES ASSUME NEW n \in Nat, n \notin B PROVE FALSE
  OBVIOUS
<1> DEFINE C == Nat \ B
<1>1. C \in SUBSET Nat /\ C # {}
  OBVIOUS
<1>2. Min(C) \in C /\ \A m \in C : Min(C) <= m
  BY MinOfNaturals
<1>3. \A m \in Nat : m < Min(C) => m \in B
  <2>1. Min(C) \in Nat
    BY <1>2
  <2>2. \A m \in Nat : m < Min(C) => m \notin C
    <3> HIDE DEF C
    <3> QED BY <1>2, <2>1
  <2> QED BY <2>2
<1> QED
  BY <1>2

(* Induction over the size of finite sets, in the same form.               *)
LEMMA AllFiniteSets ==
  ASSUME NEW U, NEW B \in SUBSET (SUBSET U),
         \A S \in SUBSET U :
           IsFiniteSet(S) /\ (\A x \in S : S \ {x} \in B) => S \in B
  PROVE  \A S \in SUBSET U : IsFiniteSet(S) => S \in B
<1> DEFINE P == {n \in Nat : \A S \in SUBSET U :
                              IsFiniteSet(S) /\ Cardinality(S) = n => S \in B}
<1>1. ASSUME NEW n \in Nat, \A m \in Nat : m < n => m \in P PROVE n \in P
  <2> SUFFICES ASSUME NEW S \in SUBSET U, IsFiniteSet(S), Cardinality(S) = n
               PROVE  S \in B
    OBVIOUS
  <2>1. ASSUME NEW x \in S PROVE S \ {x} \in B
    <3>1. IsFiniteSet(S \ {x}) /\ Cardinality(S \ {x}) = n - 1
      BY FS_RemoveElement
    <3>2. Cardinality(S \ {x}) \in Nat
      BY <3>1, FS_CardinalityType
    <3>3. n - 1 \in P
      BY <1>1, <3>1, <3>2
    <3> QED BY <3>1, <3>3
  <2> QED BY <2>1
<1>2. \A n \in Nat : n \in P
  <2> HIDE DEF P
  <2>1. P \in SUBSET Nat
    BY DEF P
  <2> QED BY <1>1, <2>1, AllNaturals
<1> QED
  BY <1>2, FS_CardinalityType

\* The function that SumFunctionOnSet computes set by set: g gives each part
\* of S the sum of f over it, taking out one element at a time.
Some(T) == CHOOSE x \in T : TRUE

Sums(g, f, S) ==
  g = [T \in SUBSET S |-> IF T = {} THEN 0 ELSE f[Some(T)] + g[T \ {Some(T)}]]

(* The sum of the community modules, with its folds expanded.              *)
LEMMA SumUnfolded ==
  ASSUME NEW f, NEW S
  PROVE  SumFunctionOnSet(f, S) = (CHOOSE g : Sums(g, f, S))[S]
BY DEF SumFunctionOnSet, FoldFunctionOnSet, MapThenFoldSet, Sums, Some

(* Some picks a member of what is not empty.                               *)
LEMMA SomeOf == \A T : T # {} => Some(T) \in T
BY DEF Some

(* Two such functions agree on every finite set on which their summands do.*)
LEMMA SumsAgree ==
  ASSUME NEW f, NEW S, NEW g, Sums(g, f, S),
         NEW e, NEW R, NEW h, Sums(h, e, R),
         NEW T \in SUBSET S, T \in SUBSET R, IsFiniteSet(T),
         \A x \in T : f[x] = e[x]
  PROVE  g[T] = h[T]
<1> DEFINE B == {U \in SUBSET T : g[U] = h[U]}
<1>1. ASSUME NEW U \in SUBSET T, \A x \in U : U \ {x} \in B PROVE U \in B
  <2>1. U \in SUBSET S /\ U \in SUBSET R
    OBVIOUS
  <2>2. CASE U = {}
    BY <2>2 DEF Sums
  <2>3. CASE U # {}
    <3>1. Some(U) \in U
      BY <2>3, SomeOf
    <3>2. g[U \ {Some(U)}] = h[U \ {Some(U)}] /\ f[Some(U)] = e[Some(U)]
      BY <1>1, <3>1
    <3>3. g[U] = f[Some(U)] + g[U \ {Some(U)}]
      BY <2>3 DEF Sums
    <3>4. h[U] = e[Some(U)] + h[U \ {Some(U)}]
      BY <2>3 DEF Sums
    <3> QED BY <3>2, <3>3, <3>4
  <2> QED BY <2>2, <2>3
<1>2. B \in SUBSET (SUBSET T)
  OBVIOUS
<1>3. T \in SUBSET T
  OBVIOUS
<1> HIDE DEF B
<1>4. \A U \in SUBSET T : IsFiniteSet(U) => U \in B
  BY <1>1, <1>2, AllFiniteSets
<1>5. T \in B
  BY <1>4
<1> QED
  BY <1>5 DEF B

(* There is such a function for every finite set: defined for the parts of *)
(* up to n elements, it extends to those of n + 1.                         *)
LEMMA SumsExist ==
  ASSUME NEW S, IsFiniteSet(S), NEW f
  PROVE  \E g : Sums(g, f, S)
<1> DEFINE Small(n) == {T \in SUBSET S : Cardinality(T) <= n}
           UpTo(g, n) == g = [T \in Small(n) |->
                                IF T = {} THEN 0 ELSE f[Some(T)] + g[T \ {Some(T)}]]
           P == {n \in Nat : \E g : UpTo(g, n)}
<1>0. ASSUME NEW T \in SUBSET S
      PROVE  IsFiniteSet(T) /\ Cardinality(T) \in Nat /\ Cardinality(T) <= Cardinality(S)
  BY FS_Subset, FS_CardinalityType
<1>1. ASSUME NEW T \in SUBSET S, T # {}
      PROVE  /\ T \ {Some(T)} \in SUBSET S
             /\ Cardinality(T \ {Some(T)}) = Cardinality(T) - 1
  BY <1>0, <1>1, SomeOf, FS_RemoveElement
<1>2. ASSUME NEW n \in Nat, \A m \in Nat : m < n => m \in P PROVE n \in P
  <2>1. CASE n = 0
    <3> DEFINE g == [T \in Small(0) |-> 0]
    <3>1. \A T \in Small(0) : T = {}
      BY <1>0, FS_EmptySet
    <3>2. g = [T \in Small(0) |-> IF T = {} THEN 0 ELSE f[Some(T)] + g[T \ {Some(T)}]]
      BY <3>1
    <3>3. UpTo(g, 0)
      BY <3>2
    <3> QED BY <2>1, <3>3
  <2>2. CASE n # 0
    <3> DEFINE l == n - 1
    <3>1. l \in Nat /\ l < n
      BY <2>2
    <3>2. PICK h : UpTo(h, l)
      BY <1>2, <3>1
    <3> DEFINE g == [T \in Small(n) |->
                       IF T = {} THEN 0 ELSE f[Some(T)] + h[T \ {Some(T)}]]
    <3>3. ASSUME NEW T \in Small(n), T # {} PROVE T \ {Some(T)} \in Small(l)
      BY <1>0, <1>1, <3>3
    <3>4. ASSUME NEW T \in Small(l) PROVE g[T] = h[T]
      <4>1. T \in Small(n)
        BY <1>0
      <4>2. g[T] = IF T = {} THEN 0 ELSE f[Some(T)] + h[T \ {Some(T)}]
        BY <4>1
      <4>3. h[T] = IF T = {} THEN 0 ELSE f[Some(T)] + h[T \ {Some(T)}]
        BY <3>2
      <4> QED BY <4>2, <4>3
    <3>5. \A T \in Small(n) : T # {} => g[T \ {Some(T)}] = h[T \ {Some(T)}]
      BY <3>3, <3>4
    <3>6. g = [T \in Small(n) |-> IF T = {} THEN 0 ELSE f[Some(T)] + g[T \ {Some(T)}]]
      BY <3>5
    <3>7. UpTo(g, n)
      BY <3>6
    <3> QED BY <3>7
  <2> QED BY <2>1, <2>2
<1>3. Cardinality(S) \in P
  <2>1. P \in SUBSET Nat
    OBVIOUS
  <2>2. Cardinality(S) \in Nat
    BY FS_CardinalityType
  <2> HIDE DEF P
  <2> QED BY <1>2, <2>1, <2>2, AllNaturals
<1>4. Small(Cardinality(S)) = SUBSET S
  BY <1>0
<1>5. PICK g : UpTo(g, Cardinality(S))
  BY <1>3
<1>6. Sums(g, f, S)
  BY <1>4, <1>5 DEF Sums
<1> QED
  BY <1>6

(* The sum over the empty set, and over a set by way of one chosen element;*)
(* it depends on the summands only.                                        *)
LEMMA SumOfSome ==
  ASSUME NEW f, NEW S, IsFiniteSet(S)
  PROVE  SumFunctionOnSet(f, S) =
           IF S = {} THEN 0 ELSE f[Some(S)] + SumFunctionOnSet(f, S \ {Some(S)})
<1> DEFINE g == CHOOSE g : Sums(g, f, S)
<1>1. Sums(g, f, S)
  BY SumsExist
<1>2. SumFunctionOnSet(f, S) = g[S]
  BY SumUnfolded
<1> HIDE DEF g
<1>3. g[S] = IF S = {} THEN 0 ELSE f[Some(S)] + g[S \ {Some(S)}]
  BY <1>1 DEF Sums
<1>4. ASSUME S # {} PROVE g[S \ {Some(S)}] = SumFunctionOnSet(f, S \ {Some(S)})
  <2> DEFINE R == S \ {Some(S)}
             h == CHOOSE h : Sums(h, f, R)
  <2>1. R \in SUBSET S /\ IsFiniteSet(R)
    BY FS_Subset
  <2> HIDE DEF R
  <2>2. Sums(h, f, R)
    BY <2>1, SumsExist
  <2>3. SumFunctionOnSet(f, R) = h[R]
    BY SumUnfolded
  <2> HIDE DEF h
  <2>4. g[R] = h[R]
    BY <1>1, <2>1, <2>2, SumsAgree
  <2> QED BY <2>3, <2>4 DEF R
<1> QED
  BY <1>2, <1>3, <1>4

(* A sum depends on its summands only.                                     *)
LEMMA SumSame ==
  ASSUME NEW f, NEW e, NEW S, IsFiniteSet(S), \A x \in S : f[x] = e[x]
  PROVE  SumFunctionOnSet(f, S) = SumFunctionOnSet(e, S)
<1> DEFINE g == CHOOSE g : Sums(g, f, S)
           h == CHOOSE h : Sums(h, e, S)
<1>1. Sums(g, f, S) /\ Sums(h, e, S)
  BY SumsExist
<1>2. SumFunctionOnSet(f, S) = g[S] /\ SumFunctionOnSet(e, S) = h[S]
  BY SumUnfolded
<1> HIDE DEF g, h
<1> QED
  BY <1>1, <1>2, SumsAgree

(* A sum of integers is an integer, and one of naturals is a natural.      *)
LEMMA SumTyped ==
  ASSUME NEW f, NEW S, IsFiniteSet(S), \A x \in S : f[x] \in Int
  PROVE  /\ SumFunctionOnSet(f, S) \in Int
         /\ (\A x \in S : f[x] \in Nat) => SumFunctionOnSet(f, S) \in Nat
<1> DEFINE Sum(T) == SumFunctionOnSet(f, T)
           B == {T \in SUBSET S :
                   Sum(T) \in Int /\ ((\A x \in S : f[x] \in Nat) => Sum(T) \in Nat)}
<1>1. ASSUME NEW T \in SUBSET S, IsFiniteSet(T), \A x \in T : T \ {x} \in B
      PROVE  T \in B
  <2>1. Sum(T) = IF T = {} THEN 0 ELSE f[Some(T)] + Sum(T \ {Some(T)})
    BY <1>1, SumOfSome
  <2>2. T # {} => Some(T) \in T
    BY SomeOf
  <2> HIDE DEF Sum
  <2> QED BY <1>1, <2>1, <2>2
<1>2. B \in SUBSET (SUBSET S)
  OBVIOUS
<1> HIDE DEF B
<1>3. \A T \in SUBSET S : IsFiniteSet(T) => T \in B
  BY <1>1, <1>2, AllFiniteSets
<1>4. S \in B
  BY <1>3
<1> QED
  BY <1>4 DEF B

(* A sum may be taken apart at any of its elements.                        *)
LEMMA SumOfAny ==
  ASSUME NEW f, NEW S, IsFiniteSet(S), \A x \in S : f[x] \in Int, NEW a \in S
  PROVE  SumFunctionOnSet(f, S) = f[a] + SumFunctionOnSet(f, S \ {a})
<1> DEFINE Sum(T) == SumFunctionOnSet(f, T)
           B == {T \in SUBSET S : \A y \in T : Sum(T) = f[y] + Sum(T \ {y})}
<1>1. ASSUME NEW T \in SUBSET S, IsFiniteSet(T), \A x \in T : T \ {x} \in B
      PROVE  T \in B
  <2> DEFINE x == Some(T)
  <2> SUFFICES ASSUME NEW y \in T PROVE Sum(T) = f[y] + Sum(T \ {y})
    OBVIOUS
  <2>1. x \in T /\ Sum(T) = f[x] + Sum(T \ {x})
    BY <1>1, SomeOf, SumOfSome
  <2>2. CASE y # x
    <3>1. IsFiniteSet((T \ {x}) \ {y})
      BY FS_Subset
    <3>2. Sum((T \ {x}) \ {y}) \in Int
      BY <3>1, SumTyped
    <3> HIDE DEF x, Sum
    <3>3. y \in T \ {x} /\ x \in T \ {y} /\ (T \ {x}) \ {y} = (T \ {y}) \ {x}
      BY <2>1, <2>2
    <3>4. Sum(T \ {x}) = f[y] + Sum((T \ {x}) \ {y})
      BY <1>1, <3>3
    <3>5. Sum(T \ {y}) = f[x] + Sum((T \ {x}) \ {y})
      BY <1>1, <3>3
    <3>6. f[x] \in Int /\ f[y] \in Int
      BY <2>1
    <3> QED BY <2>1, <3>2, <3>4, <3>5
  <2> QED BY <2>1, <2>2
<1>2. B \in SUBSET (SUBSET S)
  OBVIOUS
<1> HIDE DEF B
<1>3. \A T \in SUBSET S : IsFiniteSet(T) => T \in B
  BY <1>1, <1>2, AllFiniteSets
<1>4. S \in B
  BY <1>3
<1> QED
  BY <1>4 DEF B

(* Summing from d + 1 to d + n what another function has from 1 to n.      *)
LEMMA SumShifted ==
  ASSUME NEW d \in Nat, NEW f, NEW e, NEW l \in Nat,
         \A x \in 1..l : f[x] \in Int /\ e[x + d] = f[x]
  PROVE  SumFunctionOnSet(f, 1..l) = SumFunctionOnSet(e, (d + 1)..(d + l))
<1> DEFINE Same(n) == SumFunctionOnSet(f, 1..n) = SumFunctionOnSet(e, (d + 1)..(d + n))
           P == {n \in Nat : n <= l => Same(n)}
<1>1. ASSUME NEW n \in Nat, \A m \in Nat : m < n => m \in P PROVE n \in P
  <2> SUFFICES ASSUME n <= l PROVE Same(n)
    OBVIOUS
  <2>1. IsFiniteSet(1..n) /\ IsFiniteSet((d + 1)..(d + n))
    BY FS_Interval
  <2>2. CASE n = 0
    <3>1. 1..n = {} /\ (d + 1)..(d + n) = {}
      BY <2>2
    <3> QED BY <2>1, <3>1, SumOfSome
  <2>3. CASE n # 0
    <3>1. n - 1 \in Nat /\ n - 1 < n /\ n - 1 <= l
      BY <2>3
    <3>2. Same(n - 1)
      BY <1>1, <3>1
    <3>3. n \in 1..n /\ (1..n) \ {n} = 1..(n - 1)
      BY <2>3
    <3>4. /\ d + n \in (d + 1)..(d + n)
          /\ ((d + 1)..(d + n)) \ {d + n} = (d + 1)..(d + (n - 1))
      BY <2>3
    <3>5. \A x \in 1..n : f[x] \in Int
      OBVIOUS
    <3>6. \A y \in (d + 1)..(d + n) : e[y] \in Int
      <4> TAKE y \in (d + 1)..(d + n)
      <4>1. y - d \in 1..l /\ (y - d) + d = y
        OBVIOUS
      <4> QED OBVIOUS
    <3>7. SumFunctionOnSet(f, 1..n) = f[n] + SumFunctionOnSet(f, 1..(n - 1))
      <4> DEFINE A == 1..n
      <4>1. IsFiniteSet(A) /\ n \in A /\ A \ {n} = 1..(n - 1) /\ \A x \in A : f[x] \in Int
        BY <2>1, <3>3
      <4> HIDE DEF A
      <4>2. SumFunctionOnSet(f, A) = f[n] + SumFunctionOnSet(f, A \ {n})
        BY <4>1, SumOfAny
      <4> QED BY <4>1, <4>2 DEF A
    <3>8. SumFunctionOnSet(e, (d + 1)..(d + n))
            = e[d + n] + SumFunctionOnSet(e, (d + 1)..(d + (n - 1)))
      <4> DEFINE A == (d + 1)..(d + n)
                 a == d + n
      <4>1. /\ IsFiniteSet(A) /\ a \in A /\ A \ {a} = (d + 1)..(d + (n - 1))
            /\ \A y \in A : e[y] \in Int
        BY <2>1, <3>4, <3>6
      <4> HIDE DEF A, a
      <4>2. SumFunctionOnSet(e, A) = e[a] + SumFunctionOnSet(e, A \ {a})
        BY <4>1, SumOfAny
      <4> QED BY <4>1, <4>2 DEF A, a
    <3>9. e[d + n] = f[n]
      BY <3>3
    <3> QED BY <3>2, <3>7, <3>8
  <2> QED BY <2>2, <2>3
<1>2. P \in SUBSET Nat
  OBVIOUS
<1> HIDE DEF P
<1>3. l \in P
  BY <1>1, <1>2, AllNaturals
<1> QED
  BY <1>3 DEF P

(* Leaving out the first summands of a sum of naturals leaves no more.     *)
LEMMA SumOfEnd ==
  ASSUME NEW f, NEW l \in Nat, \A x \in 1..l : f[x] \in Nat, NEW d \in 0..l
  PROVE  SumFunctionOnSet(f, (d + 1)..l) <= SumFunctionOnSet(f, 1..l)
<1> DEFINE Sum(n) == SumFunctionOnSet(f, (n + 1)..l)
           P == {n \in Nat : n <= l => Sum(n) <= Sum(0)}
<1>0. ASSUME NEW n \in Nat
      PROVE  IsFiniteSet((n + 1)..l) /\ \A x \in (n + 1)..l : f[x] \in Nat
  <2>1. IsFiniteSet((n + 1)..l)
    BY FS_Interval
  <2>2. \A x \in (n + 1)..l : x \in 1..l
    OBVIOUS
  <2> QED BY <2>1
<1>1. ASSUME NEW n \in Nat PROVE Sum(n) \in Nat
  BY <1>0, SumTyped
<1>2. ASSUME NEW n \in Nat, n < l PROVE Sum(n + 1) <= Sum(n)
  <2>1. n + 1 \in (n + 1)..l /\ ((n + 1)..l) \ {n + 1} = ((n + 1) + 1)..l
    BY <1>2
  <2>2. Sum(n) = f[n + 1] + Sum(n + 1)
    BY <1>0, <2>1, SumOfAny
  <2>3. f[n + 1] \in Nat
    BY <2>1
  <2>4. Sum(n) \in Nat /\ Sum(n + 1) \in Nat
    BY <1>1
  <2> HIDE DEF Sum
  <2> QED BY <2>2, <2>3, <2>4
<1>3. ASSUME NEW n \in Nat, \A m \in Nat : m < n => m \in P PROVE n \in P
  <2> SUFFICES ASSUME n <= l PROVE Sum(n) <= Sum(0)
    OBVIOUS
  <2>1. CASE n = 0
    <3>1. Sum(0) \in Nat
      BY <1>1
    <3> HIDE DEF Sum
    <3> QED BY <2>1, <3>1
  <2>2. CASE n # 0
    <3>1. n - 1 \in Nat /\ n - 1 < n /\ n - 1 < l /\ n - 1 <= l /\ (n - 1) + 1 = n
      BY <2>2
    <3>2. Sum(n - 1) <= Sum(0)
      BY <1>3, <3>1
    <3> HIDE DEF Sum
    <3>3. Sum(n) <= Sum(n - 1)
      BY <1>2, <3>1
    <3>4. Sum(n) \in Nat /\ Sum(n - 1) \in Nat /\ Sum(0) \in Nat
      BY <1>1, <3>1
    <3> QED BY <3>2, <3>3, <3>4
  <2> QED BY <2>1, <2>2
<1>4. P \in SUBSET Nat
  OBVIOUS
<1> HIDE DEF P
<1>5. d \in P
  BY <1>3, <1>4, AllNaturals
<1>6. Sum(d) <= Sum(0)
  BY <1>5 DEF P
<1> QED
  BY <1>6

----------------------------------------------------------------------------
(* The windows.                                                            *)

(* FirstLive is where the loop of pruneWindow stops: every entry before it *)
(* is older than the window, and the entry it stops at, if any, is not.    *)
LEMMA FirstLiveStops ==
  ASSUME NEW t \in Time, NEW times \in Seq(Time)
  PROVE  /\ FirstLive(t, times) \in 1..(Len(times) + 1)
         /\ \A i \in 1..(FirstLive(t, times) - 1) : times[i] < t - Window
         /\ FirstLive(t, times) <= Len(times) =>
              times[FirstLive(t, times)] >= t - Window
<1> DEFINE S == {i \in 1..(Len(times) + 1) : i <= Len(times) => times[i] >= t - Window}
<1>1. S \in SUBSET Nat /\ S # {}
  <2>1. Len(times) \in Nat
    OBVIOUS
  <2>2. Len(times) + 1 \in S
    OBVIOUS
  <2>3. QED
    OBVIOUS
<1>2. Min(S) \in S /\ \A y \in S : Min(S) <= y
  <2> HIDE DEF S
  <2> QED BY <1>1, MinOfNaturals
<1>3. ASSUME NEW i \in 1..(Min(S) - 1)
      PROVE  times[i] < t - Window
  <2>1. Len(times) \in Nat /\ Min(S) \in 1..(Len(times) + 1)
    BY <1>2
  <2>2. i \in 1..Len(times) /\ i < Min(S)
    BY <2>1
  <2>3. i \notin S
    BY <1>2, <2>1
  <2>4. times[i] \in Nat /\ t \in Nat /\ Window \in Nat
    BY <2>2, RotatorAssumption DEF Time
  <2>5. QED
    BY <2>2, <2>3, <2>4
<1>4. QED
  BY <1>2, <1>3 DEF FirstLive

(* What pruneWindow returns is a list of the same type, a suffix of the    *)
(* one it was given.                                                       *)
LEMMA PruneTimesSuffix ==
  ASSUME NEW t \in Time, NEW times \in Seq(Time)
  PROVE  LET d == FirstLive(t, times) - 1 IN
         /\ d \in 0..Len(times)
         /\ pruneTimes(t, times) \in Seq(Time)
         /\ Len(pruneTimes(t, times)) = Len(times) - d
         /\ \A i \in 1..(Len(times) - d) : pruneTimes(t, times)[i] = times[i + d]
<1>1. /\ Len(times) \in Nat
      /\ FirstLive(t, times) \in 1..(Len(times) + 1)
  BY FirstLiveStops
<1>2. \A i \in FirstLive(t, times)..Len(times) : times[i] \in Time
  BY <1>1
<1>3. QED
  BY <1>1 DEF pruneTimes

\* v is what is left of u without its first d entries.
LeftOf(v, u, d) ==
  d \in 0..Len(u) /\ Len(v) = Len(u) - d /\ \A i \in 1..Len(v) : v[i] = u[i + d]

(* pruneWindow on token usages drops the entries before the first that is  *)
(* not older than the window, and no other.                                *)
LEMMA PruneTokensLeft ==
  ASSUME NEW t \in Time, NEW usage \in Seq(Usage)
  PROVE  /\ pruneTokens(t, usage) \in Seq(Usage)
         /\ \E d \in 0..Len(usage) :
              /\ LeftOf(pruneTokens(t, usage), usage, d)
              /\ \A i \in 1..d : usage[i].at < t - Window
              /\ d < Len(usage) => usage[d + 1].at >= t - Window
<1> DEFINE at == [i \in 1..Len(usage) |-> usage[i].at]
           d == FirstLive(t, at) - 1
           v == SubSeq(usage, FirstLive(t, at), Len(usage))
<1>1. Len(usage) \in Nat /\ \A i \in 1..Len(usage) : usage[i] \in Usage
  OBVIOUS
<1>2. at \in Seq(Time) /\ Len(at) = Len(usage)
  BY <1>1 DEF Usage
<1>3. \A i \in 1..Len(usage) : at[i] = usage[i].at
  OBVIOUS
<1>4. pruneTokens(t, usage) = v
  BY DEF pruneTokens
<1> HIDE DEF at
<1>5. /\ FirstLive(t, at) \in 1..(Len(usage) + 1)
      /\ \A i \in 1..(FirstLive(t, at) - 1) : at[i] < t - Window
      /\ FirstLive(t, at) <= Len(usage) => at[FirstLive(t, at)] >= t - Window
  BY <1>2, FirstLiveStops
<1>6. /\ v \in Seq(Usage) /\ Len(v) = (Len(usage) - FirstLive(t, at)) + 1
      /\ \A i \in 1..((Len(usage) - FirstLive(t, at)) + 1) :
           v[i] = usage[(FirstLive(t, at) + i) - 1]
  BY <1>5
<1> HIDE DEF v
<1>7. d \in 0..Len(usage) /\ FirstLive(t, at) = d + 1
  BY <1>5
<1> HIDE DEF d
<1>8. LeftOf(v, usage, d)
  <2>1. Len(v) = Len(usage) - d
    BY <1>6, <1>7
  <2>2. \A i \in 1..Len(v) : v[i] = usage[i + d]
    <3> TAKE i \in 1..Len(v)
    <3>1. ((d + 1) + i) - 1 = i + d
      BY <1>7
    <3> QED BY <1>6, <1>7
  <2> QED BY <1>7, <2>1, <2>2 DEF LeftOf
<1>9. \A i \in 1..d : usage[i].at < t - Window
  BY <1>3, <1>5, <1>7
<1>10. d < Len(usage) => usage[d + 1].at >= t - Window
  BY <1>3, <1>5, <1>7
<1> QED
  BY <1>4, <1>6, <1>7, <1>8, <1>9, <1>10

\* The tokens of the entries of u, by position.
TokensOf(u) == [i \in 1..Len(u) |-> u[i].tokens]

(* What healthy sums up of a list: an integer, 0 for an empty list.        *)
LEMMA UsedTyped ==
  ASSUME NEW u \in Seq(Usage)
  PROVE  /\ Used(u) = SumFunctionOnSet(TokensOf(u), 1..Len(u))
         /\ Used(u) \in Int /\ (Len(u) = 0 => Used(u) = 0)
<1>1. Used(u) = SumFunctionOnSet(TokensOf(u), 1..Len(u))
  BY DEF Used, SumFunction, TokensOf
<1>2. Len(u) \in Nat /\ \A i \in 1..Len(u) : TokensOf(u)[i] \in Int
  <2>1. Len(u) \in Nat /\ \A i \in 1..Len(u) : u[i] \in Usage
    OBVIOUS
  <2> QED BY <2>1 DEF TokensOf, Usage
<1> DEFINE f == TokensOf(u)
           S == 1..Len(u)
<1>3. IsFiniteSet(S) /\ \A x \in S : f[x] \in Int
  BY <1>2, FS_Interval
<1>4. Len(u) = 0 => S = {}
  OBVIOUS
<1> HIDE DEF f, S
<1>5. SumFunctionOnSet(f, S) \in Int /\ (S = {} => SumFunctionOnSet(f, S) = 0)
  BY <1>3, SumTyped, SumOfSome
<1> QED
  BY <1>1, <1>5 DEF f, S

(* A charge adds its tokens to the sum.                                    *)
LEMMA UsedAppended ==
  ASSUME NEW u \in Seq(Usage), NEW e \in Usage
  PROVE  Used(Append(u, e)) = Used(u) + e.tokens
<1> DEFINE v == Append(u, e)
           l == Len(u)
           f == TokensOf(u)
           g == TokensOf(v)
<1>1. l \in Nat /\ v \in Seq(Usage) /\ Len(v) = l + 1 /\ v[l + 1] = e
      /\ \A i \in 1..l : v[i] = u[i]
  OBVIOUS
<1>2. \A i \in 1..(l + 1) : v[i] \in Usage
  OBVIOUS
<1> HIDE DEF v
<1>3. Used(u) = SumFunctionOnSet(f, 1..l) /\ Used(v) = SumFunctionOnSet(g, 1..(l + 1))
  BY <1>1, UsedTyped
<1>4. /\ \A i \in 1..l : f[i] = g[i]
      /\ \A i \in 1..(l + 1) : g[i] \in Int
      /\ g[l + 1] = e.tokens
  BY <1>1, <1>2 DEF TokensOf, Usage
<1> HIDE DEF f, g, l
<1> DEFINE S == 1..(l + 1)
           a == l + 1
<1>5. IsFiniteSet(1..l) /\ IsFiniteSet(S)
  BY <1>1, FS_Interval
<1>6. a \in S /\ S \ {a} = 1..l /\ \A i \in S : g[i] \in Int
  BY <1>1, <1>4
<1> HIDE DEF S, a
<1>7. SumFunctionOnSet(g, S) = g[a] + SumFunctionOnSet(g, 1..l)
  <2>1. SumFunctionOnSet(g, S) = g[a] + SumFunctionOnSet(g, S \ {a})
    <3>1. IsFiniteSet(S) /\ a \in S /\ \A i \in S : g[i] \in Int
      BY <1>5, <1>6
    <3> QED BY <3>1, SumOfAny
  <2> QED BY <1>6, <2>1
<1>8. SumFunctionOnSet(f, 1..l) = SumFunctionOnSet(g, 1..l)
  BY <1>4, <1>5, SumSame
<1>9. Used(u) \in Int /\ e.tokens \in Int
  BY UsedTyped DEF Usage
<1> QED
  BY <1>3, <1>4, <1>7, <1>8, <1>9 DEF S, a, v

(* The sum of what is left of a list is the list's sum from there on, and  *)
(* no larger than the whole if nothing in it is negative.                  *)
LEMMA UsedOfLeft ==
  ASSUME NEW u \in Seq(Usage), NEW v \in Seq(Usage), NEW d, LeftOf(v, u, d)
  PROVE  /\ Used(v) = SumFunctionOnSet(TokensOf(u), (d + 1)..Len(u))
         /\ (\A i \in 1..Len(u) : u[i].tokens >= 0) => Used(v) <= Used(u)
<1> DEFINE f == TokensOf(v)
           g == TokensOf(u)
           l == Len(v)
<1>1. d \in Nat /\ l \in Nat /\ Len(u) \in Nat /\ Len(u) = d + l /\ d \in 0..Len(u)
  BY DEF LeftOf
<1>2. Used(v) = SumFunctionOnSet(f, 1..l) /\ Used(u) = SumFunctionOnSet(g, 1..Len(u))
  BY UsedTyped
<1>3. /\ \A i \in 1..l : v[i] \in Usage /\ v[i] = u[i + d] /\ i + d \in 1..Len(u)
      /\ \A i \in 1..Len(u) : u[i] \in Usage
  <2>1. \A i \in 1..l : i + d \in 1..Len(u)
    BY <1>1
  <2> QED BY <2>1 DEF LeftOf
<1>4. \A i \in 1..l : f[i] \in Int /\ g[i + d] = f[i]
  BY <1>3 DEF TokensOf, Usage
<1>5. \A i \in 1..Len(u) : g[i] = u[i].tokens /\ u[i].tokens \in Int
  BY <1>3 DEF TokensOf, Usage
<1> HIDE DEF f, g, l
<1>6. SumFunctionOnSet(f, 1..l) = SumFunctionOnSet(g, (d + 1)..(d + l))
  <2>1. d \in Nat /\ l \in Nat
    BY <1>1
  <2> QED BY <1>4, <2>1, SumShifted
<1>7. ASSUME \A i \in 1..Len(u) : u[i].tokens >= 0
      PROVE  SumFunctionOnSet(g, (d + 1)..Len(u)) <= SumFunctionOnSet(g, 1..Len(u))
  <2>1. \A i \in 1..Len(u) : g[i] \in Nat
    BY <1>5, <1>7
  <2> QED BY <1>1, <2>1, SumOfEnd
<1> QED
  BY <1>1, <1>2, <1>6, <1>7 DEF g

(* Pruning again, then or later, leaves no more tokens than pruning now.   *)
LEMMA UsedLater ==
  ASSUME NEW t \in Time, NEW b \in Time, t <= b, NEW u \in Seq(Usage),
         \A i \in 1..Len(u) : u[i].tokens >= 0
  PROVE  Used(pruneTokens(b, u)) <= Used(pruneTokens(t, u))
<1> DEFINE v == pruneTokens(t, u)
           w == pruneTokens(b, u)
<1>1. v \in Seq(Usage) /\ w \in Seq(Usage)
  BY PruneTokensLeft
<1>2. PICK d \in 0..Len(u) : LeftOf(v, u, d) /\ \A i \in 1..d : u[i].at < t - Window
  BY PruneTokensLeft
<1>3. PICK e \in 0..Len(u) : LeftOf(w, u, e) /\ (e < Len(u) => u[e + 1].at >= b - Window)
  BY PruneTokensLeft
<1> HIDE DEF v, w
<1>4. Len(u) \in Nat /\ Window \in Nat /\ t \in Nat /\ b \in Nat
      /\ \A i \in 1..Len(u) : u[i].at \in Nat
  <2>1. Len(u) \in Nat /\ \A i \in 1..Len(u) : u[i] \in Usage
    OBVIOUS
  <2> QED BY <2>1, RotatorAssumption DEF Time, Usage
<1>5. d <= e
  <2> SUFFICES ASSUME e < d PROVE FALSE
    OBVIOUS
  <2>1. e + 1 \in 1..d /\ e + 1 \in 1..Len(u) /\ e < Len(u)
    OBVIOUS
  <2>2. u[e + 1].at < t - Window /\ u[e + 1].at >= b - Window /\ u[e + 1].at \in Nat
    BY <1>2, <1>3, <1>4
  <2> QED BY <1>4, <2>2
<1>6. LeftOf(w, v, e - d)
  <2>1. /\ Len(v) = Len(u) - d /\ Len(w) = Len(u) - e
        /\ \A i \in 1..Len(v) : v[i] = u[i + d]
        /\ \A i \in 1..Len(w) : w[i] = u[i + e]
    BY <1>2, <1>3 DEF LeftOf
  <2>2. e - d \in 0..Len(v) /\ Len(w) = Len(v) - (e - d)
    BY <1>5, <2>1
  <2>3. ASSUME NEW i \in 1..Len(w) PROVE w[i] = v[i + (e - d)]
    <3>1. i + (e - d) \in 1..Len(v) /\ (i + (e - d)) + d = i + e
      BY <1>2, <1>5, <2>1
    <3> QED BY <2>1, <3>1
  <2> QED BY <2>2, <2>3 DEF LeftOf
<1>7. \A i \in 1..Len(v) : v[i].tokens >= 0
  <2>1. Len(v) = Len(u) - d /\ \A i \in 1..Len(v) : v[i] = u[i + d]
    BY <1>2 DEF LeftOf
  <2>2. \A i \in 1..Len(v) : i + d \in 1..Len(u)
    BY <2>1
  <2> QED BY <2>1
<1> QED
  BY <1>1, <1>6, <1>7, UsedOfLeft DEF v, w

(* The windows GetKey leaves behind are well formed.                       *)
LEMMA WindowsTyped ==
  ASSUME RotatorTypeOK, NEW k \in Key
  PROVE  Times(now, k) \in Seq(Time) /\ Usages(now, k) \in Seq(Usage)
<1>1. /\ now \in Time
      /\ requestTimes[k] \in Seq(Time)
      /\ tokenUsage[k] \in Seq(Usage)
  BY DEF RotatorTypeOK
<1>2. pruneTimes(now, requestTimes[k]) \in Seq(Time)
  BY <1>1, PruneTimesSuffix
<1>3. pruneTokens(now, tokenUsage[k]) \in Seq(Usage)
  BY <1>1, PruneTokensLeft
<1>4. QED
  BY <1>1, <1>2, <1>3 DEF Times, Usages

(* The cursor GetKey leaves behind is inside the pool.                     *)
LEMMA NextIdxInPool ==
  ASSUME RotatorTypeOK, NEW p \in Provider, NEW i \in 0..(Len(keys[p]) - 1)
  PROVE  /\ NextIdx(p, i) \in Nat
         /\ NextIdx(p, i) < Len(keys[p])
<1>1. Len(keys[p]) \in Nat /\ idx[p] \in Nat
  BY DEF RotatorTypeOK
<1>2. (idx[p] + i) % Len(keys[p]) \in Nat
  BY <1>1
<1>3. QED
  BY <1>2 DEF NextIdx

(* Every step of the rotator keeps its type invariant.                     *)
LEMMA RotatorTypeStep ==
  ASSUME RotatorTypeOK, RotatorNext
  PROVE  RotatorTypeOK'
<1>1. ASSUME NEW p \in Provider, NEW k \in Key, AddKey(p, k)
      PROVE  RotatorTypeOK'
  <2>1. /\ keys[p] \in Seq(Key) /\ Len(keys[p]) \in Nat
        /\ Append(keys[p], k) \in Seq(Key)
        /\ Len(Append(keys[p], k)) = Len(keys[p]) + 1
    BY DEF RotatorTypeOK
  <2>2. keys' \in [Provider -> Seq(Key)]
    BY <1>1 DEF RotatorTypeOK, AddKey
  <2>3. idx' = idx /\ \A q \in Provider : idx'[q] < Len(keys'[q]) \/ idx'[q] = 0
    BY <1>1 DEF RotatorTypeOK, AddKey
  <2>4. AutoID(p, Len(keys[p]) + 1) \in IDs
    BY DEF AutoID, IDs
  <2>5. id' \in [Key -> IDs]
    BY <1>1, <2>4 DEF RotatorTypeOK, AddKey
  <2>6. QED
    BY <1>1, <2>5 DEF RotatorTypeOK, AddKey, limits
<1>2. ASSUME NEW p \in Provider, NEW k \in Key, GetKeyOK(p, k)
      PROVE  RotatorTypeOK'
  <2>1. PICK i \in 0..(Len(keys[p]) - 1) :
          LET S == {Scan(p, j) : j \in 0..i} IN
          /\ PruneScanned(S)
          /\ requestTimes' = [q \in Key |->
               IF q = k /\ RPM[q] > 0 THEN Append(Times(now, q), now)
               ELSE IF q \in S THEN Times(now, q) ELSE requestTimes[q]]
          /\ idx' = [idx EXCEPT ![p] = NextIdx(p, i)]
    BY <1>2 DEF GetKeyOK
  <2>2. idx' \in [Provider -> Nat]
        /\ \A q \in Provider : idx'[q] < Len(keys[q]) \/ idx'[q] = 0
    BY <2>1, NextIdxInPool DEF RotatorTypeOK
  <2>3. \A q \in Key : Times(now, q) \in Seq(Time) /\ Usages(now, q) \in Seq(Usage)
    BY WindowsTyped
  <2>4. \A q \in Key : Append(Times(now, q), now) \in Seq(Time)
    BY <2>3 DEF RotatorTypeOK
  <2>5. requestTimes' \in [Key -> Seq(Time)]
    BY <2>1, <2>4 DEF RotatorTypeOK
  <2>6. tokenUsage' \in [Key -> Seq(Usage)]
    BY <2>1, <2>3 DEF RotatorTypeOK, PruneScanned
  <2>7. QED
    BY <2>1, <2>2, <2>5, <2>6 DEF RotatorTypeOK, PruneScanned
<1>3. ASSUME NEW p \in Provider, GetKeyErr(p)
      PROVE  RotatorTypeOK'
  <2>1. \A q \in Key : Times(now, q) \in Seq(Time) /\ Usages(now, q) \in Seq(Usage)
    BY WindowsTyped
  <2>2. requestTimes' \in [Key -> Seq(Time)] /\ tokenUsage' \in [Key -> Seq(Usage)]
    BY <1>3, <2>1 DEF RotatorTypeOK, GetKeyErr, PruneScanned
  <2>3. QED
    BY <1>3, <2>2 DEF RotatorTypeOK, GetKeyErr, PruneScanned
<1>4. ASSUME NEW p \in Provider, NEW k \in Key, NEW n \in Tokens,
             MarkTokens(p, id[k], n)
      PROVE  RotatorTypeOK'
  <2>1. [at |-> now, tokens |-> n] \in Usage
    BY RotatorAssumption DEF RotatorTypeOK, Usage
  <2>2. \A q \in Key : pruneTokens(now, tokenUsage[q]) \in Seq(Usage)
    BY PruneTokensLeft DEF RotatorTypeOK
  <2>3. \A q \in Key : Append(pruneTokens(now, tokenUsage[q]),
                              [at |-> now, tokens |-> n]) \in Seq(Usage)
    BY <2>1, <2>2
  <2>4. tokenUsage' \in [Key -> Seq(Usage)]
    BY <1>4, <2>3 DEF RotatorTypeOK, MarkTokens
  <2>5. QED
    BY <1>4, <2>4 DEF RotatorTypeOK, MarkTokens, pool
<1>5. ASSUME NEW p \in Provider, NEW k \in Key, NEW d \in Cooldown,
             MarkCoolDown(p, id[k], d)
      PROVE  RotatorTypeOK'
  <2>1. now + d \in Time
    BY RotatorAssumption DEF RotatorTypeOK, Time
  <2>2. QED
    BY <1>5, <2>1 DEF RotatorTypeOK, MarkCoolDown, pool
<1>6. CASE Tick
  BY <1>6 DEF RotatorTypeOK, Tick, pool, limits, Time
<1>7. QED
  BY <1>1, <1>2, <1>3, <1>4, <1>5, <1>6 DEF RotatorNext

(* A new rotator is well formed.                                           *)
LEMMA NewTyped ==
  ASSUME New
  PROVE  RotatorTypeOK
<1>1. GivenID \in [Key -> IDs]
  BY RotatorAssumption DEF IDs
<1>2. QED
  BY <1>1 DEF New, RotatorTypeOK, Time

(* Type correctness of the rotator, for any number of keys and providers   *)
(* and any limits: in particular the cursor of a pool never leaves it, so  *)
(* pool[curr] in GetKey is never out of range.                             *)
THEOREM RotatorTyped == RotatorSpec => []RotatorTypeOK
<1>1. New => RotatorTypeOK
  BY NewTyped
<1>2. RotatorTypeOK /\ [RotatorNext]_rotatorVars => RotatorTypeOK'
  <2>1. RotatorTypeOK /\ UNCHANGED rotatorVars => RotatorTypeOK'
    BY DEF RotatorTypeOK, rotatorVars
  <2>2. QED
    BY <2>1, RotatorTypeStep
<1>3. QED
  BY <1>1, <1>2, PTL DEF RotatorSpec

(* The auditor only watches: every audited step is a step of the rotator.  *)
LEMMA AuditStep ==
  ASSUME [AuditNext]_auditVars
  PROVE  [RotatorNext]_rotatorVars
<1>1. CASE AuditNext
  BY <1>1 DEF AuditNext, RotatorNext, AuditAddKey, AuditGetKeyOK, AuditGetKeyErr,
              AuditMarkTokens, AuditMarkCoolDown, AuditTick
<1>2. CASE UNCHANGED auditVars
  BY <1>2 DEF auditVars
<1>3. QED
  BY <1>1, <1>2

(* So every behaviour that the auditor watches is one of the rotator.      *)
THEOREM AuditIsRotator == AuditSpec => RotatorSpec
BY AuditStep, PTL DEF AuditSpec, AuditInit, RotatorSpec

----------------------------------------------------------------------------
(* A window that is the end of a history stays one when pruneWindow drops  *)
(* its oldest entries, when both are extended, and when time goes by.      *)
LEMMA EndPruned ==
  ASSUME NEW t \in Time, NEW w \in Seq(Time), NEW h \in Seq(Time),
         EndOf(w, h, t - Window)
  PROVE  EndOf(pruneTimes(t, w), h, t - Window)
<1> DEFINE v == pruneTimes(t, w)
           e == FirstLive(t, w) - 1
<1>1. PICK d \in 0..Len(h) :
        /\ Len(h) = Len(w) + d
        /\ \A i \in 1..Len(w), j \in 1..Len(h) : j = i + d => w[i] = h[j]
        /\ \A i \in 1..d : h[i] < t - Window
  BY DEF EndOf
<1>2. Len(w) \in Nat /\ Len(h) \in Nat
  BY LenProperties
<1>3. /\ e \in 0..Len(w)
      /\ v \in Seq(Time)
      /\ Len(v) = Len(w) - e
      /\ \A i \in 1..(Len(w) - e) : v[i] = w[i + e]
  BY PruneTimesSuffix
<1>4. \A i \in 1..e : w[i] < t - Window
  BY FirstLiveStops
<1> HIDE DEF v, e
<1>5. d + e \in 0..Len(h) /\ Len(h) = Len(v) + (d + e)
  BY <1>1, <1>2, <1>3
<1>6. ASSUME NEW i \in 1..Len(v), NEW j \in 1..Len(h), j = i + (d + e)
      PROVE  v[i] = h[j]
  <2>1. i + e \in 1..Len(w) /\ j = (i + e) + d /\ i \in 1..(Len(w) - e)
    BY <1>1, <1>2, <1>3, <1>6
  <2>2. QED
    BY <1>1, <1>3, <2>1
<1>7. ASSUME NEW i \in 1..(d + e)
      PROVE  h[i] < t - Window
  <2>1. CASE i \in 1..d
    BY <1>1, <2>1
  <2>2. CASE i \notin 1..d
    <3>1. i - d \in 1..e /\ i - d \in 1..Len(w) /\ i \in 1..Len(h) /\ i = (i - d) + d
      BY <1>1, <1>2, <1>3, <1>5, <2>2
    <3>2. w[i - d] = h[i]
      BY <1>1, <3>1
    <3>3. QED
      BY <1>4, <3>1, <3>2
  <2>3. QED
    BY <2>1, <2>2
<1>8. QED
  BY <1>5, <1>6, <1>7, Zenon DEF EndOf, v

(* The same when GetKey enters one and the same grant in both.             *)
LEMMA EndAppended ==
  ASSUME NEW t \in Time, NEW w \in Seq(Time), NEW h \in Seq(Time), NEW c \in Int,
         EndOf(w, h, c)
  PROVE  EndOf(Append(w, t), Append(h, t), c)
<1> DEFINE v == Append(w, t)
           g == Append(h, t)
<1>1. PICK d \in 0..Len(h) :
        /\ Len(h) = Len(w) + d
        /\ \A i \in 1..Len(w), j \in 1..Len(h) : j = i + d => w[i] = h[j]
        /\ \A i \in 1..d : h[i] < c
  BY DEF EndOf
<1>2. Len(w) \in Nat /\ Len(h) \in Nat
  BY LenProperties
<1>3. /\ Len(v) = Len(w) + 1 /\ v[Len(w) + 1] = t
      /\ \A i \in 1..Len(w) : v[i] = w[i]
      /\ Len(g) = Len(h) + 1 /\ g[Len(h) + 1] = t
      /\ \A i \in 1..Len(h) : g[i] = h[i]
  BY AppendProperties
<1> HIDE DEF v, g
<1>4. d \in 0..Len(g) /\ Len(g) = Len(v) + d
  BY <1>1, <1>2, <1>3
<1>5. ASSUME NEW i \in 1..Len(v), NEW j \in 1..Len(g), j = i + d
      PROVE  v[i] = g[j]
  <2>1. CASE i \in 1..Len(w)
    <3>1. j \in 1..Len(h)
      BY <1>1, <1>2, <1>5, <2>1
    <3>2. QED
      BY <1>1, <1>3, <1>5, <2>1, <3>1
  <2>2. CASE i \notin 1..Len(w)
    <3>1. Len(v) = Len(w) + 1 /\ Len(h) = Len(w) + d /\ Len(w) \in Nat
      BY <1>1, <1>2, <1>3
    <3>2. i = Len(w) + 1
      BY <2>2, <3>1
    <3>3. j = Len(h) + 1
      BY <1>5, <3>1, <3>2
    <3>4. QED
      BY <1>3, <3>2, <3>3
  <2>3. QED
    BY <2>1, <2>2
<1>6. ASSUME NEW i \in 1..d
      PROVE  g[i] < c
  <2>1. i \in 1..Len(h)
    BY <1>2
  <2>2. QED
    BY <1>1, <1>3, <2>1
<1>7. QED
  BY <1>4, <1>5, <1>6, Zenon DEF EndOf, v, g

(* What was too old for a window stays too old for later ones.             *)
LEMMA EndLater ==
  ASSUME NEW w \in Seq(Time), NEW h \in Seq(Time), NEW c \in Int, NEW b \in Int,
         c <= b, EndOf(w, h, c)
  PROVE  EndOf(w, h, b)
<1>1. PICK d \in 0..Len(h) :
        /\ Len(h) = Len(w) + d
        /\ \A i \in 1..Len(w), j \in 1..Len(h) : j = i + d => w[i] = h[j]
        /\ \A i \in 1..d : h[i] < c
  BY DEF EndOf
<1>2. ASSUME NEW i \in 1..d
      PROVE  h[i] < b
  <2>1. i \in 1..Len(h) /\ h[i] < c
    BY <1>1, LenProperties
  <2>2. h[i] \in Nat
    BY <2>1, ElementOfSeq DEF Time
  <2>3. QED
    BY <2>1, <2>2
<1>3. QED
  BY <1>1, <1>2, Zenon DEF EndOf

(* A grant at time t keeps a history spaced when less than n of it are left*)
(* in the window: whatever is n entries back has been dropped as too old.  *)
LEMMA GrantKeepsSpaced ==
  ASSUME NEW t \in Time, NEW w \in Seq(Time), NEW h \in Seq(Time), NEW n \in Nat,
         EndOf(w, h, t - Window), Len(w) < n, Spaced(h, n)
  PROVE  Spaced(Append(h, t), n)
<1> DEFINE g == Append(h, t)
<1>1. PICK d \in 0..Len(h) :
        /\ Len(h) = Len(w) + d
        /\ \A i \in 1..d : h[i] < t - Window
  BY DEF EndOf
<1>2. /\ Len(w) \in Nat /\ Len(h) \in Nat /\ t \in Nat /\ Window \in Nat
      /\ \A i \in 1..Len(h) : h[i] \in Nat
  BY LenProperties, RotatorAssumption, ElementOfSeq DEF Time
<1>3. /\ Len(g) = Len(h) + 1 /\ g[Len(h) + 1] = t
      /\ \A i \in 1..Len(h) : g[i] = h[i]
  BY AppendProperties
<1> HIDE DEF g
<1>4. ASSUME NEW i \in 1..Len(g), NEW j \in 1..Len(g), j = i + n
      PROVE  g[j] > g[i] + Window
  <2>1. i \in 1..Len(h) /\ g[i] = h[i] /\ h[i] \in Nat
    BY <1>2, <1>3, <1>4
  <2>2. CASE j \in 1..Len(h)
    <3>1. g[j] = h[j] /\ h[j] > h[i] + Window
      BY <1>3, <1>4, <2>1, <2>2 DEF Spaced
    <3>2. QED
      BY <2>1, <3>1
  <2>3. CASE j \notin 1..Len(h)
    <3>1. Len(g) = Len(h) + 1 /\ Len(h) = Len(w) + d /\ Len(w) \in Nat /\ Len(h) \in Nat
      BY <1>1, <1>2, <1>3
    <3>2. j = Len(h) + 1
      BY <2>3, <3>1
    <3>3. i \in 1..d
      BY <1>4, <2>1, <3>1, <3>2
    <3>4. g[j] = t /\ h[i] < t - Window
      BY <1>1, <1>3, <3>2, <3>3
    <3>5. QED
      BY <1>2, <2>1, <3>4
  <2>4. QED
    BY <2>2, <2>3
<1>5. QED
  BY <1>4 DEF Spaced, g

(* Every audited step keeps the inductive invariant.                       *)
LEMMA RPMStep ==
  ASSUME RPMInv, AuditNext
  PROVE  RPMInv'
<1>1. RotatorTypeOK /\ RotatorTypeOK'
  BY AuditStep, RotatorTypeStep, Zenon DEF RPMInv, rotatorVars, RotatorTypeOK
<1>2. /\ now \in Nat /\ now' \in Nat /\ Window \in Nat /\ RPM \in [Key -> Int]
      /\ \A q \in Key : grants[q] \in Seq(Time) /\ requestTimes[q] \in Seq(Time)
  BY <1>1, RotatorAssumption DEF RPMInv, RotatorTypeOK, Time
<1>3. ASSUME UNCHANGED <<grants, requestTimes>>, now <= now'
      PROVE  RPMInv'
  <2>1. \A q \in Key : RPM[q] > 0 => EndOf(requestTimes[q], grants[q], now' - Window)
    BY <1>2, <1>3, EndLater DEF RPMInv
  <2>2. QED
    BY <1>1, <1>3, <2>1 DEF RPMInv, RPMRespected
<1>4. ASSUME NEW q \in Key, RPM[q] > 0
      PROVE  /\ Times(now, q) = pruneTimes(now, requestTimes[q])
             /\ EndOf(Times(now, q), grants[q], now - Window)
             /\ Len(Times(now, q)) <= RPM[q]
  <2>1. Times(now, q) = pruneTimes(now, requestTimes[q])
    BY <1>4 DEF Times
  <2>2. EndOf(pruneTimes(now, requestTimes[q]), grants[q], now - Window)
    BY <1>2, <1>4, EndPruned DEF RPMInv, Time
  <2>3. Len(requestTimes[q]) \in Nat /\ Len(requestTimes[q]) <= RPM[q]
    BY <1>2, <1>4, LenProperties DEF RPMInv
  <2>4. PICK e \in 0..Len(requestTimes[q]) :
          Len(pruneTimes(now, requestTimes[q])) = Len(requestTimes[q]) - e
    BY <1>2, PruneTimesSuffix, Zenon DEF Time
  <2>5. Len(pruneTimes(now, requestTimes[q])) <= RPM[q]
    BY <1>2, <2>3, <2>4
  <2>6. QED
    BY <2>1, <2>2, <2>5
<1>5. ASSUME NEW p \in Provider, NEW k \in Key, AuditGetKeyOK(p, k)
      PROVE  RPMInv'
  <2>1. PICK S :
          /\ healthy(now, k)
          /\ now' = now
          /\ requestTimes' = [q \in Key |->
               IF q = k /\ RPM[q] > 0 THEN Append(Times(now, q), now)
               ELSE IF q \in S THEN Times(now, q) ELSE requestTimes[q]]
          /\ grants' = [grants EXCEPT ![k] = Append(@, now)]
    BY <1>5, Zenon DEF AuditGetKeyOK, GetKeyOK, PruneScanned
  <2>2. Append(grants[k], now) \in Seq(Time)
    BY <1>2, AppendProperties DEF Time
  <2>3. grants' \in [Key -> Seq(Time)]
    BY <2>1, <2>2 DEF RPMInv
  <2>4. ASSUME NEW q \in Key, RPM[q] > 0, q # k
        PROVE  /\ EndOf(requestTimes'[q], grants'[q], now' - Window)
               /\ Len(requestTimes'[q]) <= RPM[q]
               /\ Spaced(grants'[q], RPM[q])
    <3>1. grants'[q] = grants[q]
          /\ (requestTimes'[q] = Times(now, q) \/ requestTimes'[q] = requestTimes[q])
      BY <2>1, <2>4 DEF RPMInv
    <3>2. QED
      BY <1>4, <2>1, <2>4, <3>1 DEF RPMInv, RPMRespected
  <2>5. ASSUME RPM[k] > 0
        PROVE  /\ EndOf(requestTimes'[k], grants'[k], now' - Window)
               /\ Len(requestTimes'[k]) <= RPM[k]
               /\ Spaced(grants'[k], RPM[k])
    <3>1. /\ grants'[k] = Append(grants[k], now)
          /\ requestTimes'[k] = Append(Times(now, k), now)
      BY <2>1, <2>5 DEF RPMInv
    <3>2. Times(now, k) \in Seq(Time) /\ Len(Times(now, k)) < RPM[k]
      BY <1>1, <2>1, <2>5, WindowsTyped DEF healthy
    <3>3. EndOf(Append(Times(now, k), now), Append(grants[k], now), now - Window)
      BY <1>2, <1>4, <2>5, <3>2, EndAppended DEF Time
    <3>4. Len(Append(Times(now, k), now)) <= RPM[k]
      BY <1>2, <3>2, AppendProperties, LenProperties
    <3>5. Spaced(Append(grants[k], now), RPM[k])
      BY <1>2, <1>4, <2>5, <3>2, GrantKeepsSpaced DEF RPMInv, RPMRespected, Time
    <3>6. QED
      BY <2>1, <3>1, <3>3, <3>4, <3>5
  <2>6. QED
    BY <1>1, <2>3, <2>4, <2>5 DEF RPMInv, RPMRespected
<1>6. ASSUME NEW p \in Provider, AuditGetKeyErr(p)
      PROVE  RPMInv'
  <2>1. /\ now' = now /\ grants' = grants
        /\ \A q \in Key : \/ requestTimes'[q] = Times(now, q)
                           \/ requestTimes'[q] = requestTimes[q]
    BY <1>6 DEF AuditGetKeyErr, GetKeyErr, PruneScanned
  <2>2. QED
    BY <1>1, <1>4, <2>1 DEF RPMInv, RPMRespected
<1>7. ASSUME NEW p \in Provider, NEW k \in Key, AuditAddKey(p, k)
      PROVE  RPMInv'
  BY <1>2, <1>3, <1>7 DEF AuditAddKey, AddKey, audit, limits
<1>8. ASSUME NEW p \in Provider, NEW k \in Key, NEW n \in Tokens,
             AuditMarkTokens(p, k, n)
      PROVE  RPMInv'
  BY <1>2, <1>3, <1>8 DEF AuditMarkTokens, MarkTokens
<1>9. ASSUME NEW p \in Provider, NEW k \in Key, NEW d \in Cooldown,
             AuditMarkCoolDown(p, k, d)
      PROVE  RPMInv'
  BY <1>2, <1>3, <1>9 DEF AuditMarkCoolDown, MarkCoolDown
<1>10. CASE AuditTick
  BY <1>2, <1>3, <1>10 DEF AuditTick, Tick, audit, limits
<1>11. QED
  BY <1>5, <1>6, <1>7, <1>8, <1>9, <1>10 DEF AuditNext

(* At first no key was handed out.                                         *)
LEMMA RPMInit ==
  ASSUME AuditInit
  PROVE  RPMInv
<1>1. RotatorTypeOK
  BY NewTyped DEF AuditInit
<1>2. grants = [k \in Key |-> <<>>] /\ requestTimes = [k \in Key |-> <<>>]
  BY DEF AuditInit, New
<1>3. \A k \in Key : RPM[k] > 0 => EndOf(requestTimes[k], grants[k], now - Window)
  BY <1>2 DEF EndOf
<1>4. \A k \in Key : Spaced(grants[k], RPM[k]) /\ Len(requestTimes[k]) = 0
  BY <1>2 DEF Spaced
<1>5. QED
  BY <1>1, <1>2, <1>3, <1>4, RotatorAssumption DEF RPMInv, RPMRespected

(* The RPM limit holds of the complete history of grants of every key, for *)
(* any pool, limits and window: no Window ever holds more than RPM[k].     *)
THEOREM RPMHolds == AuditSpec => []RPMRespected
<1>1. AuditInit => RPMInv
  BY RPMInit
<1>2. RPMInv /\ [AuditNext]_auditVars => RPMInv'
  <2>1. RPMInv /\ UNCHANGED auditVars => RPMInv'
    BY DEF RPMInv, RPMRespected, RotatorTypeOK, auditVars, rotatorVars, audit, EndOf, Spaced
  <2>2. QED
    BY <2>1, RPMStep
<1>3. RPMInv => RPMRespected
  BY DEF RPMInv
<1>4. QED
  BY <1>1, <1>2, <1>3, PTL DEF AuditSpec
----------------------------------------------------------------------------
(* Round robin.  The lengths of the pools and the cursor bound how often a *)
(* healthy key is passed over.                                             *)

\* How many rounds of GetKey's scan come before the i-th key of the pool of p.
Distance(p, i) ==
  IF i > idx[p] THEN i - 1 - idx[p] ELSE i - 1 - idx[p] + Len(keys[p])

\* A key is in one place of one pool.
Separate ==
  \A p, q \in Provider : \A i \in 1..Len(keys[p]), j \in 1..Len(keys[q]) :
    keys[p][i] = keys[q][j] => p = q /\ i = j

\* What a key still has to wait and what it has waited make less than a round.
Turns ==
  /\ \A k \in Key : (\A p \in Provider : k \notin Range(keys[p])) => passed[k] = 0
  /\ \A p \in Provider : \A i \in 1..Len(keys[p]) :
       passed[keys[p][i]] + Distance(p, i) < Len(keys[p])

RoundInv == RotatorTypeOK /\ passed \in [Key -> Nat] /\ Separate /\ Turns

(* A remainder of a number below twice its divisor is one subtraction.     *)
LEMMA OnceAround ==
  ASSUME NEW a \in Nat, NEW n \in Nat, a < n + n
  PROVE  a % n = IF a < n THEN a ELSE a - n
<1>1. n > 0
  OBVIOUS
<1>2. a % n \in 0..(n - 1) /\ a = n * (a \div n) + (a % n) /\ a \div n \in Nat
  BY <1>1
<1> DEFINE d == a \div n
<1>3. d = 0 \/ d = 1
  <2>1. SUFFICES ASSUME d >= 2 PROVE FALSE
    BY <1>2
  <2>2. n * d >= n * 2
    BY <2>1, <1>1, <1>2
  <2> HIDE DEF d
  <2> QED BY <1>1, <1>2, <2>2 DEF d
<1> HIDE DEF d
<1>4. n * 0 = 0 /\ n * 1 = n
  OBVIOUS
<1> QED BY <1>1, <1>2, <1>3, <1>4 DEF d

(* The key at distance d is the one that round d of the scan looks at, and *)
(* where the cursor goes the distances that are left are counted from.     *)
LEMMA ScanReaches ==
  ASSUME RotatorTypeOK, NEW p \in Provider, NEW i \in 1..Len(keys[p])
  PROVE  /\ Distance(p, i) \in 0..(Len(keys[p]) - 1)
         /\ Scan(p, Distance(p, i)) = keys[p][i]
<1>1. /\ Len(keys[p]) \in Nat /\ idx[p] \in Nat /\ idx[p] < Len(keys[p])
  BY DEF RotatorTypeOK
<1>2. Distance(p, i) \in 0..(Len(keys[p]) - 1)
  BY <1>1 DEF Distance
<1>3. (idx[p] + Distance(p, i)) % Len(keys[p]) = i - 1
  <2>1. idx[p] + Distance(p, i) = IF i > idx[p] THEN i - 1 ELSE i - 1 + Len(keys[p])
    BY <1>1 DEF Distance
  <2> DEFINE a == idx[p] + Distance(p, i)
  <2>2. a \in Nat /\ a < Len(keys[p]) + Len(keys[p])
    BY <1>1, <2>1
  <2>3. a % Len(keys[p]) = IF a < Len(keys[p]) THEN a ELSE a - Len(keys[p])
    <3> HIDE DEF a
    <3> QED BY <1>1, <2>2, OnceAround
  <2> QED BY <1>1, <2>1, <2>3
<1> QED BY <1>2, <1>3 DEF Scan

(* A scan of r + 1 keys brings the cursor that much closer to a key which  *)
(* it did not reach.                                                       *)
LEMMA CursorMoves ==
  ASSUME RotatorTypeOK, NEW p \in Provider, NEW r \in 0..(Len(keys[p]) - 1),
         NEW i \in 1..Len(keys[p]), Distance(p, i) > r,
         UNCHANGED keys, idx' = [idx EXCEPT ![p] = NextIdx(p, r)]
  PROVE  Distance(p, i)' = Distance(p, i) - r - 1
<1> DEFINE n == Len(keys[p])
           a == idx[p] + r
           b == a % n
           c == (b + 1) % n
<1>1. n \in Nat /\ idx[p] \in Nat /\ idx[p] < n /\ r \in Nat /\ r < n
  BY DEF RotatorTypeOK
<1>2. idx'[p] = c
  BY DEF NextIdx, RotatorTypeOK
<1>3. Distance(p, i) = IF i > idx[p] THEN i - 1 - idx[p] ELSE i - 1 - idx[p] + n
  BY DEF Distance
<1>4. Distance(p, i)' = IF i > idx'[p] THEN i - 1 - idx'[p] ELSE i - 1 - idx'[p] + n
  BY DEF Distance
<1>5. i \in Nat /\ i >= 1 /\ i <= n /\ Distance(p, i) > r
  BY <1>1
<1>6. b = IF a < n THEN a ELSE a - n
  <2>1. a \in Nat /\ a < n + n
    BY <1>1
  <2> HIDE DEF a, n
  <2> QED BY <1>1, <2>1, OnceAround
<1> HIDE DEF b, n
<1>7. b \in Nat /\ b < n
  BY <1>1, <1>6
<1>8. c = IF b + 1 < n THEN b + 1 ELSE (b + 1) - n
  <2>1. \A m \in Nat : m < n + n => m % n = IF m < n THEN m ELSE m - n
    BY <1>1, OnceAround
  <2>2. b + 1 \in Nat /\ b + 1 < n + n
    BY <1>7, <1>1
  <2> QED BY <2>1, <2>2, Zenon
<1> HIDE DEF c
<1> DEFINE d == Distance(p, i)
           e == idx[p]
<1> HIDE DEF d
<1>9. c \in Nat /\ c < n
  BY <1>1, <1>7, <1>8
<1>10. a = e + r /\ e \in Nat /\ e < n /\ r \in Nat /\ r < n /\ n \in Nat
  BY <1>1
<1> HIDE DEF e, a
<1>11. c = IF e + r + 1 < n THEN e + r + 1 ELSE e + r + 1 - n
  <2>1. CASE a < n
    <3>1. b = e + r
      BY <1>6, <1>10, <2>1
    <3> QED BY <1>8, <1>10, <3>1
  <2>2. CASE ~(a < n)
    <3>1. b = (e + r) - n
      BY <1>6, <1>10, <2>2
    <3>2. b + 1 < n /\ ~(e + r + 1 < n)
      BY <1>10, <2>2, <3>1
    <3> QED BY <1>8, <1>10, <3>1, <3>2
  <2> QED BY <2>1, <2>2
<1>12. CASE i > e
  <2>1. e + r + 1 < n /\ i > e + r + 1
    BY <1>1, <1>3, <1>5, <1>12 DEF e
  <2> QED BY <1>1, <1>2, <1>3, <1>4, <1>5, <1>11, <1>12, <2>1 DEF e
<1>13. CASE i <= e
  <2>1. Distance(p, i) = i - 1 - e + n /\ i \in Nat
    BY <1>3, <1>5, <1>13, <1>10 DEF e
  <2>2. CASE e + r + 1 < n
    <3>1. c = e + r + 1 /\ ~(i > c)
      BY <1>5, <1>11, <1>13, <1>10, <2>2
    <3>2. Distance(p, i)' = i - 1 - c + n
      BY <1>2, <1>4, <3>1
    <3> QED BY <1>10, <2>1, <3>1, <3>2
  <2>3. CASE ~(e + r + 1 < n)
    <3>1. c = e + r + 1 - n
      BY <1>11, <2>3
    <3>2. i > c
      BY <1>5, <1>10, <2>1, <3>1
    <3>3. Distance(p, i)' = i - 1 - c
      BY <1>2, <1>4, <3>2
    <3> QED BY <1>10, <2>1, <3>1, <3>3
  <2> QED BY <2>2, <2>3
<1> QED BY <1>1, <1>5, <1>12, <1>13 DEF e

(* A key that joins is in no pool yet, so pools stay apart.                *)
LEMMA NewKeySeparate ==
  ASSUME RotatorTypeOK, Separate, NEW p \in Provider, NEW k \in Key, AuditAddKey(p, k)
  PROVE  Separate'
<1>1. /\ \A q \in Provider : keys[q] \in Seq(Key) /\ k \notin Range(keys[q])
      /\ keys' = [keys EXCEPT ![p] = Append(@, k)]
  BY DEF RotatorTypeOK, AuditAddKey, AddKey
<1> DEFINE n == Len(keys[p])
<1>2. /\ n \in Nat /\ Len(keys'[p]) = n + 1 /\ keys'[p][n + 1] = k
      /\ \A i \in 1..n : keys'[p][i] = keys[p][i]
      /\ \A q \in Provider : q # p => keys'[q] = keys[q]
  BY <1>1, AppendProperties DEF RotatorTypeOK
<1>3. \A q \in Provider : \A i \in 1..Len(keys[q]) : keys[q][i] # k
  BY <1>1 DEF Range
<1>4. \A q \in Provider : \A i \in 1..Len(keys'[q]) :
        \/ i \in 1..Len(keys[q]) /\ keys'[q][i] = keys[q][i]
        \/ q = p /\ i = n + 1 /\ keys'[q][i] = k
  <2> TAKE q \in Provider
  <2>1. CASE q = p
    <3>1. \A i \in 1..(n + 1) : i \in 1..n \/ i = n + 1
      BY <1>2
    <3> QED BY <1>2, <2>1, <3>1
  <2> QED BY <1>2, <2>1
<1>5. ASSUME NEW q \in Provider, NEW r \in Provider, NEW i \in 1..Len(keys'[q]),
             NEW j \in 1..Len(keys'[r]), keys'[q][i] = keys'[r][j]
      PROVE  q = r /\ i = j
  <2>1. CASE i \in 1..Len(keys[q]) /\ j \in 1..Len(keys[r])
             /\ keys'[q][i] = keys[q][i] /\ keys'[r][j] = keys[r][j]
    <3>1. keys[q][i] = keys[r][j]
      BY <1>5, <2>1
    <3> QED BY <2>1, <3>1 DEF Separate
  <2>2. \/ i \in 1..Len(keys[q]) /\ keys'[q][i] = keys[q][i]
        \/ q = p /\ i = n + 1 /\ keys'[q][i] = k
    BY <1>4
  <2>3. \/ j \in 1..Len(keys[r]) /\ keys'[r][j] = keys[r][j]
        \/ r = p /\ j = n + 1 /\ keys'[r][j] = k
    BY <1>4
  <2>4. /\ i \in 1..Len(keys[q]) => keys[q][i] # k
        /\ j \in 1..Len(keys[r]) => keys[r][j] # k
    BY <1>3
  <2> QED BY <1>5, <2>1, <2>2, <2>3, <2>4, Zenon
<1> QED BY <1>5 DEF Separate

(* Nobody is passed over when a pool grows: the new key comes last.        *)
LEMMA AddKeyKeepsTurns ==
  ASSUME RoundInv, NEW p \in Provider, NEW k \in Key, AuditAddKey(p, k)
  PROVE  Turns'
<1>1. /\ RotatorTypeOK /\ passed \in [Key -> Nat] /\ Turns
      /\ \A q \in Provider : k \notin Range(keys[q])
      /\ keys' = [keys EXCEPT ![p] = Append(@, k)] /\ idx' = idx /\ passed' = passed
  BY DEF RoundInv, AuditAddKey, AddKey, audit
<1>2. \A q \in Provider :
        keys[q] \in Seq(Key) /\ idx[q] \in Nat /\ (idx[q] < Len(keys[q]) \/ idx[q] = 0)
  BY <1>1 DEF RotatorTypeOK
<1> DEFINE n == Len(keys[p])
<1>3. /\ n \in Nat /\ Len(keys'[p]) = n + 1 /\ keys'[p][n + 1] = k
      /\ \A i \in 1..n : keys'[p][i] = keys[p][i]
      /\ \A q \in Provider : q # p => keys'[q] = keys[q]
  BY <1>1, <1>2, AppendProperties DEF RotatorTypeOK
<1>4. passed[k] = 0
  BY <1>1 DEF Turns
<1>5. ASSUME NEW j \in Key, \A q \in Provider : j \notin Range(keys'[q])
      PROVE  passed'[j] = 0
  <2>1. \A q \in Provider : j \notin Range(keys[q])
    <3> SUFFICES ASSUME NEW q \in Provider, NEW i \in 1..Len(keys[q]), keys[q][i] = j
                 PROVE  FALSE
      BY <1>2 DEF Range
    <3>1. i \in DOMAIN keys'[q] /\ keys'[q][i] = j
      <4>1. /\ keys'[q] \in Seq(Key) /\ Len(keys[q]) \in Nat
            /\ Len(keys'[q]) \in {Len(keys[q]), Len(keys[q]) + 1}
        BY <1>1, <1>2, <1>3, AppendProperties
      <4> QED BY <1>3, <4>1
    <3> QED BY <1>5, <3>1 DEF Range
  <2> QED BY <1>1, <2>1 DEF Turns
<1>6. ASSUME NEW q \in Provider, NEW i \in 1..Len(keys'[q])
      PROVE  passed'[keys'[q][i]] + Distance(q, i)' < Len(keys'[q])
  <2>1. CASE q # p
    BY <1>1, <1>3, <2>1 DEF Turns, Distance
  <2>2. CASE q = p /\ i = n + 1
    BY <1>1, <1>2, <1>3, <1>4, <2>2 DEF Distance
  <2>3. CASE q = p /\ i \in 1..n
    <3>1. passed[keys[p][i]] \in Nat /\ passed[keys[p][i]] + Distance(p, i) < n
      BY <1>1, <1>2, <2>3 DEF Turns
    <3>2. Distance(p, i)' = IF i > idx[p] THEN i - 1 - idx[p] ELSE i - 1 - idx[p] + (n + 1)
      BY <1>1, <1>3 DEF Distance
    <3>3. Distance(p, i) = IF i > idx[p] THEN i - 1 - idx[p] ELSE i - 1 - idx[p] + n
      BY DEF Distance
    <3>4. /\ idx[p] \in Nat /\ n \in Nat /\ Len(keys'[q]) = n + 1
          /\ passed'[keys'[q][i]] = passed[keys[p][i]]
      BY <1>1, <1>2, <1>3, <2>3
    <3>5. Distance(p, i)' \in {Distance(p, i), Distance(p, i) + 1} /\ Distance(p, i) \in Int
      <4> HIDE DEF n
      <4> QED BY <2>3, <3>2, <3>3, <3>4
    <3> QED BY <2>3, <3>1, <3>4, <3>5
  <2> QED BY <1>3, <2>1, <2>2, <2>3
<1> QED BY <1>5, <1>6 DEF Turns

(* A grant brings every healthy key of the pool nearer by one round at     *)
(* least, and all that it has scanned before were not healthy.             *)
LEMMA GrantKeepsTurns ==
  ASSUME RoundInv, NEW p \in Provider, NEW k \in Key, AuditGetKeyOK(p, k)
  PROVE  passed' \in [Key -> Nat] /\ Separate' /\ Turns'
<1>1. /\ RotatorTypeOK /\ passed \in [Key -> Nat] /\ Separate /\ Turns
      /\ \A q \in Provider : keys[q] \in Seq(Key)
  BY DEF RoundInv, RotatorTypeOK
<1>2. PICK r \in 0..(Len(keys[p]) - 1) :
        /\ Scan(p, r) = k /\ \A j \in 0..(r - 1) : ~healthy(now, Scan(p, j))
        /\ keys' = keys /\ idx' = [idx EXCEPT ![p] = NextIdx(p, r)]
  BY DEF AuditGetKeyOK, GetKeyOK, PruneScanned
<1>3. passed' = [q \in Key |->
        IF q \notin Range(keys[p]) THEN passed[q]
        ELSE IF q = k \/ ~healthy(now, q) THEN 0 ELSE passed[q] + 1]
  BY DEF AuditGetKeyOK
<1>4. passed' \in [Key -> Nat]
  BY <1>1, <1>3
<1>5. Separate'
  <2>1. Separate
    BY <1>1
  <2> QED BY <1>2, <2>1 DEF Separate
<1>6. ASSUME NEW i \in 1..Len(keys[p])
      PROVE  passed'[keys[p][i]] + Distance(p, i)' < Len(keys[p])
  <2>1. /\ keys[p][i] \in Key /\ keys[p][i] \in Range(keys[p])
        /\ Len(keys[p]) \in Nat /\ r \in Nat /\ r < Len(keys[p])
        /\ passed[keys[p][i]] \in Nat
    BY <1>1 DEF Range
  <2>2. /\ Distance(p, i) \in 0..(Len(keys[p]) - 1) /\ Scan(p, Distance(p, i)) = keys[p][i]
    BY <1>1, ScanReaches
  <2>3. CASE Distance(p, i) > r
    <3>1. Distance(p, i)' = Distance(p, i) - r - 1
      BY <1>1, <1>2, <2>3, CursorMoves
    <3>2. passed'[keys[p][i]] <= passed[keys[p][i]] + 1 /\ passed'[keys[p][i]] \in Nat
      BY <1>3, <2>1
    <3>3. passed[keys[p][i]] + Distance(p, i) < Len(keys[p])
      BY <1>1 DEF Turns
    <3> DEFINE x == passed[keys[p][i]]
               y == passed'[keys[p][i]]
               d == Distance(p, i)
               e == Distance(p, i)'
               n == Len(keys[p])
    <3>4. x \in Nat /\ y \in Nat /\ d \in Nat /\ n \in Nat /\ r \in Nat
      BY <2>1, <2>2, <3>2
    <3>5. y <= x + 1 /\ e = d - r - 1 /\ x + d < n
      BY <3>1, <3>2, <3>3
    <3> HIDE DEF x, y, d, e, n
    <3>6. y + e < n
      BY <3>4, <3>5
    <3> QED BY <3>6 DEF y, e, n
  <2>4. CASE Distance(p, i) <= r
    <3>1. keys[p][i] = k \/ ~healthy(now, keys[p][i])
      <4>1. Distance(p, i) = r \/ Distance(p, i) \in 0..(r - 1)
        BY <2>1, <2>2, <2>4
      <4> QED BY <1>2, <2>2, <4>1
    <3>2. passed'[keys[p][i]] = 0
      BY <1>3, <2>1, <3>1
    <3>3. Distance(p, i)' \in 0..(Len(keys[p]) - 1)
      <4>1. idx'[p] \in Nat /\ idx'[p] < Len(keys[p])
        BY <1>1, <1>2, NextIdxInPool DEF RotatorTypeOK
      <4>2. Distance(p, i)' =
              IF i > idx'[p] THEN i - 1 - idx'[p] ELSE i - 1 - idx'[p] + Len(keys[p])
        BY <1>2 DEF Distance
      <4> DEFINE j == idx'[p]
                 n == Len(keys[p])
      <4>3. j \in Nat /\ j < n /\ n \in Nat /\ i \in 1..n
        BY <2>1, <4>1
      <4> HIDE DEF j, n
      <4>4. (IF i > j THEN i - 1 - j ELSE i - 1 - j + n) \in 0..(n - 1)
        <5>1. CASE i > j
          BY <4>3, <5>1
        <5>2. CASE ~(i > j)
          BY <4>3, <5>2
        <5> QED BY <5>1, <5>2
      <4> QED BY <4>2, <4>4 DEF j, n
    <3> QED BY <2>1, <3>2, <3>3
  <2> QED BY <2>1, <2>2, <2>3, <2>4
<1>7. ASSUME NEW q \in Provider, q # p, NEW i \in 1..Len(keys[q])
      PROVE  passed'[keys[q][i]] + Distance(q, i)' < Len(keys[q])
  <2>1. keys[q][i] \notin Range(keys[p])
    <3> SUFFICES ASSUME NEW j \in 1..Len(keys[p]), keys[p][j] = keys[q][i] PROVE FALSE
      <4>1. keys[p] \in Seq(Key)
        BY <1>1
      <4> QED BY <4>1 DEF Range
    <3>1. Separate
      BY <1>1
    <3> QED BY <1>7, <3>1 DEF Separate
  <2>2. passed'[keys[q][i]] = passed[keys[q][i]]
    BY <1>1, <1>3, <2>1
  <2>3. idx'[q] = idx[q] /\ Distance(q, i)' = Distance(q, i)
    BY <1>1, <1>2, <1>7 DEF Distance, RotatorTypeOK
  <2> QED BY <1>1, <2>2, <2>3 DEF Turns
<1>8. \A j \in Key : (\A q \in Provider : j \notin Range(keys[q])) => passed'[j] = 0
  BY <1>1, <1>3 DEF Turns
<1> QED BY <1>2, <1>4, <1>5, <1>6, <1>7, <1>8 DEF Turns

(* Every audited step keeps the inductive invariant.                       *)
LEMMA RoundStep ==
  ASSUME RoundInv, AuditNext
  PROVE  RoundInv'
<1>1. RotatorTypeOK'
  BY AuditStep, RotatorTypeStep, Zenon DEF RoundInv, rotatorVars, RotatorTypeOK
<1>2. ASSUME UNCHANGED <<keys, idx, passed>> PROVE RoundInv'
  BY <1>1, <1>2 DEF RoundInv, Separate, Turns, Distance
<1>3. ASSUME NEW p \in Provider, NEW k \in Key, AuditAddKey(p, k) PROVE RoundInv'
  <2>1. passed' = passed
    BY <1>3 DEF AuditAddKey, audit
  <2> QED BY <1>1, <1>3, <2>1, AddKeyKeepsTurns, NewKeySeparate DEF RoundInv
<1>4. ASSUME NEW p \in Provider, NEW k \in Key, AuditGetKeyOK(p, k) PROVE RoundInv'
  BY <1>1, <1>4, GrantKeepsTurns DEF RoundInv
<1>5. ASSUME NEW p \in Provider, AuditGetKeyErr(p) PROVE RoundInv'
  BY <1>2, <1>5 DEF AuditGetKeyErr, GetKeyErr, PruneScanned
<1>6. ASSUME NEW p \in Provider, NEW k \in Key, NEW n \in Tokens, AuditMarkTokens(p, k, n)
      PROVE  RoundInv'
  BY <1>2, <1>6 DEF AuditMarkTokens, MarkTokens, pool
<1>7. ASSUME NEW p \in Provider, NEW k \in Key, NEW d \in Cooldown, AuditMarkCoolDown(p, k, d)
      PROVE  RoundInv'
  BY <1>2, <1>7 DEF AuditMarkCoolDown, MarkCoolDown, pool
<1>8. CASE AuditTick
  BY <1>2, <1>8 DEF AuditTick, Tick, audit, pool
<1> QED BY <1>3, <1>4, <1>5, <1>6, <1>7, <1>8 DEF AuditNext

(* In no pool is a key that is healthy whenever another one is handed out  *)
(* passed over for a full round, whatever is added, cooled down or charged *)
(* meanwhile: for any number of keys, providers and calls.                 *)
THEOREM KeysTakeTurns == AuditSpec => []RoundRobin
<1>1. AuditInit => RoundInv
  <2> SUFFICES ASSUME AuditInit PROVE RoundInv
    OBVIOUS
  <2>1. RotatorTypeOK
    BY NewTyped DEF AuditInit
  <2>2. passed = [k \in Key |-> 0] /\ \A p \in Provider : Len(keys[p]) = 0
    BY DEF AuditInit, New
  <2> QED BY <2>1, <2>2 DEF RoundInv, Separate, Turns
<1>2. RoundInv /\ [AuditNext]_auditVars => RoundInv'
  <2>1. RoundInv /\ UNCHANGED auditVars => RoundInv'
    BY DEF RoundInv, Separate, Turns, Distance, RotatorTypeOK, auditVars, rotatorVars, audit
  <2> QED BY <2>1, RoundStep
<1>3. RoundInv => RoundRobin
  <2> SUFFICES ASSUME RoundInv, NEW p \in Provider, NEW k \in Range(keys[p])
               PROVE  passed[k] < Len(keys[p])
    BY DEF RoundRobin
  <2>1. keys[p] \in Seq(Key) /\ RotatorTypeOK
    BY DEF RoundInv, RotatorTypeOK
  <2>2. PICK i \in 1..Len(keys[p]) : keys[p][i] = k
    BY <2>1 DEF Range
  <2>3. Distance(p, i) \in Nat /\ Len(keys[p]) \in Nat /\ passed[k] \in Nat
    BY <2>1, <2>2, ScanReaches DEF RoundInv
  <2>4. passed[k] + Distance(p, i) < Len(keys[p])
    BY <2>2 DEF RoundInv, Turns
  <2> QED BY <2>3, <2>4
<1> QED BY <1>1, <1>2, <1>3, PTL DEF AuditSpec
----------------------------------------------------------------------------
(* The abstract pool.  What the rotator decides by is what the complete    *)
(* histories of KeyPool say.                                               *)

\* Keys of a pool have the IDs of their callers or those of their places.
Identified ==
  /\ \A p \in Provider : \A i \in 1..Len(keys[p]) :
       id[keys[p][i]] =
         IF GivenID[keys[p][i]] = NoID THEN AutoID(p, i) ELSE GivenID[keys[p][i]]
  /\ \A k \in Key : (\A p \in Provider : k \notin Range(keys[p])) => id[k] = GivenID[k]

\* Grants are recorded in the order of time.
Ascending ==
  \A k \in Key : \A i, j \in 1..Len(grants[k]) :
    i <= j => grants[k][i] <= grants[k][j] /\ grants[k][j] <= now

AgreeInv == RPMInv /\ Separate /\ Identified /\ deadline = CoolUntil /\ Ascending

\* The tokens in the pruned window of a key are those of its recent charges.
TokensAgree ==
  \A k \in Key : TPM[k] > 0 => Used(Usages(now, k)) = Pool!RecentTokens(k)

(* Both modules count with the Cardinality of FiniteSets.                  *)
LEMMA SameCount == \A S : Pool!Cardinality(S) = Cardinality(S)
BY DEF Pool!Cardinality, Cardinality

(* The ID by which callers charge and cool a key of a pool leads to it.    *)
LEMMA NamedIsMeant ==
  ASSUME AgreeInv, NEW p \in Provider, NEW k \in Range(keys[p])
  PROVE  Named(p, id[k]) = {k}
<1>1. keys[p] \in Seq(Key) /\ Len(keys[p]) \in Nat
  BY DEF AgreeInv, RPMInv, RotatorTypeOK
<1>2. PICK i \in 1..Len(keys[p]) : keys[p][i] = k
  BY <1>1 DEF Range
<1>3. ASSUME NEW j \in 1..Len(keys[p]), id[keys[p][j]] = id[k]
      PROVE  j = i
  <2> DEFINE a == keys[p][j]
  <2>1. a \in Key /\ k \in Key
    BY <1>1, <1>2
  <2>2. /\ id[a] = IF GivenID[a] = NoID THEN <<p, j>> ELSE GivenID[a]
        /\ id[k] = IF GivenID[k] = NoID THEN <<p, i>> ELSE GivenID[k]
    BY <1>2 DEF AgreeInv, Identified, AutoID
  <2>3. GivenID[a] \in Range(GivenID) /\ GivenID[k] \in Range(GivenID)
    BY <2>1, RotatorAssumption DEF Range
  <2>4. i \in Nat /\ j \in Nat /\ <<p, i>> \in Provider \X Nat /\ <<p, j>> \in Provider \X Nat
    BY <1>1
  <2>5. a = k \/ j = i
    <3> HIDE DEF a
    <3>1. CASE GivenID[a] = NoID /\ GivenID[k] = NoID
      <4>1. <<p, j>> = <<p, i>>
        BY <1>3, <2>2, <3>1 DEF a
      <4> QED BY <4>1
    <3>2. CASE GivenID[a] # NoID /\ GivenID[k] # NoID
      BY <1>3, <2>1, <2>2, <3>2, AuditAssumption DEF a
    <3>3. CASE GivenID[a] = NoID /\ GivenID[k] # NoID
      BY <1>3, <2>2, <2>3, <2>4, <3>3, AuditAssumption DEF a
    <3>4. CASE GivenID[a] # NoID /\ GivenID[k] = NoID
      BY <1>3, <2>2, <2>3, <2>4, <3>4, AuditAssumption DEF a
    <3> QED BY <3>1, <3>2, <3>3, <3>4
  <2> QED BY <1>2, <2>5 DEF AgreeInv, Separate
<1> QED BY <1>1, <1>2, <1>3 DEF Named

(* What pruneWindow leaves of a list of request times are the grants of    *)
(* the closed window, as the grants ascend.                                *)
LEMMA RequestsCounted ==
  ASSUME AgreeInv, NEW k \in Key, RPM[k] > 0
  PROVE  Pool!RecentGrants(k) = Len(Times(now, k))
<1> DEFINE h == grants[k]
           w == requestTimes[k]
           v == Times(now, k)
           c == now - Window
<1>1. /\ h \in Seq(Time) /\ w \in Seq(Time) /\ now \in Time /\ Window \in Nat
      /\ EndOf(w, h, c) /\ v = pruneTimes(now, w)
  BY RotatorAssumption DEF AgreeInv, RPMInv, RotatorTypeOK, Times
<1>2. EndOf(v, h, c)
  BY <1>1, EndPruned
<1>3. v \in Seq(Time) /\ (Len(v) > 0 => v[1] >= c)
  <2>1. /\ FirstLive(now, w) - 1 \in 0..Len(w) /\ pruneTimes(now, w) \in Seq(Time)
        /\ Len(pruneTimes(now, w)) = Len(w) - (FirstLive(now, w) - 1)
        /\ \A i \in 1..(Len(w) - (FirstLive(now, w) - 1)) :
             pruneTimes(now, w)[i] = w[i + (FirstLive(now, w) - 1)]
    BY <1>1, PruneTimesSuffix
  <2>2. FirstLive(now, w) \in Nat /\ (FirstLive(now, w) <= Len(w) => w[FirstLive(now, w)] >= c)
    <3>1. /\ FirstLive(now, w) \in 1..(Len(w) + 1)
          /\ FirstLive(now, w) <= Len(w) => w[FirstLive(now, w)] >= now - Window
      BY <1>1, FirstLiveStops
    <3> QED BY <3>1
  <2> DEFINE f == FirstLive(now, w)
             u == pruneTimes(now, w)
  <2>3. Len(w) \in Nat
    BY <1>1
  <2> HIDE DEF w, f, u, c, v
  <2>4. Len(u) > 0 => u[1] = w[f] /\ f <= Len(w)
    BY <2>1, <2>2, <2>3 DEF f, u
  <2> QED BY <1>1, <2>1, <2>2, <2>4 DEF f, u
<1> HIDE DEF v
<1>4. PICK d \in 0..Len(h) :
        /\ Len(h) = Len(v) + d
        /\ \A i \in 1..Len(v), j \in 1..Len(h) : j = i + d => v[i] = h[j]
        /\ \A i \in 1..d : h[i] < c
  BY <1>2 DEF EndOf
<1>5. /\ Len(h) \in Nat /\ Len(v) \in Nat /\ \A i \in 1..Len(h) : h[i] \in Nat
      /\ c \in Int
  <2>1. h \in Seq(Nat) /\ v \in Seq(Nat) /\ now \in Nat
    BY <1>1, <1>3 DEF Time
  <2> HIDE DEF h
  <2> QED BY <1>1, <2>1
<1>6. \A i, j \in 1..Len(h) : i <= j => h[i] <= h[j]
  BY DEF AgreeInv, Ascending
<1> DEFINE S == {i \in 1..Len(h) : h[i] >= c}
<1> HIDE DEF h, c
<1>7. S = (d + 1)..Len(h)
  <2>1. ASSUME NEW i \in S PROVE i \in (d + 1)..Len(h)
    BY <1>4, <1>5, <2>1
  <2>2. ASSUME NEW i \in (d + 1)..Len(h) PROVE i \in S
    <3>1. /\ 1 \in 1..Len(v) /\ d + 1 \in 1..Len(h) /\ i \in 1..Len(h) /\ d + 1 <= i
      BY <1>4, <1>5
    <3>2. h[d + 1] >= c
      BY <1>3, <1>4, <1>5, <3>1
    <3>3. h[d + 1] <= h[i]
      BY <1>6, <3>1
    <3> QED BY <1>5, <3>1, <3>2, <3>3
  <2> QED BY <2>1, <2>2
<1>8. Cardinality(S) = Len(v)
  <2>1. d + 1 \in Int /\ Len(h) \in Int
    BY <1>5
  <2>2. Cardinality((d + 1)..Len(h)) =
          IF d + 1 > Len(h) THEN 0 ELSE Len(h) - (d + 1) + 1
    BY <2>1, FS_Interval
  <2> HIDE DEF S
  <2> QED BY <1>4, <1>5, <1>7, <2>2
<1>9. Pool!RecentGrants(k) = Pool!Cardinality(S)
  BY DEF Pool!RecentGrants, Pool!Recent, h, c
<1> QED BY <1>8, <1>9, SameCount DEF v

(* A key that healthy accepts is one that the abstract pool has available. *)
LEMMA HealthyIsAvailable ==
  ASSUME AgreeInv, TokensAgree, NEW k \in Key
  PROVE  healthy(now, k) <=> Pool!Available(k)
<1>1. CoolUntil[k] = deadline[k]
  BY DEF AgreeInv
<1>2. RPM[k] > 0 => Pool!RecentGrants(k) = Len(Times(now, k))
  BY RequestsCounted
<1>3. TPM[k] > 0 => Used(Usages(now, k)) = Pool!RecentTokens(k)
  BY DEF TokensAgree
<1> QED BY <1>1, <1>2, <1>3, Zenon DEF healthy, Pool!Available

(* A new key gets the ID of its place, if it comes without one.            *)
LEMMA AddKeyKeepsIDs ==
  ASSUME AgreeInv, NEW p \in Provider, NEW k \in Key, AuditAddKey(p, k)
  PROVE  Identified'
<1>1. /\ Identified /\ id \in [Key -> IDs]
      /\ \A q \in Provider : keys[q] \in Seq(Key) /\ k \notin Range(keys[q])
      /\ keys' = [keys EXCEPT ![p] = Append(@, k)]
      /\ id' = [id EXCEPT ![k] = IF @ = NoID THEN AutoID(p, Len(keys[p]) + 1) ELSE @]
  BY DEF AgreeInv, RPMInv, RotatorTypeOK, AuditAddKey, AddKey
<1> DEFINE n == Len(keys[p])
<1>2. id[k] = GivenID[k]
  BY <1>1 DEF Identified
<1>3. /\ n \in Nat /\ Len(keys'[p]) = n + 1 /\ keys'[p][n + 1] = k
      /\ \A i \in 1..n : keys'[p][i] = keys[p][i]
      /\ \A q \in Provider : q # p => keys'[q] = keys[q]
      /\ \A q \in Provider : keys'[q] \in Seq(Key)
  BY <1>1, AppendProperties DEF AgreeInv, RPMInv, RotatorTypeOK
<1>4. ASSUME NEW q \in Provider, NEW i \in 1..Len(keys'[q])
      PROVE  id'[keys'[q][i]] = IF GivenID[keys'[q][i]] = NoID THEN AutoID(q, i)
                                ELSE GivenID[keys'[q][i]]
  <2>1. CASE q = p /\ i = n + 1
    BY <1>1, <1>2, <1>3, <2>1
  <2>2. CASE ~(q = p /\ i = n + 1)
    <3>1. i \in 1..Len(keys[q]) /\ keys'[q][i] = keys[q][i] /\ keys[q][i] # k
      <4>1. i \in 1..Len(keys[q]) /\ keys'[q][i] = keys[q][i]
        BY <1>3, <2>2
      <4> QED BY <1>1, <4>1 DEF Range
    <3>2. id'[keys[q][i]] = id[keys[q][i]]
      BY <1>1, <3>1
    <3> QED BY <1>1, <3>1, <3>2 DEF Identified
  <2> QED BY <2>1, <2>2
<1>5. ASSUME NEW j \in Key, \A q \in Provider : j \notin Range(keys'[q])
      PROVE  id'[j] = GivenID[j]
  <2>1. j # k
    <3>1. n + 1 \in DOMAIN keys'[p]
      BY <1>3
    <3> QED BY <1>3, <1>5, <3>1 DEF Range
  <2>2. ASSUME NEW q \in Provider, NEW i \in DOMAIN keys[q], keys[q][i] = j PROVE FALSE
    <3>1. i \in DOMAIN keys'[q] /\ keys'[q][i] = j
      BY <1>1, <1>3, <2>2
    <3> QED BY <1>5, <3>1 DEF Range
  <2>3. \A q \in Provider : j \notin Range(keys[q])
    BY <2>2 DEF Range
  <2> QED BY <1>1, <2>1, <2>3 DEF Identified
<1> QED BY <1>4, <1>5 DEF Identified

(* Every audited step keeps the agreement.                                 *)
LEMMA AgreeStep ==
  ASSUME AgreeInv, AuditNext
  PROVE  AgreeInv'
<1>1. /\ RPMInv /\ RPMInv' /\ now \in Nat /\ grants \in [Key -> Seq(Time)] /\ Ascending
      /\ Separate /\ Identified /\ deadline = CoolUntil
  BY RPMStep DEF AgreeInv, RPMInv, RotatorTypeOK, Time
<1>2. ASSUME UNCHANGED <<keys, id>> PROVE Separate' /\ Identified'
  BY <1>1, <1>2 DEF Separate, Identified
<1>3. ASSUME UNCHANGED grants, now' \in Nat, now <= now' PROVE Ascending'
  <2>1. \A k \in Key : \A i \in 1..Len(grants[k]) : grants[k][i] \in Nat
    BY <1>1, ElementOfSeq DEF Time
  <2> QED BY <1>1, <1>3, <2>1 DEF Ascending
<1>4. ASSUME NEW p \in Provider, NEW k \in Key, AuditAddKey(p, k) PROVE AgreeInv'
  <2>1. UNCHANGED <<grants, now, deadline, CoolUntil>>
    BY <1>4 DEF AuditAddKey, AddKey, audit, limits
  <2>2. Separate'
    BY <1>1, <1>4, NewKeySeparate DEF RPMInv
  <2> QED BY <1>1, <1>3, <1>4, <2>1, <2>2, AddKeyKeepsIDs DEF AgreeInv
<1>5. ASSUME NEW p \in Provider, NEW k \in Key, AuditGetKeyOK(p, k) PROVE AgreeInv'
  <2>1. /\ UNCHANGED <<keys, id, now, deadline, CoolUntil>>
        /\ grants' = [grants EXCEPT ![k] = Append(@, now)]
    BY <1>5 DEF AuditGetKeyOK, GetKeyOK, PruneScanned
  <2>2. /\ Len(grants[k]) \in Nat /\ grants[k] \in Seq(Time)
        /\ Len(grants'[k]) = Len(grants[k]) + 1 /\ grants'[k][Len(grants[k]) + 1] = now
        /\ \A i \in 1..Len(grants[k]) : grants'[k][i] = grants[k][i]
    BY <1>1, <2>1, AppendProperties DEF Time
  <2>3. ASSUME NEW i \in 1..Len(grants'[k]), NEW j \in 1..Len(grants'[k]), i <= j
        PROVE  grants'[k][i] <= grants'[k][j] /\ grants'[k][j] <= now
    <3>1. \A m \in 1..Len(grants[k]) : grants[k][m] \in Nat /\ grants[k][m] <= now
      BY <1>1, ElementOfSeq DEF Ascending, Time
    <3>2. CASE j = Len(grants[k]) + 1
      <4>1. i = Len(grants[k]) + 1 \/ i \in 1..Len(grants[k])
        BY <2>2, <3>2
      <4> QED BY <1>1, <2>2, <3>1, <3>2, <4>1
    <3>3. CASE j \in 1..Len(grants[k])
      <4>1. i \in 1..Len(grants[k])
        BY <2>2, <2>3, <3>3
      <4> QED BY <1>1, <2>2, <2>3, <3>3, <4>1 DEF Ascending
    <3> QED BY <2>2, <3>2, <3>3
  <2>4. \A q \in Key : q # k => grants'[q] = grants[q]
    BY <1>1, <2>1
  <2>5. Ascending'
    BY <1>1, <2>1, <2>3, <2>4 DEF Ascending
  <2> QED BY <1>1, <1>2, <2>1, <2>5 DEF AgreeInv
<1>6. ASSUME NEW p \in Provider, AuditGetKeyErr(p) PROVE AgreeInv'
  <2>1. UNCHANGED <<keys, id, grants, now, deadline, CoolUntil>>
    BY <1>6 DEF AuditGetKeyErr, GetKeyErr, PruneScanned
  <2> QED BY <1>1, <1>2, <1>3, <2>1 DEF AgreeInv
<1>7. ASSUME NEW p \in Provider, NEW k \in Key, NEW n \in Tokens, AuditMarkTokens(p, k, n)
      PROVE  AgreeInv'
  <2>1. UNCHANGED <<keys, id, grants, now, deadline, CoolUntil>>
    BY <1>7 DEF AuditMarkTokens, MarkTokens, pool
  <2> QED BY <1>1, <1>2, <1>3, <2>1 DEF AgreeInv
<1>8. ASSUME NEW p \in Provider, NEW k \in Key, NEW d \in Cooldown, AuditMarkCoolDown(p, k, d)
      PROVE  AgreeInv'
  <2>1. /\ UNCHANGED <<keys, id, grants, now>> /\ k \in Range(keys[p])
        /\ deadline' = [deadline EXCEPT ![k] = now + d]
        /\ CoolUntil' = [q \in Key |-> IF q \in Named(p, id[k]) THEN now + d ELSE CoolUntil[q]]
    BY <1>8 DEF AuditMarkCoolDown, MarkCoolDown, pool
  <2>2. Named(p, id[k]) = {k}
    BY <2>1, NamedIsMeant
  <2>3. CoolUntil \in [Key -> Time]
    BY <1>1 DEF RPMInv, RotatorTypeOK
  <2>4. deadline' = CoolUntil'
    BY <1>1, <2>1, <2>2, <2>3
  <2>5. Separate' /\ Identified' /\ Ascending'
    BY <1>1, <1>2, <1>3, <2>1
  <2> QED BY <1>1, <2>4, <2>5 DEF AgreeInv
<1>9. CASE AuditTick
  <2>1. UNCHANGED <<keys, id, grants, deadline, CoolUntil>> /\ now' = now + 1
    BY <1>9 DEF AuditTick, Tick, audit, pool, limits
  <2>2. now' \in Nat /\ now <= now'
    BY <1>1, <2>1
  <2> QED BY <1>1, <1>2, <1>3, <2>1, <2>2 DEF AgreeInv
<1> QED BY <1>4, <1>5, <1>6, <1>7, <1>8, <1>9 DEF AuditNext

(* The rotator's decisions agree with the complete histories throughout.   *)
LEMMA Agreement == AuditSpec => []AgreeInv
<1>1. AuditInit => AgreeInv
  <2> SUFFICES ASSUME AuditInit PROVE AgreeInv
    OBVIOUS
  <2>1. RPMInv
    BY RPMInit
  <2>2. /\ \A p \in Provider : keys[p] = <<>> /\ Len(keys[p]) = 0
        /\ \A k \in Key : Len(grants[k]) = 0
        /\ id = GivenID /\ deadline = CoolUntil
    BY DEF AuditInit, New
  <2> QED BY <2>1, <2>2 DEF AgreeInv, Separate, Identified, Ascending
<1>2. AgreeInv /\ [AuditNext]_auditVars => AgreeInv'
  <2>1. AgreeInv /\ UNCHANGED auditVars => AgreeInv'
    BY DEF AgreeInv, RPMInv, RPMRespected, Separate, Identified, Ascending, RotatorTypeOK,
           EndOf, Spaced, auditVars, rotatorVars, audit
  <2> QED BY <2>1, AgreeStep
<1> QED BY <1>1, <1>2, PTL DEF AuditSpec

\* Charges are recorded in the order of time, and the token window of a key is
\* what is left of them without some that are older than the window.
ChargesInv ==
  /\ spent \in [Key -> Seq(Usage)]
  /\ \A k \in Key : \A i, j \in 1..Len(spent[k]) :
       i <= j => spent[k][i].at <= spent[k][j].at /\ spent[k][j].at <= now
  /\ \A k \in Key : \E d \in 0..Len(spent[k]) :
       /\ LeftOf(tokenUsage[k], spent[k], d)
       /\ \A i \in 1..d : spent[k][i].at < now - Window

(* What is left of what is left of a list is left of the list.             *)
LEMMA LeftOfLeft ==
  ASSUME NEW u, NEW v, NEW w, NEW d, NEW e, Len(u) \in Nat, LeftOf(v, u, d), LeftOf(w, v, e)
  PROVE  LeftOf(w, u, d + e)
<1>1. /\ d \in 0..Len(u) /\ Len(v) = Len(u) - d /\ \A i \in 1..Len(v) : v[i] = u[i + d]
      /\ e \in 0..Len(v) /\ Len(w) = Len(v) - e /\ \A i \in 1..Len(w) : w[i] = v[i + e]
  BY DEF LeftOf
<1>2. d + e \in 0..Len(u) /\ Len(w) = Len(u) - (d + e)
  BY <1>1
<1>3. ASSUME NEW i \in 1..Len(w) PROVE w[i] = u[i + (d + e)]
  <2>1. i + e \in 1..Len(v) /\ (i + e) + d = i + (d + e)
    BY <1>1
  <2> QED BY <1>1
<1> QED
  BY DEF LeftOf

(* Pruning the token window keeps it what is left of the charges.          *)
LEMMA ChargesPruned ==
  ASSUME NEW t \in Time, NEW u \in Seq(Usage), NEW h \in Seq(Usage),
         NEW d \in 0..Len(h), LeftOf(u, h, d), \A i \in 1..d : h[i].at < t - Window
  PROVE  \E e \in 0..Len(h) :
           /\ LeftOf(pruneTokens(t, u), h, e)
           /\ \A i \in 1..e : h[i].at < t - Window
           /\ e < Len(h) => h[e + 1].at >= t - Window
<1> DEFINE v == pruneTokens(t, u)
<1>1. PICK c \in 0..Len(u) :
        /\ LeftOf(v, u, c)
        /\ \A i \in 1..c : u[i].at < t - Window
        /\ c < Len(u) => u[c + 1].at >= t - Window
  BY PruneTokensLeft
<1> HIDE DEF v
<1>2. Len(u) \in Nat /\ Len(h) \in Nat /\ Len(u) = Len(h) - d
      /\ \A i \in 1..Len(u) : u[i] = h[i + d]
  BY DEF LeftOf
<1>3. d + c \in 0..Len(h) /\ LeftOf(v, h, d + c)
  <2>1. LeftOf(v, h, d + c)
    BY <1>1, LeftOfLeft
  <2> QED BY <2>1 DEF LeftOf
<1>4. ASSUME NEW i \in 1..(d + c) PROVE h[i].at < t - Window
  <2>1. CASE i <= d
    BY <2>1
  <2>2. CASE i > d
    <3>1. i - d \in 1..c /\ i - d \in 1..Len(u) /\ (i - d) + d = i
      BY <2>2
    <3>2. u[i - d] = h[i]
      BY <1>2, <3>1
    <3> QED BY <1>1, <3>2
  <2> QED BY <2>2
<1>5. ASSUME d + c < Len(h) PROVE h[(d + c) + 1].at >= t - Window
  <2>1. c < Len(u) /\ c + 1 \in 1..Len(u) /\ (c + 1) + d = (d + c) + 1
    BY <1>2, <1>5
  <2>2. u[c + 1] = h[(d + c) + 1]
    BY <1>2, <2>1
  <2> QED BY <1>1, <2>1, <2>2
<1> QED
  BY <1>3, <1>4, <1>5 DEF v

(* A charge at the end of both keeps the one what is left of the other.    *)
LEMMA LeftOfAppended ==
  ASSUME NEW u \in Seq(Usage), NEW h \in Seq(Usage), NEW d, LeftOf(u, h, d), NEW c \in Usage
  PROVE  LeftOf(Append(u, c), Append(h, c), d)
<1> DEFINE v == Append(u, c)
           g == Append(h, c)
<1>1. /\ Len(u) \in Nat /\ Len(h) \in Nat
      /\ Len(v) = Len(u) + 1 /\ v[Len(u) + 1] = c /\ \A i \in 1..Len(u) : v[i] = u[i]
      /\ Len(g) = Len(h) + 1 /\ g[Len(h) + 1] = c /\ \A i \in 1..Len(h) : g[i] = h[i]
  OBVIOUS
<1> HIDE DEF v, g
<1>2. d \in 0..Len(h) /\ Len(u) = Len(h) - d /\ \A i \in 1..Len(u) : u[i] = h[i + d]
  BY DEF LeftOf
<1>3. d \in 0..Len(g) /\ Len(v) = Len(g) - d
  BY <1>1, <1>2
<1>4. ASSUME NEW i \in 1..Len(v) PROVE v[i] = g[i + d]
  <2>1. CASE i \in 1..Len(u)
    <3>1. i + d \in 1..Len(h)
      BY <1>2, <2>1
    <3> QED BY <1>1, <1>2, <3>1
  <2>2. CASE i = Len(u) + 1
    <3>1. i + d = Len(h) + 1
      BY <1>2, <2>2
    <3> QED BY <1>1, <2>2, <3>1
  <2>3. i \in 1..Len(u) \/ i = Len(u) + 1
    BY <1>1
  <2> QED BY <2>1, <2>2, <2>3
<1> QED
  BY <1>3, <1>4 DEF LeftOf, v, g

(* The charges of the closed window are the last ones, as they ascend.     *)
LEMMA TokensSummed ==
  ASSUME RotatorTypeOK, ChargesInv
  PROVE  TokensAgree
<1> SUFFICES ASSUME NEW k \in Key, TPM[k] > 0
             PROVE  Used(Usages(now, k)) = Pool!RecentTokens(k)
  BY DEF TokensAgree
<1> DEFINE h == spent[k]
           v == pruneTokens(now, tokenUsage[k])
           c == now - Window
           S == {i \in 1..Len(h) : h[i].at >= c}
<1>1. h \in Seq(Usage) /\ tokenUsage[k] \in Seq(Usage) /\ now \in Time
  BY DEF RotatorTypeOK, ChargesInv
<1>2. v \in Seq(Usage) /\ Usages(now, k) = v
  BY <1>1, PruneTokensLeft DEF Usages
<1>3. PICK d \in 0..Len(h) :
        LeftOf(tokenUsage[k], h, d) /\ \A i \in 1..d : h[i].at < c
  BY DEF ChargesInv
<1>4. PICK e \in 0..Len(h) :
        /\ LeftOf(v, h, e)
        /\ \A i \in 1..e : h[i].at < c
        /\ e < Len(h) => h[e + 1].at >= c
  BY <1>1, <1>3, ChargesPruned
<1>5. /\ Len(h) \in Nat /\ c \in Int /\ \A i \in 1..Len(h) : h[i].at \in Nat
      /\ \A i, j \in 1..Len(h) : i <= j => h[i].at <= h[j].at
  <2>1. Len(h) \in Nat /\ \A i \in 1..Len(h) : h[i] \in Usage
    BY <1>1
  <2>2. c \in Int
    BY <1>1, RotatorAssumption DEF Time
  <2>3. \A i, j \in 1..Len(h) : i <= j => h[i].at <= h[j].at
    BY DEF ChargesInv
  <2> HIDE DEF h, c
  <2> QED BY <2>1, <2>2, <2>3 DEF Usage, Time
<1>6. Used(v) = SumFunctionOnSet(TokensOf(h), (e + 1)..Len(h))
  BY <1>1, <1>2, <1>4, UsedOfLeft
<1>7. Pool!RecentTokens(k) = SumFunctionOnSet(TokensOf(h), S)
  BY DEF Pool!RecentTokens, Pool!Recent, Pool!SumFunctionOnSet, Pool!FoldFunctionOnSet,
     Pool!MapThenFoldSet, SumFunctionOnSet, FoldFunctionOnSet, MapThenFoldSet, TokensOf
<1> HIDE DEF h, v, c
<1>8. S = (e + 1)..Len(h)
  <2>1. ASSUME NEW i \in S PROVE i \in (e + 1)..Len(h)
    BY <1>4, <1>5
  <2>2. ASSUME NEW i \in (e + 1)..Len(h) PROVE i \in S
    <3>1. e < Len(h) /\ e + 1 \in 1..Len(h) /\ i \in 1..Len(h) /\ e + 1 <= i
      OBVIOUS
    <3>2. h[e + 1].at >= c /\ h[e + 1].at <= h[i].at
      BY <1>4, <1>5
    <3> QED BY <1>5, <3>2
  <2> QED BY <2>1, <2>2
<1> QED
  BY <1>2, <1>6, <1>7, <1>8

(* Every audited step keeps the record of charges.                         *)
LEMMA ChargesStep ==
  ASSUME AgreeInv, ChargesInv, AuditNext
  PROVE  ChargesInv'
<1> DEFINE Ordered(h, t) == \A i, j \in 1..Len(h) : i <= j => h[i].at <= h[j].at /\ h[j].at <= t
           Window0(u, h, t) == \E d \in 0..Len(h) :
             LeftOf(u, h, d) /\ \A i \in 1..d : h[i].at < t - Window
<1>0. ASSUME NEW k \in Key
      PROVE  /\ spent[k] \in Seq(Usage) /\ tokenUsage[k] \in Seq(Usage)
             /\ Ordered(spent[k], now) /\ Window0(tokenUsage[k], spent[k], now)
  BY DEF ChargesInv, AgreeInv, RPMInv, RotatorTypeOK
<1>1. now \in Nat /\ now \in Time /\ Window \in Nat /\ spent \in [Key -> Seq(Usage)]
  BY RotatorAssumption DEF ChargesInv, AgreeInv, RPMInv, RotatorTypeOK, Time
<1>2. ASSUME spent' \in [Key -> Seq(Usage)],
             \A k \in Key : Ordered(spent'[k], now') /\ Window0(tokenUsage'[k], spent'[k], now')
      PROVE  ChargesInv'
  BY <1>2 DEF ChargesInv
<1>3. ASSUME NEW k \in Key PROVE Window0(pruneTokens(now, tokenUsage[k]), spent[k], now)
  <2>1. PICK d \in 0..Len(spent[k]) :
          LeftOf(tokenUsage[k], spent[k], d) /\ \A i \in 1..d : spent[k][i].at < now - Window
    BY <1>0
  <2>2. PICK e \in 0..Len(spent[k]) :
          /\ LeftOf(pruneTokens(now, tokenUsage[k]), spent[k], e)
          /\ \A i \in 1..e : spent[k][i].at < now - Window
    BY <1>0, <1>1, ChargesPruned
  <2> QED BY <2>2
<1>4. ASSUME UNCHANGED <<spent, now>>,
             \A k \in Key : \/ tokenUsage'[k] = tokenUsage[k]
                            \/ tokenUsage'[k] = pruneTokens(now, tokenUsage[k])
      PROVE  ChargesInv'
  <2>1. \A k \in Key : Window0(tokenUsage'[k], spent[k], now)
    <3> HIDE DEF Window0
    <3> QED BY <1>0, <1>3, <1>4
  <2> HIDE DEF Window0, Ordered
  <2> QED BY <1>0, <1>1, <1>2, <1>4, <2>1
<1>5. ASSUME NEW p \in Provider, NEW k \in Key, AuditAddKey(p, k) PROVE ChargesInv'
  BY <1>4, <1>5 DEF AuditAddKey, AddKey, audit, limits
<1>6. ASSUME NEW p \in Provider, NEW k \in Key, AuditGetKeyOK(p, k) PROVE ChargesInv'
  <2>1. UNCHANGED <<spent, now>> /\ \E S : PruneScanned(S)
    BY <1>6, Zenon DEF AuditGetKeyOK, GetKeyOK, PruneScanned
  <2> QED BY <1>4, <2>1 DEF PruneScanned, Usages
<1>7. ASSUME NEW p \in Provider, AuditGetKeyErr(p) PROVE ChargesInv'
  <2>1. UNCHANGED <<spent, now>> /\ \E S : PruneScanned(S)
    BY <1>7, Zenon DEF AuditGetKeyErr, GetKeyErr, PruneScanned
  <2> QED BY <1>4, <2>1 DEF PruneScanned, Usages
<1>8. ASSUME NEW p \in Provider, NEW k \in Key, NEW n \in Tokens, AuditMarkTokens(p, k, n)
      PROVE  ChargesInv'
  <2> DEFINE c == [at |-> now, tokens |-> n]
             h == spent[k]
             u == pruneTokens(now, tokenUsage[k])
  <2>1. n \in Int /\ n > 0 /\ k \in Range(keys[p]) /\ MarkTokens(p, id[k], n) /\ now' = now
        /\ spent' = [spent EXCEPT ![k] = Append(@, c)]
    BY <1>8, RotatorAssumption DEF AuditMarkTokens, MarkTokens
  <2>2. Named(p, id[k]) = {k}
    BY <2>1, NamedIsMeant
  <2>3. tokenUsage' = [q \in Key |-> IF q = k THEN Append(u, c) ELSE tokenUsage[q]]
    <3>1. ~(n <= 0)
      BY <2>1
    <3>2. tokenUsage' = [q \in Key |-> IF q \in {k} THEN Append(pruneTokens(now, tokenUsage[q]), c)
                                       ELSE tokenUsage[q]]
      BY <2>1, <2>2 DEF MarkTokens
    <3> QED BY <3>2
  <2>4. c \in Usage /\ c.at = now
    BY <1>1, <2>1 DEF Usage
  <2>5. h \in Seq(Usage) /\ u \in Seq(Usage) /\ Ordered(h, now) /\ Window0(u, h, now)
    BY <1>0, <1>1, <1>3, PruneTokensLeft
  <2>6. spent'[k] = Append(h, c) /\ tokenUsage'[k] = Append(u, c)
        /\ \A q \in Key : q # k => spent'[q] = spent[q] /\ tokenUsage'[q] = tokenUsage[q]
    BY <1>1, <2>1, <2>3
  <2> HIDE DEF h, u, c
  <2>7. Append(h, c) \in Seq(Usage)
    BY <2>4, <2>5
  <2>8. Ordered(Append(h, c), now)
    <3> DEFINE g == Append(h, c)
    <3>1. /\ Len(h) \in Nat /\ Len(g) = Len(h) + 1 /\ g[Len(h) + 1] = c
          /\ \A i \in 1..Len(h) : g[i] = h[i] /\ h[i] \in Usage
      BY <2>5
    <3> HIDE DEF g
    <3>2. \A i \in 1..Len(h) : h[i].at \in Nat /\ h[i].at <= now
      BY <2>5, <3>1 DEF Usage, Time
    <3>3. ASSUME NEW i \in 1..Len(g), NEW j \in 1..Len(g), i <= j
          PROVE  g[i].at <= g[j].at /\ g[j].at <= now
      <4>1. CASE j \in 1..Len(h)
        <5>1. i \in 1..Len(h)
          BY <3>3, <4>1
        <5> QED BY <2>5, <3>1, <3>3, <4>1
      <4>2. CASE j = Len(h) + 1
        <5>1. i \in 1..Len(h) \/ i = Len(h) + 1
          BY <3>1
        <5> QED BY <1>1, <2>4, <3>1, <3>2, <4>2
      <4>3. j \in 1..Len(h) \/ j = Len(h) + 1
        BY <3>1
      <4> QED BY <4>1, <4>2, <4>3
    <3> QED BY <3>3 DEF g
  <2>9. Window0(Append(u, c), Append(h, c), now)
    <3>1. PICK d \in 0..Len(h) : LeftOf(u, h, d) /\ \A i \in 1..d : h[i].at < now - Window
      BY <2>5
    <3>2. LeftOf(Append(u, c), Append(h, c), d)
      BY <2>4, <2>5, <3>1, LeftOfAppended
    <3>3. d \in 0..Len(Append(h, c)) /\ \A i \in 1..d : Append(h, c)[i] = h[i]
      <4>1. Len(h) \in Nat
        OBVIOUS
      <4> QED OBVIOUS
    <3> QED BY <3>1, <3>2
  <2>10. spent' \in [Key -> Seq(Usage)]
    BY <1>1, <2>1, <2>7
  <2> HIDE DEF Window0, Ordered
  <2>11. \A q \in Key : Ordered(spent'[q], now') /\ Window0(tokenUsage'[q], spent'[q], now')
    BY <1>0, <2>1, <2>6, <2>8, <2>9
  <2> QED BY <1>2, <2>10, <2>11
<1>9. ASSUME NEW p \in Provider, NEW k \in Key, NEW d \in Cooldown, AuditMarkCoolDown(p, k, d)
      PROVE  ChargesInv'
  BY <1>4, <1>9 DEF AuditMarkCoolDown, MarkCoolDown
<1>10. CASE AuditTick
  <2>1. UNCHANGED <<spent, tokenUsage>> /\ now' = now + 1
    BY <1>10 DEF AuditTick, Tick, audit, limits
  <2>2. ASSUME NEW k \in Key PROVE Ordered(spent[k], now') /\ Window0(tokenUsage[k], spent[k], now')
    <3>1. Len(spent[k]) \in Nat /\ \A i \in 1..Len(spent[k]) : spent[k][i] \in Usage
      BY <1>0
    <3>2. \A i \in 1..Len(spent[k]) : spent[k][i].at \in Nat
      BY <3>1 DEF Usage, Time
    <3>3. Ordered(spent[k], now')
      BY <1>0, <1>1, <2>1, <3>2
    <3>4. PICK d \in 0..Len(spent[k]) :
            LeftOf(tokenUsage[k], spent[k], d) /\ \A i \in 1..d : spent[k][i].at < now - Window
      BY <1>0
    <3>5. \A i \in 1..d : spent[k][i].at < now' - Window
      <4> TAKE i \in 1..d
      <4>1. i \in 1..Len(spent[k])
        OBVIOUS
      <4>2. spent[k][i].at \in Nat /\ spent[k][i].at < now - Window
        BY <3>2, <3>4
      <4> QED BY <1>1, <2>1, <4>2
    <3> QED BY <3>3, <3>4, <3>5
  <2> HIDE DEF Window0, Ordered
  <2> QED BY <1>1, <1>2, <2>1, <2>2
<1> QED
  BY <1>5, <1>6, <1>7, <1>8, <1>9, <1>10 DEF AuditNext

(* The tokens that the rotator counts are those of the recent charges,     *)
(* throughout.                                                             *)
LEMMA ChargesAgree == AuditSpec => []TokensAgree
<1>1. AuditInit => ChargesInv
  <2> SUFFICES ASSUME AuditInit PROVE ChargesInv
    OBVIOUS
  <2>1. /\ spent = [k \in Key |-> <<>>] /\ tokenUsage = [k \in Key |-> <<>>]
    BY DEF AuditInit, New
  <2>2. <<>> \in Seq(Usage) /\ Len(<<>>) = 0 /\ LeftOf(<<>>, <<>>, 0) /\ 0 \in 0..0
    BY DEF LeftOf
  <2>3. spent \in [Key -> Seq(Usage)]
    BY <2>1
  <2>4. ASSUME NEW k \in Key
        PROVE  /\ Len(spent[k]) = 0 /\ 0 \in 0..Len(spent[k])
               /\ LeftOf(tokenUsage[k], spent[k], 0)
    BY <2>1, <2>2
  <2> QED BY <2>3, <2>4 DEF ChargesInv
<1>2. AgreeInv /\ ChargesInv /\ [AuditNext]_auditVars => ChargesInv'
  <2>1. ChargesInv /\ UNCHANGED auditVars => ChargesInv'
    BY DEF ChargesInv, auditVars, rotatorVars, audit
  <2> QED BY <2>1, ChargesStep
<1>3. AgreeInv /\ ChargesInv => TokensAgree
  BY TokensSummed DEF AgreeInv, RPMInv
<1> QED
  BY <1>1, <1>2, <1>3, Agreement, PTL DEF AuditSpec

(* Every step of the audited rotator is a step of the abstract pool, or one*)
(* that the pool does not see.                                             *)
LEMMA PoolStep ==
  ASSUME AgreeInv, TokensAgree, AuditNext
  PROVE  [Pool!PoolNext]_(Pool!poolVars)
<1> DEFINE members == [q \in Provider |-> Range(keys[q])]
<1>1. /\ \A q \in Provider : keys[q] \in Seq(Key)
      /\ \A k \in Key : healthy(now, k) <=> Pool!Available(k)
  BY HealthyIsAvailable DEF AgreeInv, RPMInv, RotatorTypeOK
<1>2. ASSUME NEW p \in Provider, NEW k \in Key, AuditAddKey(p, k) PROVE Pool!Join(p, k)
  <2>1. /\ \A q \in Provider : k \notin Range(keys[q])
        /\ keys' = [keys EXCEPT ![p] = Append(@, k)]
        /\ UNCHANGED <<grants, spent, deadline, answer, calls, now>>
    BY <1>2 DEF AuditAddKey, AddKey, audit
  <2>2. Range(keys'[p]) = Range(keys[p]) \cup {k}
    <3>1. /\ Len(keys[p]) \in Nat /\ keys'[p] = Append(keys[p], k) /\ keys[p] \in Seq(Key)
      BY <2>1 DEF AgreeInv, RPMInv, RotatorTypeOK
    <3>2. /\ DOMAIN keys[p] = 1..Len(keys[p]) /\ DOMAIN keys'[p] = 1..(Len(keys[p]) + 1)
          /\ keys'[p][Len(keys[p]) + 1] = k
          /\ \A i \in 1..Len(keys[p]) : keys'[p][i] = keys[p][i]
      BY <3>1
    <3> DEFINE l == Len(keys[p])
    <3>3. 1..(l + 1) = (1..l) \cup {l + 1}
      BY <3>1
    <3> HIDE DEF l
    <3>4. /\ DOMAIN keys'[p] = (1..l) \cup {l + 1} /\ DOMAIN keys[p] = 1..l
          /\ keys'[p][l + 1] = k /\ \A i \in 1..l : keys'[p][i] = keys[p][i]
      BY <3>2, <3>3 DEF l
    <3>5. ASSUME NEW x \in Range(keys'[p]) PROVE x \in Range(keys[p]) \cup {k}
      <4>1. PICK i \in (1..l) \cup {l + 1} : x = keys'[p][i]
        BY <3>4 DEF Range
      <4> QED BY <3>4, <4>1 DEF Range
    <3>6. ASSUME NEW x \in Range(keys[p]) \cup {k} PROVE x \in Range(keys'[p])
      BY <3>4 DEF Range
    <3> QED BY <3>5, <3>6
  <2>3. \A q \in Provider : q # p => keys'[q] = keys[q]
    BY <2>1
  <2>4. members' = [members EXCEPT ![p] = @ \cup {k}]
    BY <2>2, <2>3
  <2> QED BY <2>1, <2>4 DEF Pool!Join
<1>3. ASSUME NEW p \in Provider, NEW k \in Key, AuditGetKeyOK(p, k) PROVE Pool!Grant(p, k)
  <2>1. PICK r \in 0..(Len(keys[p]) - 1) : Scan(p, r) = k
    BY <1>3 DEF AuditGetKeyOK, GetKeyOK
  <2>2. /\ healthy(now, k) /\ UNCHANGED <<keys, spent, deadline, now>> /\ Audited
        /\ grants' = [grants EXCEPT ![k] = Append(@, now)]
        /\ answer' = [answer EXCEPT ![p] = k]
    BY <1>3 DEF AuditGetKeyOK, GetKeyOK, PruneScanned
  <2>3. k \in Range(keys[p])
    <3>1. Len(keys[p]) \in Nat /\ idx[p] \in Nat
      BY <1>1 DEF AgreeInv, RPMInv, RotatorTypeOK
    <3>2. (idx[p] + r) % Len(keys[p]) \in 0..(Len(keys[p]) - 1)
      BY <3>1
    <3>3. PICK m \in 0..(Len(keys[p]) - 1) : keys[p][1 + m] = k
      BY <2>1, <3>2 DEF Scan
    <3>4. 1 + m \in DOMAIN keys[p]
      BY <1>1, <3>1
    <3> QED BY <3>3, <3>4 DEF Range
  <2> QED BY <1>1, <2>2, <2>3 DEF Pool!Grant, Pool!Call, Audited
<1>4. ASSUME NEW p \in Provider, AuditGetKeyErr(p) PROVE Pool!Refuse(p)
  <2>1. /\ \A k \in Range(keys[p]) : ~healthy(now, k)
        /\ UNCHANGED <<keys, grants, spent, deadline, now>> /\ Audited
        /\ answer' = [answer EXCEPT ![p] = Refused]
    BY <1>4 DEF AuditGetKeyErr, GetKeyErr, PruneScanned
  <2>2. Range(keys[p]) \subseteq Key
    BY <1>1 DEF Range
  <2> QED BY <1>1, <2>1, <2>2 DEF Pool!Refuse, Pool!Call, Audited
<1>5. ASSUME NEW p \in Provider, NEW k \in Key, NEW n \in Tokens, AuditMarkTokens(p, k, n)
      PROVE  Pool!Charge(p, k, n)
  BY <1>5 DEF AuditMarkTokens, MarkTokens, pool, Audited, Pool!Charge, Pool!Call
<1>6. ASSUME NEW p \in Provider, NEW k \in Key, NEW d \in Cooldown, AuditMarkCoolDown(p, k, d)
      PROVE  Pool!Cool(p, k, d)
  BY <1>6 DEF AuditMarkCoolDown, MarkCoolDown, pool, Pool!Cool
<1>7. ASSUME AuditTick PROVE Pool!PoolTick
  BY <1>7 DEF AuditTick, Tick, audit, pool, Pool!PoolTick
<1> QED BY <1>2, <1>3, <1>4, <1>5, <1>6, <1>7 DEF AuditNext, Pool!PoolNext

(* The rotator implements KeyPool: it grants a key only if the complete    *)
(* histories allow it and refuses only if they allow none, for requests and*)
(* for tokens, and charges and cool-downs by ID reach the keys their       *)
(* callers mean.                                                           *)
THEOREM PoolImplemented == AuditSpec => ImplementsPool
<1>1. AuditInit => Pool!PoolInit
  <2> SUFFICES ASSUME AuditInit PROVE Pool!PoolInit
    OBVIOUS
  <2>1. [p \in Provider |-> Range(keys[p])] = [p \in Provider |-> {}]
    BY DEF AuditInit, New, Range
  <2> QED BY <2>1 DEF AuditInit, New, Pool!PoolInit
<1>2. AgreeInv /\ TokensAgree /\ [AuditNext]_auditVars => [Pool!PoolNext]_(Pool!poolVars)
  <2>1. UNCHANGED auditVars => UNCHANGED Pool!poolVars
    BY DEF auditVars, rotatorVars, audit, Pool!poolVars
  <2> QED BY <2>1, PoolStep
<1> QED
  BY <1>1, <1>2, Agreement, ChargesAgree, PTL DEF AuditSpec, ImplementsPool, Pool!PoolSpec

----------------------------------------------------------------------------
(* No key is lost.                                                         *)

(* Every finite non-empty set of integers has a largest element, its Max.  *)
LEMMA MaxOfFinite ==
  ASSUME NEW S \in SUBSET Int, IsFiniteSet(S), S # {}
  PROVE  Max(S) \in S /\ \A y \in S : y <= Max(S)
<1> DEFINE Top(T) == \E m \in T : \A y \in T : y <= m
           B == {T \in SUBSET S : T # {} => Top(T)}
<1>1. ASSUME NEW T \in SUBSET S, \A x \in T : T \ {x} \in B, T # {} PROVE Top(T)
  <2>1. PICK x \in T : TRUE
    BY <1>1
  <2>2. CASE T \ {x} = {}
    <3>1. \A y \in T : y = x
      BY <2>2
    <3> QED BY <3>1
  <2>3. CASE T \ {x} # {}
    <3>1. PICK m \in T \ {x} : \A y \in T \ {x} : y <= m
      BY <1>1, <2>3
    <3>2. CASE x <= m
      <4>1. \A y \in T : y <= m
        BY <3>1, <3>2
      <4> QED BY <4>1
    <3>3. CASE ~(x <= m)
      <4>1. \A y \in T : y <= x
        BY <3>1, <3>3
      <4> QED BY <4>1
    <3> QED BY <3>2, <3>3
  <2> QED BY <2>3
<1>2. B \in SUBSET (SUBSET S)
  OBVIOUS
<1>3. \A T \in SUBSET S : (\A x \in T : T \ {x} \in B) => T \in B
  BY <1>1
<1>4. S \in B
  <2> HIDE DEF B
  <2> QED BY <1>2, <1>3, AllFiniteSets
<1>5. PICK m \in S : \A y \in S : m >= y
  BY <1>4
<1>6. Max(S) \in S /\ \A y \in S : Max(S) >= y
  BY <1>5, Zenon DEF Max
<1> QED
  BY <1>6

\* How long a key can stay unhealthy without a further charge or cool-down.
Longest == Max(Cooldown \cup {Window + 1})

(* It is longer than a window, and no cool-down is longer.                 *)
LEMMA LongestBounds ==
  Longest \in Nat /\ Longest > Window /\ \A d \in Cooldown : d <= Longest
<1> DEFINE S == Cooldown \cup {Window + 1}
<1>1. S \in SUBSET Int /\ S # {} /\ Window \in Nat /\ S \subseteq Nat
  BY RotatorAssumption
<1>2. IsFiniteSet(S)
  BY RotatorAssumption, FS_Singleton, FS_Union
<1>3. Window + 1 \in S /\ Cooldown \subseteq S
  OBVIOUS
<1> HIDE DEF S
<1>4. Max(S) \in S /\ \A y \in S : y <= Max(S)
  BY <1>1, <1>2, MaxOfFinite
<1> DEFINE m == Max(S)
<1>5. m \in S /\ \A y \in S : y <= m
  BY <1>4
<1> HIDE DEF m
<1>6. m \in Nat /\ Window + 1 <= m /\ \A d \in Cooldown : d <= m
  BY <1>1, <1>3, <1>5
<1>7. m > Window
  BY <1>1, <1>6
<1> QED
  BY <1>6, <1>7 DEF Longest, S, m

\* No entry of a window lies in the future, and no cool-down ends later than
\* the longest one from now.
RecoveryInv ==
  /\ RotatorTypeOK
  /\ \A k \in Key :
       /\ CoolUntil[k] <= now + Longest
       /\ \A i \in 1..Len(requestTimes[k]) : requestTimes[k][i] <= now
       /\ \A i \in 1..Len(tokenUsage[k]) : tokenUsage[k][i].at <= now

(* Pruning and recording at the present time put nothing in the future.    *)
LEMMA PrunedNotLater ==
  ASSUME RecoveryInv, NEW k \in Key
  PROVE  /\ \A i \in 1..Len(Times(now, k)) : Times(now, k)[i] <= now
         /\ \A i \in 1..Len(pruneTokens(now, tokenUsage[k])) :
              pruneTokens(now, tokenUsage[k])[i].at <= now
<1> DEFINE u == tokenUsage[k]
           r == requestTimes[k]
           v == pruneTokens(now, u)
           w == pruneTimes(now, r)
<1>1. u \in Seq(Usage) /\ r \in Seq(Time) /\ now \in Time
      /\ (\A i \in 1..Len(r) : r[i] <= now) /\ \A i \in 1..Len(u) : u[i].at <= now
  BY DEF RecoveryInv, RotatorTypeOK
<1>2. PICK d \in 0..Len(u) : LeftOf(v, u, d)
  BY <1>1, PruneTokensLeft
<1>3. PICK e \in 0..Len(r) : Len(w) = Len(r) - e /\ \A i \in 1..(Len(r) - e) : w[i] = r[i + e]
  BY <1>1, PruneTimesSuffix
<1>4. Len(u) \in Nat /\ Len(r) \in Nat
  OBVIOUS
<1>5. Times(now, k) = w \/ Times(now, k) = r
  BY DEF Times
<1> HIDE DEF u, v, w, r
<1>6. ASSUME NEW i \in 1..Len(v) PROVE v[i].at <= now
  <2>1. v[i] = u[i + d] /\ Len(v) = Len(u) - d
    BY <1>2 DEF LeftOf
  <2>2. i + d \in 1..Len(u)
    BY <2>1
  <2> QED BY <1>1, <2>1
<1>7. ASSUME NEW i \in 1..Len(w) PROVE w[i] <= now
  <2>1. i \in 1..(Len(r) - e) /\ i + e \in 1..Len(r)
    BY <1>3
  <2> QED BY <1>1, <1>3
<1> QED
  BY <1>1, <1>5, <1>6, <1>7 DEF u, v

(* Every method keeps it so.                                               *)
LEMMA RecoveryStep ==
  ASSUME RecoveryInv, [RotatorNext]_rotatorVars
  PROVE  RecoveryInv'
<1>1. RotatorTypeOK /\ RotatorTypeOK'
  BY RotatorTypeStep DEF RecoveryInv, RotatorTypeOK, rotatorVars
<1>2. /\ now \in Nat /\ now \in Time /\ Longest \in Nat
      /\ \A d \in Cooldown : d <= Longest /\ d \in Nat
      /\ \A k \in Key : /\ CoolUntil[k] \in Nat /\ requestTimes[k] \in Seq(Time)
                        /\ tokenUsage[k] \in Seq(Usage)
  BY <1>1, LongestBounds, RotatorAssumption DEF RotatorTypeOK, Time
<1> DEFINE R(r) == \A i \in 1..Len(r) : r[i] <= now
           U(u) == \A i \in 1..Len(u) : u[i].at <= now
<1>3. \A k \in Key : CoolUntil[k] <= now + Longest /\ R(requestTimes[k]) /\ U(tokenUsage[k])
  BY DEF RecoveryInv
<1>4. \A k \in Key : R(Times(now, k)) /\ U(pruneTokens(now, tokenUsage[k]))
                     /\ Times(now, k) \in Seq(Time)
                     /\ pruneTokens(now, tokenUsage[k]) \in Seq(Usage)
  BY <1>1, <1>2, PrunedNotLater, WindowsTyped, PruneTokensLeft
<1>5. ASSUME NEW r \in Seq(Time), R(r) PROVE R(Append(r, now))
  <2>1. /\ Len(r) \in Nat /\ Len(Append(r, now)) = Len(r) + 1 /\ Append(r, now)[Len(r) + 1] = now
        /\ \A i \in 1..Len(r) : Append(r, now)[i] = r[i]
    OBVIOUS
  <2> DEFINE a == Append(r, now)
  <2> HIDE DEF a
  <2>2. ASSUME NEW i \in 1..Len(a) PROVE a[i] <= now
    <3>1. i \in 1..Len(r) \/ i = Len(r) + 1
      BY DEF a
    <3> QED BY <1>2, <1>5 DEF a
  <2> QED BY <2>2 DEF a
<1>6. ASSUME NEW u \in Seq(Usage), U(u), NEW n \in Int
      PROVE  U(Append(u, [at |-> now, tokens |-> n]))
  <2> DEFINE e == [at |-> now, tokens |-> n]
             a == Append(u, e)
  <2>1. e \in Usage /\ e.at = now
    BY <1>2 DEF Usage
  <2> HIDE DEF e
  <2>2. /\ Len(u) \in Nat /\ Len(a) = Len(u) + 1 /\ a[Len(u) + 1] = e
        /\ \A i \in 1..Len(u) : a[i] = u[i]
    OBVIOUS
  <2> HIDE DEF a
  <2>3. ASSUME NEW i \in 1..Len(a) PROVE a[i].at <= now
    <3>1. i \in 1..Len(u) \/ i = Len(u) + 1
      BY <2>2
    <3> QED BY <1>2, <1>6, <2>1, <2>2
  <2> QED BY <2>3 DEF a, e
<1>7. ASSUME now' = now,
             \A k \in Key : /\ CoolUntil'[k] <= now + Longest
                            /\ R(requestTimes'[k]) /\ U(tokenUsage'[k])
      PROVE  RecoveryInv'
  BY <1>1, <1>7 DEF RecoveryInv
<1> HIDE DEF R, U
<1>8. ASSUME NEW p \in Provider, NEW k \in Key, AddKey(p, k) PROVE RecoveryInv'
  BY <1>3, <1>7, <1>8 DEF AddKey, limits
<1>9. ASSUME NEW p \in Provider, NEW k \in Key, GetKeyOK(p, k) PROVE RecoveryInv'
  <2>1. PICK S :
          /\ UNCHANGED <<CoolUntil, now>>
          /\ tokenUsage' = [q \in Key |-> IF q \in S THEN Usages(now, q) ELSE tokenUsage[q]]
          /\ requestTimes' = [q \in Key |->
               IF q = k /\ RPM[q] > 0 THEN Append(Times(now, q), now)
               ELSE IF q \in S THEN Times(now, q) ELSE requestTimes[q]]
    BY <1>9, Zenon DEF GetKeyOK, PruneScanned
  <2>2. \A q \in Key : R(requestTimes'[q])
    BY <1>3, <1>4, <1>5, <2>1
  <2>3. \A q \in Key : U(tokenUsage'[q])
    BY <1>3, <1>4, <2>1 DEF Usages
  <2> QED BY <1>3, <1>7, <2>1, <2>2, <2>3
<1>10. ASSUME NEW p \in Provider, GetKeyErr(p) PROVE RecoveryInv'
  <2>1. \A q \in Key : R(requestTimes'[q])
    BY <1>3, <1>4, <1>10 DEF GetKeyErr
  <2>2. \A q \in Key : U(tokenUsage'[q])
    BY <1>3, <1>4, <1>10 DEF GetKeyErr, PruneScanned, Usages
  <2> QED BY <1>3, <1>7, <1>10, <2>1, <2>2 DEF GetKeyErr, PruneScanned
<1>11. ASSUME NEW p \in Provider, NEW k \in Key, NEW n \in Tokens, MarkTokens(p, id[k], n)
       PROVE  RecoveryInv'
  <2>1. n \in Int
    BY RotatorAssumption
  <2>2. ASSUME NEW q \in Key PROVE U(tokenUsage'[q])
    <3>1. \/ tokenUsage'[q] = tokenUsage[q]
          \/ tokenUsage'[q] = Append(pruneTokens(now, tokenUsage[q]),
                                     [at |-> now, tokens |-> n])
      BY <1>11 DEF MarkTokens
    <3> QED BY <1>3, <1>4, <1>6, <2>1, <3>1
  <2> QED BY <1>3, <1>7, <1>11, <2>2 DEF MarkTokens
<1>12. ASSUME NEW p \in Provider, NEW k \in Key, NEW d \in Cooldown, MarkCoolDown(p, id[k], d)
       PROVE  RecoveryInv'
  <2>1. now + d <= now + Longest
    BY <1>2
  <2>2. \A q \in Key : CoolUntil'[q] <= now + Longest
    BY <1>3, <1>12, <2>1 DEF MarkCoolDown
  <2> QED BY <1>3, <1>7, <1>12, <2>2 DEF MarkCoolDown
<1>13. CASE Tick
  <2>1. now' = now + 1 /\ UNCHANGED <<CoolUntil, requestTimes, tokenUsage>>
    BY <1>13 DEF Tick, limits
  <2>2. ASSUME NEW k \in Key
        PROVE  /\ CoolUntil[k] <= now' + Longest
               /\ \A i \in 1..Len(requestTimes[k]) : requestTimes[k][i] <= now'
               /\ \A i \in 1..Len(tokenUsage[k]) : tokenUsage[k][i].at <= now'
    <3>1. CoolUntil[k] <= now' + Longest
      BY <1>2, <1>3, <2>1
    <3>2. ASSUME NEW i \in 1..Len(requestTimes[k]) PROVE requestTimes[k][i] <= now'
      <4>1. requestTimes[k][i] \in Nat /\ requestTimes[k][i] <= now
        BY <1>2, <1>3 DEF R, Time
      <4> QED BY <1>2, <2>1, <4>1
    <3>3. ASSUME NEW i \in 1..Len(tokenUsage[k]) PROVE tokenUsage[k][i].at <= now'
      <4>1. tokenUsage[k][i] \in Usage
        BY <1>2
      <4>2. tokenUsage[k][i].at \in Nat /\ tokenUsage[k][i].at <= now
        BY <1>3, <4>1 DEF U, Usage, Time
      <4> QED BY <1>2, <2>1, <4>2
    <3> QED BY <3>1, <3>2, <3>3
  <2> QED BY <1>1, <2>1, <2>2 DEF RecoveryInv
<1>14. CASE UNCHANGED rotatorVars
  BY <1>3, <1>7, <1>14 DEF rotatorVars
<1> QED
  BY <1>8, <1>9, <1>10, <1>11, <1>12, <1>13, <1>14 DEF RotatorNext

(* Whatever callers did before, once they stop charging and cooling a key  *)
(* every GetKey finds it healthy after the longest cool-down and a window: *)
(* pruneWindow empties both of its windows.                                *)
THEOREM KeysRecover == RotatorSpec => []LockoutBounded
<1>1. New => RecoveryInv
  <2> SUFFICES ASSUME New PROVE RecoveryInv
    OBVIOUS
  <2>1. RotatorTypeOK
    BY NewTyped
  <2>2. Longest \in Nat
    BY LongestBounds
  <2>3. \A k \in Key : CoolUntil[k] = 0 /\ Len(requestTimes[k]) = 0 /\ Len(tokenUsage[k]) = 0
    BY DEF New
  <2>4. now = 0
    BY DEF New
  <2> QED BY <2>1, <2>2, <2>3, <2>4 DEF RecoveryInv
<1>2. RecoveryInv /\ [RotatorNext]_rotatorVars => RecoveryInv'
  BY RecoveryStep
<1>3. RecoveryInv => LockoutBounded
  <2> SUFFICES ASSUME RecoveryInv, NEW k \in Key PROVE healthy(now + Longest, k)
    BY DEF LockoutBounded, Longest
  <2> DEFINE t == now + Longest
             u == tokenUsage[k]
             r == requestTimes[k]
             v == pruneTokens(t, u)
             w == pruneTimes(t, r)
  <2>1. /\ t \in Time /\ u \in Seq(Usage) /\ r \in Seq(Time) /\ now < t - Window
        /\ now \in Nat /\ t - Window \in Int
        /\ CoolUntil[k] <= t /\ CoolUntil[k] \in Nat
        /\ (\A i \in 1..Len(r) : r[i] <= now) /\ \A i \in 1..Len(u) : u[i].at <= now
    BY LongestBounds, RotatorAssumption DEF RecoveryInv, RotatorTypeOK, Time
  <2>2. v \in Seq(Usage)
    BY <2>1, PruneTokensLeft
  <2>3. PICK d \in 0..Len(u) :
          LeftOf(v, u, d) /\ (d < Len(u) => u[d + 1].at >= t - Window)
    BY <2>1, PruneTokensLeft
  <2>4. /\ FirstLive(t, r) \in 1..(Len(r) + 1) /\ Len(w) = Len(r) - (FirstLive(t, r) - 1)
        /\ FirstLive(t, r) <= Len(r) => r[FirstLive(t, r)] >= t - Window
    BY <2>1, FirstLiveStops, PruneTimesSuffix
  <2>5. Len(u) \in Nat /\ Len(r) \in Nat /\ (\A i \in 1..Len(u) : u[i].at \in Nat)
        /\ \A i \in 1..Len(r) : r[i] \in Nat
    <3>1. Len(u) \in Nat /\ Len(r) \in Nat /\ (\A i \in 1..Len(u) : u[i] \in Usage)
          /\ \A i \in 1..Len(r) : r[i] \in Time
      BY <2>1
    <3> HIDE DEF u, r
    <3> QED BY <3>1 DEF Usage, Time
  <2> HIDE DEF t, u, r, v, w
  <2>6. Len(v) = 0
    <3>1. ~(d < Len(u))
      <4> SUFFICES ASSUME d < Len(u) PROVE FALSE
        OBVIOUS
      <4>1. d + 1 \in 1..Len(u)
        OBVIOUS
      <4>2. u[d + 1].at \in Nat /\ u[d + 1].at <= now /\ u[d + 1].at >= t - Window
        BY <2>1, <2>3, <2>5
      <4> QED BY <2>1, <4>2
    <3>2. Len(v) = Len(u) - d
      BY <2>3 DEF LeftOf
    <3> QED BY <3>1, <3>2
  <2>7. Len(w) = 0
    <3> DEFINE f == FirstLive(t, r)
    <3>1. f \in 1..(Len(r) + 1) /\ Len(w) = Len(r) - (f - 1) /\ (f <= Len(r) => r[f] >= t - Window)
      BY <2>4
    <3> HIDE DEF f
    <3>2. ~(f <= Len(r))
      <4> SUFFICES ASSUME f <= Len(r) PROVE FALSE
        OBVIOUS
      <4>1. f \in 1..Len(r)
        BY <3>1
      <4>2. r[f] \in Nat /\ r[f] <= now /\ r[f] >= t - Window
        BY <2>1, <2>5, <3>1
      <4> QED BY <2>1, <4>2
    <3> QED BY <3>1, <3>2
  <2>8. Used(v) = 0
    BY <2>2, <2>6, UsedTyped
  <2>9. RPM[k] > 0 => Times(t, k) = w
    BY DEF Times, w, r
  <2>10. TPM[k] > 0 => Usages(t, k) = v
    BY DEF Usages, v, u
  <2>11. t >= CoolUntil[k]
    BY <2>1
  <2>12. RPM[k] \in Int /\ TPM[k] \in Int
    BY RotatorAssumption
  <2>13. healthy(t, k)
    BY <2>7, <2>8, <2>9, <2>10, <2>11 DEF healthy
  <2> QED BY <2>13 DEF t
<1> QED
  BY <1>1, <1>2, <1>3, PTL DEF RotatorSpec
=============================================================================
