---------------------------- MODULE FiniteFacts -----------------------------
(***************************************************************************)
(* Facts that the proofs of several components need.                       *)
(*                                                                         *)
(* Sums of integers over a finite set, as MapThenSumSet computes them: one *)
(* arbitrarily chosen element after another.  The lemmas say that the sum  *)
(* does not depend on the choice, and how it changes when an element is    *)
(* taken out.  Every induction is over the subsets of a finite set, in the *)
(* form of a smallest subset for which the claim would fail.               *)
(*                                                                         *)
(* The lists of Listings, for arguments of any length: that filtering,     *)
(* sorting and flattening lose nothing, repeat nothing and keep the order. *)
(* A member's place in a listing is the number of members up to it; that   *)
(* every place has a member is a count, not an induction.                  *)
(***************************************************************************)
EXTENDS Listings, Integers, FiniteSets, FiniteSetsExt, FiniteSetTheorems, WellFoundedInduction,
        SequenceTheorems, NaturalsInduction, TLAPS

-----------------------------------------------------------------------------
(* Sums.                                                                   *)

\* The element that the fold takes next.
Pick(s) == CHOOSE x \in s : TRUE

\* f gives the sum of a over every subset of S, one chosen element at a time.
IsSum(f, a, S) ==
    f = [s \in SUBSET S |-> IF s = {} THEN 0 ELSE a[Pick(s)] + f[s \ {Pick(s)}]]

\* A non-empty collection of subsets of a finite set has a member that contains no
\* other: the induction principle of this module.
LEMMA MinimalSubset ==
    ASSUME NEW U, IsFiniteSet(U), NEW T, T \subseteq SUBSET U, T # {}
    PROVE  \E m \in T : \A t \in T : t \subseteq m => t = m
<1>1. IsWellFoundedOn(StrictSubsetOrdering(U), SUBSET U)
  BY FS_StrictSubsetOrderingWellFounded, FS_FiniteSubsetsOfFinite
<1>2. PICK m \in T : \A t \in T : ~(<<t, m>> \in StrictSubsetOrdering(U))
  BY <1>1, WFMin
<1> QED
  BY <1>2 DEF StrictSubsetOrdering

\* The chosen element is one of the set.
LEMMA PickIn == ASSUME NEW s, s # {} PROVE Pick(s) \in s
  BY DEF Pick

\* The sums over the subsets of U are also the sums over the subsets of any S in U.
LEMMA SumRestrict ==
    ASSUME NEW U, NEW S \in SUBSET U, NEW a, NEW f, IsSum(f, a, U),
           NEW g, g = [s \in SUBSET S |-> f[s]]
    PROVE  IsSum(g, a, S)
<1>1. ASSUME NEW s \in SUBSET S
      PROVE  g[s] = IF s = {} THEN 0 ELSE a[Pick(s)] + g[s \ {Pick(s)}]
  <2>1. f[s] = IF s = {} THEN 0 ELSE a[Pick(s)] + f[s \ {Pick(s)}]
    <3>1. s \in SUBSET U
      OBVIOUS
    <3> QED
      BY <3>1 DEF IsSum
  <2>2. g[s \ {Pick(s)}] = f[s \ {Pick(s)}] /\ g[s] = f[s]
    OBVIOUS
  <2> QED
    BY <2>1, <2>2
<1>2. g = [s \in SUBSET S |-> g[s]]
  OBVIOUS
<1>3. g = [s \in SUBSET S |-> IF s = {} THEN 0 ELSE a[Pick(s)] + g[s \ {Pick(s)}]]
  BY <1>1, <1>2
<1> QED
  BY <1>3 DEF IsSum

\* Only one function satisfies the recursion.
LEMMA SumUnique ==
    ASSUME NEW U, IsFiniteSet(U), NEW a, NEW f, NEW g, IsSum(f, a, U), IsSum(g, a, U)
    PROVE  f = g
<1> DEFINE T == {s \in SUBSET U : f[s] # g[s]}
<1>1. CASE T = {}
  <2>1. \A s \in SUBSET U : f[s] = g[s]
    BY <1>1
  <2>2. f = [s \in SUBSET U |-> f[s]] /\ g = [s \in SUBSET U |-> g[s]]
    BY DEF IsSum
  <2> QED
    BY <2>1, <2>2
<1>2. CASE T # {}
  <2>1. PICK m \in T : \A t \in T : t \subseteq m => t = m
    <3> HIDE DEF T
    <3>1. T \subseteq SUBSET U
      BY DEF T
    <3> QED
      BY <1>2, <3>1, MinimalSubset
  <2>2. /\ f[m] = IF m = {} THEN 0 ELSE a[Pick(m)] + f[m \ {Pick(m)}]
        /\ g[m] = IF m = {} THEN 0 ELSE a[Pick(m)] + g[m \ {Pick(m)}]
    BY DEF IsSum
  <2>3. m # {} /\ m \in SUBSET U /\ f[m] # g[m]
    BY <2>2
  <2>4. m \ {Pick(m)} \in SUBSET U /\ m \ {Pick(m)} # m /\ m \ {Pick(m)} \subseteq m
    BY <2>3, PickIn
  <2>5. f[m \ {Pick(m)}] = g[m \ {Pick(m)}]
    BY <2>1, <2>4
  <2> QED
    BY <2>2, <2>3, <2>5
<1> QED
  BY <1>1, <1>2

\* Some function satisfies it: what the recursive definition of the fold takes for
\* granted.
LEMMA SumExists ==
    ASSUME NEW U, IsFiniteSet(U), NEW a \in [U -> Int]
    PROVE  \E f \in [SUBSET U -> Int] : IsSum(f, a, U)
<1> DEFINE Has(s) == \E f \in [SUBSET s -> Int] : IsSum(f, a, s)
           T == {s \in SUBSET U : ~Has(s)}
<1>1. CASE T = {}
  BY <1>1
<1>2. CASE T # {}
  <2>1. PICK m \in T : \A t \in T : t \subseteq m => t = m
    <3> HIDE DEF T
    <3>1. T \subseteq SUBSET U
      BY DEF T
    <3> QED
      BY <1>2, <3>1, MinimalSubset
  <2>2. m \in SUBSET U /\ ~Has(m)
    BY <2>1
  <2>3. \A t \in SUBSET m : t # m => Has(t)
    BY <2>1, <2>2
  <2> DEFINE F(t) == CHOOSE f \in [SUBSET t -> Int] : IsSum(f, a, t)
             c == Pick(m)
             h == [s \in SUBSET m |->
                     IF s = {} THEN 0
                     ELSE IF s = m THEN a[c] + F(m \ {c})[m \ {c}] ELSE F(s)[s]]
  <2>4. \A t \in SUBSET m : t # m => F(t) \in [SUBSET t -> Int] /\ IsSum(F(t), a, t)
    BY <2>3
  <2> HIDE DEF Has, F, T
  <2>5. ASSUME NEW t \in SUBSET m, t # m, NEW u \in SUBSET t
        PROVE  F(t)[u] = F(u)[u]
    <3>1. u \in SUBSET m /\ u # m /\ IsFiniteSet(u)
      <4>1. IsFiniteSet(m)
        BY <2>2, FS_Subset
      <4> QED
        BY <2>5, <4>1, FS_Subset
    <3>2. IsSum(F(t), a, t) /\ IsSum(F(u), a, u)
      BY <2>4, <2>5, <3>1
    <3> DEFINE g == [s \in SUBSET u |-> F(t)[s]]
               ft == F(t)
    <3>3. g[u] = F(t)[u] /\ g = [s \in SUBSET u |-> ft[s]]
      OBVIOUS
    <3>4. IsSum(g, a, u)
      <4>1. IsSum(ft, a, t)
        BY <3>2
      <4> HIDE DEF ft, g
      <4> QED
        BY <3>3, <4>1, SumRestrict
    <3> HIDE DEF g
    <3>5. g = F(u)
      BY <3>1, <3>2, <3>4, SumUnique
    <3> QED
      BY <3>3, <3>5
  <2>6. \A t \in SUBSET m : t # m => h[t] = F(t)[t] /\ h[t] \in Int
    <3> SUFFICES ASSUME NEW t \in SUBSET m, t # m
                 PROVE  h[t] = F(t)[t] /\ F(t)[t] \in Int
      OBVIOUS
    <3>1. F(t)[t] \in Int /\ F(t)[t] = IF t = {} THEN 0 ELSE a[Pick(t)] + F(t)[t \ {Pick(t)}]
      <4>1. t \in SUBSET t
        OBVIOUS
      <4>2. F(t) \in [SUBSET t -> Int] /\ IsSum(F(t), a, t)
        BY <2>4
      <4> QED
        BY <4>1, <4>2 DEF IsSum
    <3> QED
      BY <3>1
  <2>7. ASSUME NEW s \in SUBSET m, s # {}
        PROVE  /\ h[s] = a[Pick(s)] + h[s \ {Pick(s)}]
               /\ h[s] \in Int
    <3>1. Pick(s) \in s /\ s \ {Pick(s)} \in SUBSET m /\ s \ {Pick(s)} # m
      BY <2>7, PickIn
    <3>2. a[Pick(s)] \in Int
      BY <2>2, <3>1
    <3>3. h[s \ {Pick(s)}] = F(s \ {Pick(s)})[s \ {Pick(s)}] /\ h[s \ {Pick(s)}] \in Int
      BY <2>6, <3>1
    <3>4. CASE s = m
      BY <2>7, <3>2, <3>3, <3>4
    <3>5. CASE s # m
      <4>1. h[s] = F(s)[s] /\ h[s] \in Int
        BY <2>6, <3>5
      <4>2. F(s)[s] = a[Pick(s)] + F(s)[s \ {Pick(s)}]
        <5>1. s \in SUBSET s
          OBVIOUS
        <5> QED
          BY <2>4, <2>7, <3>5, <5>1 DEF IsSum
      <4>3. F(s)[s \ {Pick(s)}] = F(s \ {Pick(s)})[s \ {Pick(s)}]
        BY <2>5, <3>5
      <4> QED
        BY <3>3, <4>1, <4>2, <4>3
    <3> QED
      BY <3>4, <3>5
  <2>8. h[{}] = 0
    OBVIOUS
  <2>9. h = [s \in SUBSET m |-> h[s]]
    OBVIOUS
  <2> HIDE DEF h
  <2>10. h \in [SUBSET m -> Int]
    <3>1. \A s \in SUBSET m : h[s] \in Int
      <4> SUFFICES ASSUME NEW s \in SUBSET m
                   PROVE  h[s] \in Int
        OBVIOUS
      <4>1. CASE s = {}
        BY <2>8, <4>1
      <4>2. CASE s # {}
        BY <2>7, <4>2
      <4> QED
        BY <4>1, <4>2
    <3> QED
      BY <2>9, <3>1
  <2>11. h = [s \in SUBSET m |-> IF s = {} THEN 0 ELSE a[Pick(s)] + h[s \ {Pick(s)}]]
    BY <2>7, <2>8, <2>9
  <2>12. Has(m)
    BY <2>10, <2>11 DEF Has, IsSum
  <2> QED
    BY <2>2, <2>12
<1> QED
  BY <1>1, <1>2

\* The sum over s is the term of x and the sum over the rest.
Splits(f, a, s, x) == f[s] = a[x] + f[s \ {x}]

\* The order does not matter: every element can be taken out first.
LEMMA SumTakesOut ==
    ASSUME NEW U, IsFiniteSet(U), NEW a \in [U -> Int], NEW f \in [SUBSET U -> Int],
           IsSum(f, a, U), NEW s \in SUBSET U, NEW x \in s
    PROVE  Splits(f, a, s, x)
<1> DEFINE Good(r) == \A y \in r : f[r] = a[y] + f[r \ {y}]
           T == {r \in SUBSET U : ~Good(r)}
<1>1. CASE T = {}
  BY <1>1 DEF Splits
<1>2. CASE T # {}
  <2>1. PICK m \in T : \A r \in T : r \subseteq m => r = m
    <3> HIDE DEF T
    <3>1. T \subseteq SUBSET U
      BY DEF T
    <3> QED
      BY <1>2, <3>1, MinimalSubset
  <2>2. m \in SUBSET U /\ ~Good(m)
    BY <2>1
  <2>3. \A r \in SUBSET m : r # m => Good(r)
    BY <2>1, <2>2
  <2>4. PICK z \in m : f[m] # a[z] + f[m \ {z}]
    BY <2>2
  <2> DEFINE c == Pick(m)
  <2>5. c \in m /\ f[m] = a[c] + f[m \ {c}]
    BY <2>2, <2>4, PickIn DEF IsSum
  <2>6. c # z
    BY <2>4, <2>5
  <2> HIDE DEF c, Good, T
  <2>7. f[m \ {c}] = a[z] + f[(m \ {c}) \ {z}]
    <3>1. m \ {c} \in SUBSET m /\ m \ {c} # m /\ z \in m \ {c}
      BY <2>5, <2>6
    <3> QED
      BY <2>3, <3>1 DEF Good
  <2>8. f[m \ {z}] = a[c] + f[(m \ {z}) \ {c}]
    <3>1. m \ {z} \in SUBSET m /\ m \ {z} # m /\ c \in m \ {z}
      BY <2>5, <2>6
    <3> QED
      BY <2>3, <3>1 DEF Good
  <2>9. (m \ {c}) \ {z} = (m \ {z}) \ {c}
    OBVIOUS
  <2>10. a[z] \in Int /\ a[c] \in Int /\ f[(m \ {z}) \ {c}] \in Int
    BY <2>2, <2>5
  <2> DEFINE w == f[(m \ {z}) \ {c}]
  <2>11. /\ f[m] = a[c] + f[m \ {c}] /\ f[m \ {c}] = a[z] + w /\ f[m \ {z}] = a[c] + w
         /\ w \in Int
    BY <2>5, <2>7, <2>8, <2>9, <2>10
  <2> HIDE DEF w
  <2>12. f[m] = a[z] + f[m \ {z}]
    BY <2>10, <2>11
  <2> QED
    BY <2>4, <2>12
<1> QED
  BY <1>1, <1>2

\* The sum of the values of the function a over S.
Sum(a, S) == MapThenSumSet(LAMBDA x : a[x], S)

\* The library's fold is that function.
LEMMA SumIs ==
    ASSUME NEW U, IsFiniteSet(U), NEW a \in [U -> Int],
           NEW f \in [SUBSET U -> Int], IsSum(f, a, U), NEW S \in SUBSET U
    PROVE  Sum(a, S) = f[S]
<1> DEFINE P(g) == g = [s \in SUBSET S |-> IF s = {} THEN 0
                          ELSE a[CHOOSE x \in s : TRUE] + g[s \ {CHOOSE x \in s : TRUE}]]
<1>1. Sum(a, S) = (CHOOSE g : P(g))[S]
  BY DEF Sum, MapThenSumSet, MapThenFoldSet
<1>2. \A g : P(g) <=> IsSum(g, a, S)
  BY DEF IsSum, Pick
<1> DEFINE g == [s \in SUBSET S |-> f[s]]
<1>3. g = [s \in SUBSET S |-> f[s]] /\ g[S] = f[S]
  OBVIOUS
<1> HIDE DEF P, g
<1>4. IsSum(g, a, S)
  BY <1>3, SumRestrict
<1>5. IsSum(CHOOSE q : P(q), a, S)
  BY <1>2, <1>4
<1>6. (CHOOSE q : P(q)) = g
  BY <1>4, <1>5, SumUnique, FS_Subset
<1> QED
  BY <1>1, <1>3, <1>6

\* A sum of integers is an integer.
LEMMA SumInt ==
    ASSUME NEW U, IsFiniteSet(U), NEW a \in [U -> Int], NEW S \in SUBSET U
    PROVE  Sum(a, S) \in Int
<1>1. PICK f \in [SUBSET U -> Int] : IsSum(f, a, U)
  BY SumExists
<1>2. Sum(a, S) = f[S]
  BY <1>1, SumIs
<1> QED
  BY <1>1, <1>2

\* The empty sum is 0.
LEMMA SumEmpty ==
    ASSUME NEW U, IsFiniteSet(U), NEW a \in [U -> Int]
    PROVE  Sum(a, {}) = 0
<1>1. PICK f \in [SUBSET U -> Int] : IsSum(f, a, U)
  BY SumExists
<1>2. {} \in SUBSET U
  OBVIOUS
<1>3. Sum(a, {}) = f[{}]
  BY <1>1, <1>2, SumIs
<1>4. f[{}] = 0
  BY <1>1, <1>2 DEF IsSum
<1> QED
  BY <1>3, <1>4

\* A sum is any one of its terms and the sum of the others.
LEMMA SumRemove ==
    ASSUME NEW U, IsFiniteSet(U), NEW a \in [U -> Int], NEW S \in SUBSET U, NEW x \in S
    PROVE  Sum(a, S) = a[x] + Sum(a, S \ {x})
<1>1. PICK f \in [SUBSET U -> Int] : IsSum(f, a, U)
  BY SumExists
<1>2. Splits(f, a, S, x)
  BY <1>1, SumTakesOut
<1>3. S \ {x} \in SUBSET U
  OBVIOUS
<1>4. Sum(a, S) = f[S] /\ Sum(a, S \ {x}) = f[S \ {x}]
  BY <1>1, <1>3, SumIs
<1> QED
  BY <1>2, <1>4 DEF Splits

\* Multiplication distributes over addition.
LEMMA Distributes ==
    ASSUME NEW k \in Int, NEW u \in Int, NEW v \in Int
    PROVE  k * (u + v) = k * u + k * v
  OBVIOUS

\* k times x is at most l times y and m times z.
AtMost(k, x, l, y, m, z) == k * x <= l * y + m * z

\* A linear inequality that holds term by term holds of the sums.
LEMMA SumCompare ==
    ASSUME NEW U, IsFiniteSet(U),
           NEW a \in [U -> Int], NEW b \in [U -> Int], NEW c \in [U -> Int],
           NEW k \in Int, NEW l \in Int, NEW m \in Int,
           \A x \in U : AtMost(k, a[x], l, b[x], m, c[x])
    PROVE  AtMost(k, Sum(a, U), l, Sum(b, U), m, Sum(c, U))
<1> DEFINE Good(s) == k * Sum(a, s) <= l * Sum(b, s) + m * Sum(c, s)
           T == {s \in SUBSET U : ~Good(s)}
<1>1. CASE T = {}
  BY <1>1 DEF AtMost
<1>2. CASE T # {}
  <2>1. PICK s \in T : \A t \in T : t \subseteq s => t = s
    <3> HIDE DEF T
    <3>1. T \subseteq SUBSET U
      BY DEF T
    <3> QED
      BY <1>2, <3>1, MinimalSubset
  <2>2. s \in SUBSET U /\ ~Good(s)
    BY <2>1
  <2>3. \A t \in SUBSET s : t # s => Good(t)
    BY <2>1, <2>2
  <2>4. CASE s = {}
    <3>1. Sum(a, s) = 0 /\ Sum(b, s) = 0 /\ Sum(c, s) = 0
      BY <2>4, SumEmpty
    <3> QED
      BY <2>2, <3>1
  <2>5. CASE s # {}
    <3>1. PICK x \in s : TRUE
      BY <2>5
    <3> DEFINE t == s \ {x}
    <3>2. t \in SUBSET U /\ t \in SUBSET s /\ t # s /\ x \in U
      BY <2>2
    <3>3. /\ Sum(a, s) = a[x] + Sum(a, t)
          /\ Sum(b, s) = b[x] + Sum(b, t)
          /\ Sum(c, s) = c[x] + Sum(c, t)
      BY <2>2, SumRemove
    <3>4. Good(t)
      BY <2>3, <3>2
    <3> HIDE DEF t
    <3>5. /\ a[x] \in Int /\ b[x] \in Int /\ c[x] \in Int
          /\ Sum(a, t) \in Int /\ Sum(b, t) \in Int /\ Sum(c, t) \in Int
      BY <3>2, SumInt
    <3>6. /\ k * Sum(a, s) = k * a[x] + k * Sum(a, t)
          /\ l * Sum(b, s) = l * b[x] + l * Sum(b, t)
          /\ m * Sum(c, s) = m * c[x] + m * Sum(c, t)
      BY <3>3, <3>5, Distributes
    <3>7. k * a[x] <= l * b[x] + m * c[x]
      BY <3>2 DEF AtMost
    <3>8. /\ k * a[x] \in Int /\ l * b[x] \in Int /\ m * c[x] \in Int
          /\ k * Sum(a, t) \in Int /\ l * Sum(b, t) \in Int /\ m * Sum(c, t) \in Int
      BY <3>5
    <3>9. Good(s)
      BY <3>4, <3>6, <3>7, <3>8
    <3> QED
      BY <2>2, <3>9
  <2> QED
    BY <2>4, <2>5
<1> QED
  BY <1>1, <1>2

-----------------------------------------------------------------------------
(* Listings: the n-th member is the one with n members up to it.           *)

\* R is a total order on S, given by its pairs.
TotalOn(R, S) ==
    /\ \A x \in S : <<x, x>> \in R
    /\ \A x, y \in S : <<x, y>> \in R \/ <<y, x>> \in R
    /\ \A x, y \in S : <<x, y>> \in R /\ <<y, x>> \in R => x = y
    /\ \A x, y, z \in S : <<x, y>> \in R /\ <<y, z>> \in R => <<x, z>> \in R

\* L has every member of S once, in the order R.
Enumerates(L, S, R) ==
    /\ L \in [1..Cardinality(S) -> S] /\ Cardinality(S) \in Nat
    /\ \A x \in S : \E n \in 1..Cardinality(S) : L[n] = x
    /\ \A m, n \in 1..Cardinality(S) : m < n => L[m] # L[n] /\ <<L[m], L[n]>> \in R

\* The members up to x.
UpTo(S, R, x) == {y \in S : <<y, x>> \in R}

\* More members come up to what is later.
LEMMA UpToGrows ==
    ASSUME NEW S, IsFiniteSet(S), NEW R, TotalOn(R, S), NEW x \in S, NEW y \in S, x # y, <<x, y>> \in R
    PROVE  Cardinality(UpTo(S, R, x)) < Cardinality(UpTo(S, R, y))
<1>1. UpTo(S, R, y) \in SUBSET S /\ UpTo(S, R, x) \in SUBSET UpTo(S, R, y)
  BY DEF UpTo, TotalOn
<1>2. y \in UpTo(S, R, y) /\ y \notin UpTo(S, R, x)
  BY DEF UpTo, TotalOn
<1>3. IsFiniteSet(UpTo(S, R, y))
  BY <1>1, FS_Subset
<1>4. IsFiniteSet(UpTo(S, R, x)) /\ Cardinality(UpTo(S, R, x)) <= Cardinality(UpTo(S, R, y))
      /\ Cardinality(UpTo(S, R, y)) # Cardinality(UpTo(S, R, x))
  BY <1>1, <1>2, <1>3, FS_Subset
<1>5. Cardinality(UpTo(S, R, x)) \in Nat /\ Cardinality(UpTo(S, R, y)) \in Nat
  BY <1>3, <1>4, FS_CardinalityType
<1> QED
  BY <1>4, <1>5

\* A listing has every member once, in order.
LEMMA ListingLists ==
    ASSUME NEW S, IsFiniteSet(S), NEW R, TotalOn(R, S)
    PROVE  Enumerates(Listing(S, R), S, R)
<1>1. PICK N : N = Cardinality(S)
  OBVIOUS
<1>2. N \in Nat /\ IsFiniteSet(1..N) /\ Cardinality(1..N) = N
  <2>1. N \in Nat
    BY <1>1, FS_CardinalityType
  <2> QED
    BY <2>1, FS_Interval
<1>3. PICK place : place = [x \in S |-> Cardinality(UpTo(S, R, x))]
  OBVIOUS
<1>4. \A x \in S : place[x] \in 1..N
  <2> SUFFICES ASSUME NEW x \in S PROVE place[x] \in 1..N
    OBVIOUS
  <2>1. UpTo(S, R, x) \in SUBSET S /\ x \in UpTo(S, R, x)
    BY DEF UpTo, TotalOn
  <2>2. IsFiniteSet(UpTo(S, R, x)) /\ Cardinality(UpTo(S, R, x)) <= N
    BY <1>1, <2>1, FS_Subset
  <2>3. Cardinality(UpTo(S, R, x)) \in Nat /\ Cardinality(UpTo(S, R, x)) # 0
    BY <2>1, <2>2, FS_CardinalityType, FS_EmptySet
  <2> QED
    BY <1>2, <1>3, <2>2, <2>3
<1>5. \A x, y \in S : x # y /\ <<x, y>> \in R => place[x] < place[y]
  BY <1>3, UpToGrows
<1>6. \A x, y \in S : place[x] = place[y] => x = y
  <2> SUFFICES ASSUME NEW x \in S, NEW y \in S, x # y PROVE place[x] # place[y]
    OBVIOUS
  <2>1. <<x, y>> \in R \/ <<y, x>> \in R
    BY DEF TotalOn
  <2>2. place[x] \in Int /\ place[y] \in Int
    BY <1>4
  <2> QED
    BY <1>5, <2>1, <2>2
<1>7. place \in Injection(S, 1..N)
  BY <1>3, <1>4, <1>6 DEF Injection, IsInjective
<1>8. place \in Surjection(S, 1..N)
  BY <1>1, <1>2, <1>7, FS_Injection
<1>9. \A n \in 1..N : \E x \in S : place[x] = n
  BY <1>8 DEF Surjection
<1>10. PICK L : L = Listing(S, R)
  OBVIOUS
<1>11. DOMAIN L = 1..N /\ \A n \in 1..N : L[n] = CHOOSE x \in S : Cardinality(UpTo(S, R, x)) = n
  BY <1>1, <1>10 DEF Listing, UpTo
<1>12. \A n \in 1..N : L[n] \in S /\ place[L[n]] = n
  <2> SUFFICES ASSUME NEW n \in 1..N PROVE L[n] \in S /\ place[L[n]] = n
    OBVIOUS
  <2>1. \E x \in S : Cardinality(UpTo(S, R, x)) = n
    BY <1>3, <1>9
  <2>2. L[n] \in S /\ Cardinality(UpTo(S, R, L[n])) = n
    BY <1>11, <2>1
  <2> QED
    BY <1>3, <2>2
<1>13. L \in [1..N -> S]
  <2>1. L = [n \in 1..N |-> L[n]]
    BY <1>1, <1>10, <1>11 DEF Listing
  <2> QED
    BY <1>12, <2>1
<1>14. \A x \in S : \E n \in 1..N : L[n] = x
  BY <1>4, <1>6, <1>12
<1>15. \A m, n \in 1..N : m < n => L[m] # L[n] /\ <<L[m], L[n]>> \in R
  <2> SUFFICES ASSUME NEW m \in 1..N, NEW n \in 1..N, m < n PROVE L[m] # L[n] /\ <<L[m], L[n]>> \in R
    OBVIOUS
  <2>1. PICK x \in S, y \in S : x = L[m] /\ y = L[n] /\ place[x] = m /\ place[y] = n
    BY <1>12
  <2>2. x # y
    BY <2>1
  <2>3. ~(<<y, x>> \in R)
    BY <1>2, <1>5, <2>1, <2>2
  <2> QED
    BY <2>1, <2>2, <2>3 DEF TotalOn
<1> QED
  BY <1>1, <1>2, <1>10, <1>13, <1>14, <1>15 DEF Enumerates

\* Numbers in ascending order.
LEMMA AscendingTotal == ASSUME NEW S \in SUBSET Int PROVE TotalOn(Ascending(S), S)
<1>1. \A x, y \in S : <<x, y>> \in Ascending(S) <=> x <= y
  BY DEF Ascending
<1>2. \A x \in S : x \in Int
  OBVIOUS
<1> QED
  BY <1>1, <1>2 DEF TotalOn

\* The indexes of a list by a number, ties as they are.
LEMMA ByKeyTotal ==
    ASSUME NEW N \in Nat, NEW key \in [1..N -> Int]
    PROVE  TotalOn(ByKey(key), 1..N)
<1>1. \A x, y \in 1..N : <<x, y>> \in ByKey(key) <=> key[x] < key[y] \/ (key[x] = key[y] /\ x <= y)
  BY DEF ByKey
<1>2. \A x \in 1..N : x \in Int /\ key[x] \in Int
  OBVIOUS
<1> QED
  BY <1>1, <1>2 DEF TotalOn

\* The places of a list of lists in reading order.
LEMMA ReadingTotal ==
    ASSUME NEW P \in SUBSET (Int \X Int)
    PROVE  TotalOn(Reading(P), P)
<1>1. \A x, y \in P : <<x, y>> \in Reading(P) <=> x[1] < y[1] \/ (x[1] = y[1] /\ x[2] <= y[2])
  BY DEF Reading
<1>2. \A x \in P : x[1] \in Int /\ x[2] \in Int /\ x = <<x[1], x[2]>>
  OBVIOUS
<1>3. \A x, y \in P : x[1] = y[1] /\ x[2] = y[2] => x = y
  BY <1>2
<1>4. \A x \in P : <<x, x>> \in Reading(P)
  BY <1>1, <1>2
<1>5. ASSUME NEW x \in P, NEW y \in P PROVE <<x, y>> \in Reading(P) \/ <<y, x>> \in Reading(P)
  <2>1. PICK a \in Int, b \in Int, c \in Int, d \in Int : a = x[1] /\ b = x[2] /\ c = y[1] /\ d = y[2]
    BY <1>2
  <2>2. a < c \/ c < a \/ (a = c /\ (b <= d \/ d <= b))
    BY <2>1
  <2> QED
    BY <1>1, <2>1, <2>2
<1>6. \A x, y \in P : <<x, y>> \in Reading(P) /\ <<y, x>> \in Reading(P) => x = y
  BY <1>1, <1>2, <1>3
<1>7. \A x, y, z \in P : <<x, y>> \in Reading(P) /\ <<y, z>> \in Reading(P) => <<x, z>> \in Reading(P)
  BY <1>1, <1>2
<1> QED
  BY <1>4, <1>5, <1>6, <1>7 DEF TotalOn

\* A list that is a function of its places.
LEMMA FunctionIsList ==
    ASSUME NEW n \in Nat, NEW t, t = [k \in 1..n |-> t[k]]
    PROVE  t \in Seq(Elements(t)) /\ Len(t) = n /\ DOMAIN t = 1..n
<1>1. DOMAIN t = 1..n /\ t \in [1..n -> Elements(t)]
  BY DEF Elements
<1>2. t \in Seq(Elements(t))
  BY <1>1, SeqDef
<1> QED
  BY <1>1, <1>2, LenProperties

\* The list t has the value v[x] of every member x of S once; at says where each comes from.
Picks(t, v, at, S) ==
    /\ Cardinality(S) \in Nat /\ DOMAIN t = 1..Cardinality(S) /\ Len(t) = Cardinality(S)
    /\ t \in Seq(Elements(t)) /\ Elements(t) = {v[x] : x \in S}
    /\ \A n \in DOMAIN t : at[n] \in S /\ t[n] = v[at[n]]
    /\ \A x \in S : \E n \in DOMAIN t : at[n] = x
    /\ \A m, n \in DOMAIN t : at[m] = at[n] => m = n

\* The list of the values v of a listed set.
LEMMA ThroughListing ==
    ASSUME NEW S, NEW R, NEW at, Enumerates(at, S, R), NEW v, NEW t, t = [n \in DOMAIN at |-> v[at[n]]]
    PROVE  /\ Picks(t, v, at, S)
           /\ \A m, n \in DOMAIN t : m < n => at[m] # at[n] /\ <<at[m], at[n]>> \in R
<1>1. PICK N \in Nat : N = Cardinality(S) /\ DOMAIN at = 1..N
  BY DEF Enumerates
<1>2. DOMAIN t = 1..N /\ \A n \in 1..N : t[n] = v[at[n]]
  BY <1>1
<1>3. t \in Seq(Elements(t)) /\ Len(t) = N
  <2>1. t = [n \in 1..N |-> t[n]]
    BY <1>1
  <2> QED
    BY <2>1, FunctionIsList
<1>4. \A n \in DOMAIN t : at[n] \in S /\ t[n] = v[at[n]]
  BY <1>1, <1>2 DEF Enumerates
<1>5. \A x \in S : \E n \in DOMAIN t : at[n] = x
  BY <1>1, <1>2 DEF Enumerates
<1>6. Elements(t) = {v[x] : x \in S}
  BY <1>4, <1>5 DEF Elements
<1>7. \A m, n \in DOMAIN t : m < n => at[m] # at[n] /\ <<at[m], at[n]>> \in R
  BY <1>1, <1>2 DEF Enumerates
<1>8. \A m, n \in DOMAIN t : at[m] = at[n] => m = n
  <2> SUFFICES ASSUME NEW m \in DOMAIN t, NEW n \in DOMAIN t, m # n PROVE at[m] # at[n]
    OBVIOUS
  <2>1. m < n \/ n < m
    BY <1>2
  <2> QED
    BY <1>7, <2>1
<1> QED
  BY <1>1, <1>2, <1>3, <1>4, <1>5, <1>6, <1>7, <1>8 DEF Picks

\* The indexes that a filter keeps.
Indexes(T) == Listing(T, Ascending(T))

\* Filtering keeps what is at the indexes, in their order.
LEMMA FilteredIs ==
    ASSUME NEW N \in Nat, NEW T \in SUBSET (1..N), NEW s, NEW t, t = Filtered(s, T), NEW at, at = Indexes(T)
    PROVE  Picks(t, s, at, T) /\ \A m, n \in DOMAIN t : m < n => at[m] < at[n]
<1>1. IsFiniteSet(T)
  <2>1. IsFiniteSet(1..N)
    BY FS_Interval
  <2> QED
    BY <2>1, FS_Subset
<1>2. T \in SUBSET Int
  OBVIOUS
<1>3. Enumerates(at, T, Ascending(T))
  BY <1>1, <1>2, AscendingTotal, ListingLists DEF Indexes
<1>4. t = [n \in DOMAIN at |-> s[at[n]]]
  BY DEF Filtered, Indexes
<1>5. Picks(t, s, at, T) /\ \A m, n \in DOMAIN t : m < n => at[m] # at[n] /\ <<at[m], at[n]>> \in Ascending(T)
  BY <1>3, <1>4, ThroughListing
<1>6. \A m, n \in DOMAIN t : m < n => at[m] < at[n]
  <2> SUFFICES ASSUME NEW m \in DOMAIN t, NEW n \in DOMAIN t, m < n PROVE at[m] < at[n]
    OBVIOUS
  <2>1. PICK a \in Int, b \in Int : a = at[m] /\ b = at[n]
    BY <1>2, <1>5 DEF Picks
  <2>2. a # b /\ a <= b
    BY <1>5, <2>1 DEF Ascending
  <2> QED
    BY <2>1, <2>2
<1> QED
  BY <1>5, <1>6

\* The indexes in the order R.
From(s, R) == Listing(DOMAIN s, R)

\* Arranging keeps all, in the order.
LEMMA ArrangedIs ==
    ASSUME NEW s, NEW N \in Nat, DOMAIN s = 1..N, NEW R, TotalOn(R, 1..N), NEW t, t = Arranged(s, R),
           NEW at, at = From(s, R)
    PROVE  /\ Picks(t, s, at, 1..N) /\ Cardinality(1..N) = N
           /\ \A m, n \in 1..N : m < n => at[m] # at[n] /\ <<at[m], at[n]>> \in R
<1>1. IsFiniteSet(1..N) /\ Cardinality(1..N) = N
  BY FS_Interval
<1>2. Enumerates(at, 1..N, R)
  BY <1>1, ListingLists DEF From
<1>3. t = [n \in DOMAIN at |-> s[at[n]]]
  BY DEF Arranged, From
<1>4. Picks(t, s, at, 1..N) /\ \A m, n \in DOMAIN t : m < n => at[m] # at[n] /\ <<at[m], at[n]>> \in R
  BY <1>2, <1>3, ThroughListing
<1> QED
  BY <1>1, <1>4 DEF Picks

\* Sorting by numbers puts the smaller first.
LEMMA SortedIs ==
    ASSUME NEW s, NEW N \in Nat, DOMAIN s = 1..N, NEW key \in [1..N -> Int],
           NEW t, t = Arranged(s, ByKey(key)), NEW at, at = From(s, ByKey(key))
    PROVE  /\ Picks(t, s, at, 1..N) /\ Cardinality(1..N) = N
           /\ \A m, n \in 1..N : m < n => key[at[m]] <= key[at[n]]
<1>1. TotalOn(ByKey(key), 1..N)
  BY ByKeyTotal
<1>2. /\ Picks(t, s, at, 1..N) /\ Cardinality(1..N) = N
      /\ \A m, n \in 1..N : m < n => at[m] # at[n] /\ <<at[m], at[n]>> \in ByKey(key)
  BY <1>1, ArrangedIs
<1>3. ASSUME NEW m \in 1..N, NEW n \in 1..N, m < n PROVE key[at[m]] <= key[at[n]]
  <2>1. PICK a \in 1..N, b \in 1..N : a = at[m] /\ b = at[n]
    BY <1>2 DEF Picks
  <2>2. <<a, b>> \in ByKey(key)
    BY <1>2, <1>3, <2>1
  <2>3. key[a] \in Int /\ key[b] \in Int /\ (key[a] < key[b] \/ key[a] = key[b])
    BY <2>2 DEF ByKey
  <2> QED
    BY <2>1, <2>3
<1> QED
  BY <1>2, <1>3

\* The places of a list of lists as they are read, and what is there.
Spots(ss) == Listing(Cells(ss), Reading(Cells(ss)))
There(ss) == [x \in Cells(ss) |-> ss[x[1]][x[2]]]

\* The places are finitely many pairs of numbers.
LEMMA CellsAre ==
    ASSUME NEW ss, NEW D \in Nat, DOMAIN ss = 1..D, \A g \in 1..D : ss[g] \in Seq(Elements(ss[g])),
           NEW P, P = Cells(ss)
    PROVE  /\ IsFiniteSet(P) /\ P \in SUBSET (Int \X Int)
           /\ \A x \in P : x[1] \in 1..D /\ x[2] \in 1..Len(ss[x[1]]) /\ DOMAIN ss[x[1]] = 1..Len(ss[x[1]])
           /\ \A g \in 1..D : \A k \in 1..Len(ss[g]) : <<g, k>> \in P
<1>1. ASSUME NEW g \in 1..D
      PROVE  Len(ss[g]) \in Nat /\ DOMAIN ss[g] = 1..Len(ss[g])
  <2>1. PICK s, A : s = ss[g] /\ A = Elements(ss[g])
    OBVIOUS
  <2>2. s \in Seq(A)
    BY <2>1
  <2>3. Len(s) \in Nat /\ DOMAIN s = 1..Len(s)
    BY <2>2, LenProperties
  <2> QED
    BY <2>1, <2>3
<1>2. PICK f : f = [g \in 1..D |-> {g} \X (1..Len(ss[g]))]
  OBVIOUS
<1>3. PICK G : G = {f[g] : g \in 1..D}
  OBVIOUS
<1>4. P = UNION G
  <2>1. \A g \in 1..D : {g} \X (DOMAIN ss[g]) = f[g]
    BY <1>1, <1>2
  <2>2. P = UNION {{g} \X (DOMAIN ss[g]) : g \in 1..D}
    BY DEF Cells
  <2> QED
    BY <1>3, <2>1, <2>2
<1>5. IsFiniteSet(G)
  <2>1. f \in Surjection(1..D, G)
    BY <1>2, <1>3 DEF Surjection
  <2>2. IsFiniteSet(1..D)
    BY FS_Interval
  <2> QED
    BY <2>1, <2>2, FS_Surjection
<1>6. \A A \in G : IsFiniteSet(A)
  <2> SUFFICES ASSUME NEW g \in 1..D PROVE IsFiniteSet(f[g])
    BY <1>3
  <2>1. PICK n \in Nat : n = Len(ss[g])
    BY <1>1
  <2>2. IsFiniteSet({g})
    BY FS_Singleton
  <2>4. IsFiniteSet(1..n)
    BY FS_Interval
  <2>3. IsFiniteSet({g} \X (1..n))
    BY <2>2, <2>4, FS_Product
  <2> QED
    BY <1>2, <2>1, <2>3
<1>7. IsFiniteSet(P)
  BY <1>4, <1>5, <1>6, FS_UNION
<1>8. \A x \in P : \E g \in 1..D : \E k \in 1..Len(ss[g]) : x = <<g, k>>
  BY <1>2, <1>3, <1>4
<1>9. \A g \in 1..D : \A k \in 1..Len(ss[g]) : <<g, k>> \in P
  <2> SUFFICES ASSUME NEW g \in 1..D, NEW k \in 1..Len(ss[g]) PROVE <<g, k>> \in P
    OBVIOUS
  <2>1. <<g, k>> \in f[g]
    BY <1>2
  <2> QED
    BY <1>3, <1>4, <2>1
<1>10. ASSUME NEW x \in P
       PROVE  x[1] \in 1..D /\ x[2] \in 1..Len(ss[x[1]]) /\ DOMAIN ss[x[1]] = 1..Len(ss[x[1]]) /\ x \in Int \X Int
  <2>1. PICK g \in 1..D, n \in Nat : n = Len(ss[g]) /\ \E k \in 1..n : x = <<g, k>>
    BY <1>1, <1>8
  <2>2. PICK k \in 1..n : x = <<g, k>>
    BY <2>1
  <2>3. x[1] = g /\ x[2] = k
    BY <2>2
  <2> QED
    BY <1>1, <2>1, <2>2, <2>3
<1> QED
  BY <1>7, <1>9, <1>10

\* Flattening reads every place, list after list.
LEMMA FlattenedIs ==
    ASSUME NEW ss, NEW D \in Nat, DOMAIN ss = 1..D, \A g \in 1..D : ss[g] \in Seq(Elements(ss[g])),
           NEW P, P = Cells(ss), NEW t, t = Flattened(ss), NEW at, at = Spots(ss)
    PROVE  /\ Picks(t, There(ss), at, P)
           /\ \A m, n \in DOMAIN t : m < n =>
                 at[m][1] < at[n][1] \/ (at[m][1] = at[n][1] /\ at[m][2] < at[n][2])
<1>1. IsFiniteSet(P) /\ P \in SUBSET (Int \X Int)
  BY CellsAre
<1>2. Enumerates(at, P, Reading(P))
  BY <1>1, ReadingTotal, ListingLists DEF Spots
<1>3. PICK v : v = There(ss)
  OBVIOUS
<1>4. t = [n \in DOMAIN at |-> v[at[n]]]
  <2>1. t = [n \in DOMAIN at |-> ss[at[n][1]][at[n][2]]]
    BY DEF Flattened, Spots
  <2>2. \A n \in DOMAIN at : at[n] \in P
    BY <1>2 DEF Enumerates
  <2>3. \A n \in DOMAIN at : v[at[n]] = ss[at[n][1]][at[n][2]]
    BY <1>3, <2>2 DEF There
  <2> QED
    BY <2>1, <2>3
<1>5. Picks(t, v, at, P) /\ \A m, n \in DOMAIN t : m < n => at[m] # at[n] /\ <<at[m], at[n]>> \in Reading(P)
  BY <1>2, <1>4, ThroughListing
<1>6. ASSUME NEW m \in DOMAIN t, NEW n \in DOMAIN t, m < n
      PROVE  at[m][1] < at[n][1] \/ (at[m][1] = at[n][1] /\ at[m][2] < at[n][2])
  <2>1. PICK x \in P, y \in P : x = at[m] /\ y = at[n]
    BY <1>5 DEF Picks
  <2>2. x # y /\ <<x, y>> \in Reading(P)
    BY <1>5, <1>6, <2>1
  <2>3. PICK a \in Int, b \in Int, c \in Int, d \in Int : x = <<a, b>> /\ y = <<c, d>>
    BY <1>1
  <2>4. x[1] = a /\ x[2] = b /\ y[1] = c /\ y[2] = d /\ (a # c \/ b # d)
    BY <2>2, <2>3
  <2>5. a < c \/ (a = c /\ b <= d)
    BY <2>2, <2>4 DEF Reading
  <2> QED
    BY <2>1, <2>4, <2>5
<1> QED
  BY <1>3, <1>5, <1>6

-----------------------------------------------------------------------------
(* Lists without repetition.                                               *)

\* A list that has no element twice.
Once(s) ==
    /\ s \in Seq(Elements(s)) /\ Len(s) \in Nat /\ DOMAIN s = 1..Len(s)
    /\ \A m, n \in DOMAIN s : s[m] = s[n] => m = n

\* Such a list has as many elements as places.
LEMMA OnceCounts ==
    ASSUME NEW s, Once(s)
    PROVE  IsFiniteSet(Elements(s)) /\ Cardinality(Elements(s)) = Len(s)
<1>0. PICK A : A = Elements(s)
  OBVIOUS
<1>1. PICK N \in Nat : N = Len(s) /\ DOMAIN s = 1..N
  BY DEF Once
<1>2. IsFiniteSet(1..N) /\ Cardinality(1..N) = N
  BY FS_Interval
<1>3. s = [k \in 1..N |-> s[k]]
  <2>1. s \in Seq(A)
    BY <1>0 DEF Once
  <2>2. s \in [1..Len(s) -> A]
    BY <2>1, LenProperties
  <2> QED
    BY <1>1, <2>2
<1>4. s \in Bijection(1..N, A)
  BY <1>0, <1>1, <1>3 DEF Once, Elements, Bijection, Injection, IsInjective, Surjection
<1> QED
  BY <1>0, <1>1, <1>2, <1>4, FS_Bijection DEF ExistsBijection

\* Picking from a list without repetition at different indexes repeats nothing.
LEMMA PicksOnce ==
    ASSUME NEW t, NEW v, NEW at, NEW S, Picks(t, v, at, S), \A x, y \in S : v[x] = v[y] => x = y
    PROVE  Once(t)
<1> QED
  BY DEF Picks, Once

\* A filter of a list without repetition.
LEMMA OnceFiltered ==
    ASSUME NEW s, Once(s), NEW T \in SUBSET DOMAIN s, NEW t, t = Filtered(s, T)
    PROVE  Once(t) /\ Elements(t) = {s[k] : k \in T}
<1>1. PICK N \in Nat : DOMAIN s = 1..N
  BY DEF Once
<1>2. PICK at : at = Indexes(T)
  OBVIOUS
<1>3. Picks(t, s, at, T)
  BY <1>1, <1>2, FilteredIs
<1>4. \A x, y \in T : s[x] = s[y] => x = y
  BY DEF Once
<1>5. Once(t)
  BY <1>3, <1>4, PicksOnce
<1> QED
  BY <1>3, <1>5 DEF Picks

\* A sorted list without repetition.
LEMMA OnceSorted ==
    ASSUME NEW s, Once(s), NEW N \in Nat, DOMAIN s = 1..N, NEW key \in [1..N -> Int],
           NEW t, t = Arranged(s, ByKey(key))
    PROVE  Once(t) /\ Elements(t) = Elements(s)
<1>1. PICK at : at = From(s, ByKey(key))
  OBVIOUS
<1>2. Picks(t, s, at, 1..N)
  BY <1>1, SortedIs
<1>3. \A x, y \in 1..N : s[x] = s[y] => x = y
  BY DEF Once
<1>4. Elements(t) = {s[k] : k \in 1..N}
  BY <1>2 DEF Picks
<1> QED
  BY <1>2, <1>3, <1>4, PicksOnce DEF Elements

\* Lists without repetition that share nothing, one after another.
LEMMA OnceFlattened ==
    ASSUME NEW ss, NEW D \in Nat, DOMAIN ss = 1..D, \A g \in 1..D : Once(ss[g]),
           \A g, h \in 1..D : \A e \in Elements(ss[g]) : e \in Elements(ss[h]) => g = h,
           NEW t, t = Flattened(ss)
    PROVE  Once(t) /\ \A e : e \in Elements(t) <=> \E g \in 1..D : e \in Elements(ss[g])
<1>1. \A g \in 1..D : ss[g] \in Seq(Elements(ss[g])) /\ Len(ss[g]) \in Nat /\ DOMAIN ss[g] = 1..Len(ss[g])
  BY DEF Once
<1>2. PICK P : P = Cells(ss)
  OBVIOUS
<1>3. PICK at : at = Spots(ss)
  OBVIOUS
<1>4. PICK v : v = There(ss)
  OBVIOUS
<1>5. Picks(t, v, at, P)
  BY <1>1, <1>2, <1>3, <1>4, FlattenedIs
<1>6. /\ P \in SUBSET (Int \X Int)
      /\ \A x \in P : x[1] \in 1..D /\ x[2] \in 1..Len(ss[x[1]]) /\ DOMAIN ss[x[1]] = 1..Len(ss[x[1]])
      /\ \A g \in 1..D : \A k \in 1..Len(ss[g]) : <<g, k>> \in P
  BY <1>1, <1>2, CellsAre
<1>7. \A x \in P : v[x] = ss[x[1]][x[2]] /\ v[x] \in Elements(ss[x[1]])
  BY <1>2, <1>4, <1>6 DEF There, Elements
<1>8. ASSUME NEW x \in P, NEW y \in P, v[x] = v[y] PROVE x = y
  <2>1. x[1] = y[1]
    BY <1>6, <1>7, <1>8
  <2>2. PICK g \in 1..D : g = x[1] /\ g = y[1]
    BY <1>6, <2>1
  <2>3. PICK j \in DOMAIN ss[g], k \in DOMAIN ss[g] : j = x[2] /\ k = y[2]
    BY <1>6, <2>2
  <2>4. ss[g][j] = ss[g][k]
    BY <1>7, <1>8, <2>2, <2>3
  <2>5. j = k
    BY <2>4 DEF Once
  <2>6. x = <<x[1], x[2]>> /\ y = <<y[1], y[2]>>
    BY <1>6
  <2> QED
    BY <2>1, <2>3, <2>5, <2>6
<1>9. Once(t)
  BY <1>5, <1>8, PicksOnce
<1>10. ASSUME NEW e, NEW g \in 1..D, e \in Elements(ss[g]) PROVE e \in Elements(t)
  <2>1. PICK k \in 1..Len(ss[g]) : e = ss[g][k]
    BY <1>1, <1>10 DEF Elements
  <2>2. PICK x \in P : x = <<g, k>>
    BY <1>6, <2>1
  <2>3. x[1] = g /\ x[2] = k
    BY <2>2
  <2>4. v[x] = e
    BY <1>7, <2>1, <2>3
  <2> QED
    BY <1>5, <2>4 DEF Picks
<1>11. ASSUME NEW e \in Elements(t) PROVE \E g \in 1..D : e \in Elements(ss[g])
  <2>1. PICK x \in P : e = v[x]
    BY <1>5 DEF Picks
  <2> QED
    BY <1>6, <1>7, <2>1
<1> QED
  BY <1>9, <1>10, <1>11

\* The lowest number of a set.
LEMMA Lowest == ASSUME NEW T, T \subseteq Nat, T # {} PROVE \E m \in T : \A t \in T : m <= t
<1>1. PICK m \in T : \A t \in T : ~(<<t, m>> \in OpToRel(<, Nat))
  BY NatLessThanWellFounded, WFMin
<1>2. \A t \in T : ~(t < m)
  BY <1>1 DEF OpToRel
<1> QED
  BY <1>2

\* The first place of an element.
LEMMA FirstPlace ==
    ASSUME NEW N \in Nat, NEW s, DOMAIN s = 1..N, NEW x \in Elements(s)
    PROVE  \E k \in 1..N : s[k] = x /\ \A j \in 1..k - 1 : s[j] # x
<1>1. PICK T : T = {k \in 1..N : s[k] = x}
  OBVIOUS
<1>2. T \subseteq Nat /\ T # {}
  BY <1>1 DEF Elements
<1>3. PICK k \in T : \A t \in T : k <= t
  BY <1>2, Lowest
<1>4. ASSUME NEW j \in 1..k - 1 PROVE s[j] # x
  <2>1. j \in 1..N /\ ~(k <= j)
    BY <1>1
  <2> QED
    BY <1>1, <1>3, <2>1
<1> QED
  BY <1>1, <1>4

\* A set of one and its size.
LEMMA OneOnly == ASSUME NEW S, NEW x \in S, \A y \in S : y = x PROVE Cardinality(S) = 1
<1>1. S = {x}
  OBVIOUS
<1> QED
  BY <1>1, FS_Singleton

\* A list of one.
LEMMA OnceOfOne == ASSUME NEW a PROVE Once(<<a>>) /\ Elements(<<a>>) = {a}
<1>1. PICK s : s = <<a>>
  OBVIOUS
<1>2. DOMAIN s = 1..1 /\ Len(s) = 1 /\ s[1] = a
  BY <1>1
<1>3. Elements(s) = {a}
  BY <1>2 DEF Elements
<1>4. s \in Seq(Elements(s))
  BY <1>1, <1>3
<1> QED
  BY <1>1, <1>2, <1>3, <1>4 DEF Once

\* A list of two.
LEMMA OnceOfTwo == ASSUME NEW a, NEW b, a # b PROVE Once(<<a, b>>) /\ Elements(<<a, b>>) = {a, b}
<1>1. PICK s : s = <<a, b>>
  OBVIOUS
<1>2. DOMAIN s = 1..2 /\ Len(s) = 2 /\ s[1] = a /\ s[2] = b
  BY <1>1
<1>3. Elements(s) = {a, b}
  BY <1>2 DEF Elements
<1>4. s \in Seq(Elements(s))
  BY <1>1, <1>3
<1>5. \A m, n \in DOMAIN s : s[m] = s[n] => m = n
  BY <1>2
<1> QED
  BY <1>1, <1>2, <1>3, <1>4, <1>5 DEF Once

\* The empty list.
LEMMA OnceOfNone == Once(<<>>) /\ Elements(<<>>) = {}
<1>1. PICK s : s = <<>>
  OBVIOUS
<1>2. DOMAIN s = {} /\ Len(s) = 0
  BY <1>1
<1>3. DOMAIN s = 1..0
  BY <1>2
<1>4. s \in Seq(Elements(s))
  BY <1>1
<1> QED
  BY <1>1, <1>2, <1>3, <1>4 DEF Once, Elements
=============================================================================
