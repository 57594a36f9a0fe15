-------------------------------- MODULE Sums --------------------------------
(***************************************************************************)
(* Sums of finitely many integers, as SumFunction adds them up, and the    *)
(* least and greatest of finitely many.  Inductions are on the least       *)
(* counterexample, since no prover instantiates an induction theorem.      *)
(***************************************************************************)
EXTENDS Integers, FiniteSets, FiniteSetsExt, Functions, FiniteSetTheorems,
        WellFoundedInduction, TLAPS

-----------------------------------------------------------------------------
(* Least counterexamples.                                                  *)

\* A set of numbers that is not empty has a least one.
LEMMA LeastNumber ==
    ASSUME NEW S, S \subseteq Nat, S # {}
    PROVE  \E x \in S : \A y \in S : x <= y
  <1> DEFINE R == OpToRel(<, Nat)
  <1>1. IsWellFoundedOn(R, Nat)
    BY NatLessThanWellFounded
  <1>2. \A x, y \in Nat : y < x => <<y, x>> \in R
    BY DEF OpToRel
  <1> HIDE DEF R
  <1>3. PICK x \in S : \A y \in S : ~(<<y, x>> \in R)
    BY <1>1, WFMin
  <1>4. ASSUME NEW y \in S PROVE x <= y
    <2>1. x \in Nat /\ y \in Nat /\ <<y, x>> \notin R
      BY <1>3
    <2>2. ~(y < x)
      BY <1>2, <2>1, Zenon
    <2> QED
      BY <2>1, <2>2
  <1> QED
    BY <1>4

\* A family of finite sets that is not empty has a smallest one.
LEMMA SmallestSet ==
    ASSUME NEW F, F # {}, \A T \in F : IsFiniteSet(T)
    PROVE  \E T \in F : \A U \in F : Cardinality(T) <= Cardinality(U)
  <1> DEFINE S == {Cardinality(T) : T \in F}
  <1>1. S \subseteq Nat /\ S # {}
    BY FS_CardinalityType
  <1>2. PICK x \in S : \A y \in S : x <= y
    BY <1>1, LeastNumber
  <1>3. PICK T \in F : x = Cardinality(T)
    BY <1>2
  <1> QED
    BY <1>2, <1>3

\* A set without one of its elements is smaller.
LEMMA SmallerSet ==
    ASSUME NEW T, IsFiniteSet(T), NEW x \in T
    PROVE  /\ IsFiniteSet(T \ {x})
           /\ Cardinality(T \ {x}) = Cardinality(T) - 1
           /\ Cardinality(T) \in Nat \ {0}
  <1>1. Cardinality(T) \in Nat /\ Cardinality(T \ {x}) \in Nat
    BY FS_CardinalityType, FS_RemoveElement
  <1>2. Cardinality(T \ {x}) = Cardinality(T) - 1
    BY FS_RemoveElement
  <1> QED
    BY <1>1, <1>2, FS_RemoveElement

\* A finite set of integers that is not empty has a least and a greatest one.
LEMMA FiniteMin ==
    ASSUME NEW S, IsFiniteSet(S), S \subseteq Int, S # {}
    PROVE  Min(S) \in S /\ \A y \in S : Min(S) <= y
  <1> DEFINE F == {T \in SUBSET S : T # {} /\ ~\E x \in T : \A y \in T : x <= y}
  <1>1. F = {}
    <2> SUFFICES ASSUME F # {} PROVE FALSE
      OBVIOUS
    <2>1. \A T \in F : IsFiniteSet(T)
      BY FS_Subset
    <2>2. PICK T \in F : \A U \in F : Cardinality(T) <= Cardinality(U)
      <3> HIDE DEF F
      <3> QED
        BY <2>1, SmallestSet
    <2>3. PICK x \in T : TRUE
      OBVIOUS
    <2>4. IsFiniteSet(T) /\ x \in Int
      BY <2>1
    <2>5. /\ Cardinality(T \ {x}) = Cardinality(T) - 1
          /\ Cardinality(T) \in Nat \ {0}
      BY <2>4, SmallerSet
    <2>6. T \ {x} \notin F
      <3> HIDE DEF F
      <3> QED
        BY <2>2, <2>5
    <2>7. CASE T \ {x} = {}
      BY <2>4, <2>7
    <2>8. CASE T \ {x} # {}
      <3>1. PICK m \in T \ {x} : \A y \in T \ {x} : m <= y
        BY <2>6, <2>8
      <3>2. m \in Int /\ T \subseteq Int
        OBVIOUS
      <3>3. CASE m <= x
        <4>1. \A y \in T : m <= y
          BY <3>1, <3>3
        <4> QED
          BY <4>1
      <3>4. CASE x <= m
        <4>1. \A y \in T : x <= y
          BY <2>4, <3>1, <3>2, <3>4
        <4> QED
          BY <2>3, <4>1
      <3> QED
        BY <2>4, <3>2, <3>3, <3>4
    <2> QED
      BY <2>7, <2>8
  <1>2. \E x \in S : \A y \in S : x <= y
    BY <1>1
  <1> QED
    BY <1>2 DEF Min

LEMMA BoundedMax ==
    ASSUME NEW S, NEW b \in Nat, S \subseteq 0..b, S # {}
    PROVE  Max(S) \in S /\ \A y \in S : y <= Max(S)
  <1> DEFINE T == {b - x : x \in S}
  <1>1. T \subseteq Nat /\ T # {}
    <2>1. \A x \in S : b - x \in Nat
      OBVIOUS
    <2> QED
      BY <2>1
  <1>2. PICK t \in T : \A y \in T : t <= y
    BY <1>1, LeastNumber
  <1>3. PICK x \in S : t = b - x
    BY <1>2
  <1>4. ASSUME NEW y \in S PROVE y <= x
    <2>1. b - y \in T
      OBVIOUS
    <2> QED
      BY <1>2, <1>3, <2>1
  <1> QED
    BY <1>3, <1>4 DEF Max

\* The greater of two.
LEMMA MaxOfTwo ==
    ASSUME NEW a \in Int, NEW b \in Int
    PROVE  /\ Max({a, b}) \in {a, b} /\ Max({a, b}) >= a /\ Max({a, b}) >= b
  <1>1. \E x \in {a, b} : \A y \in {a, b} : x >= y
    OBVIOUS
  <1> QED
    BY <1>1 DEF Max

-----------------------------------------------------------------------------
(* The fold behind a sum.                                                  *)

\* It adds up v over the subsets of S.
Adds(S, v, iter) ==
    iter = [T \in SUBSET S |->
               IF T = {} THEN 0 ELSE LET x == CHOOSE y \in T : TRUE IN v[x] + iter[T \ {x}]]

\* The same over those with at most n elements.
Small(S, n) == {T \in SUBSET S : Cardinality(T) <= n}
AddsUpTo(S, v, n, iter) ==
    iter = [T \in Small(S, n) |->
               IF T = {} THEN 0 ELSE LET x == CHOOSE y \in T : TRUE IN v[x] + iter[T \ {x}]]

LEMMA FoldStarts ==
    ASSUME NEW S, IsFiniteSet(S), NEW v
    PROVE  \E iter : AddsUpTo(S, v, 0, iter)
  <1> DEFINE f == [T \in Small(S, 0) |-> 0]
  <1>1. \A T \in Small(S, 0) : T = {}
    <2> SUFFICES ASSUME NEW T \in Small(S, 0) PROVE T = {}
      OBVIOUS
    <2>1. IsFiniteSet(T) /\ Cardinality(T) <= 0
      BY FS_Subset DEF Small
    <2>2. Cardinality(T) = 0
      BY <2>1, FS_CardinalityType
    <2> QED
      BY <2>1, <2>2, FS_EmptySet
  <1>2. AddsUpTo(S, v, 0, f)
    BY <1>1 DEF AddsUpTo
  <1> QED
    BY <1>2

LEMMA FoldGoesOn ==
    ASSUME NEW S, IsFiniteSet(S), NEW v, NEW n \in Nat, NEW f, AddsUpTo(S, v, n, f)
    PROVE  \E iter : AddsUpTo(S, v, n + 1, iter)
  <1> DEFINE g == [T \in Small(S, n + 1) |->
                     IF T = {} THEN 0 ELSE LET x == CHOOSE y \in T : TRUE IN v[x] + f[T \ {x}]]
  <1>1. ASSUME NEW T \in Small(S, n + 1), T # {}
        PROVE  LET x == CHOOSE y \in T : TRUE IN T \ {x} \in Small(S, n)
    <2> DEFINE x == CHOOSE y \in T : TRUE
    <2>1. x \in T
      BY <1>1
    <2> HIDE DEF x
    <2>2. IsFiniteSet(T) /\ Cardinality(T) <= n + 1
      BY FS_Subset DEF Small
    <2>3. Cardinality(T \ {x}) = Cardinality(T) - 1 /\ Cardinality(T) \in Nat
      BY <2>1, <2>2, SmallerSet
    <2>4. T \ {x} \in Small(S, n)
      BY <2>2, <2>3 DEF Small
    <2> QED
      BY <2>4 DEF x
  <1>2. ASSUME NEW T \in Small(S, n) PROVE f[T] = g[T]
    <2>1. T \in Small(S, n + 1)
      <3>1. IsFiniteSet(T) /\ Cardinality(T) <= n
        BY FS_Subset DEF Small
      <3>2. Cardinality(T) \in Nat
        BY <3>1, FS_CardinalityType
      <3>3. Cardinality(T) <= n + 1
        BY <3>1, <3>2
      <3> QED
        BY <3>3 DEF Small
    <2> DEFINE x == CHOOSE y \in T : TRUE
    <2>2. f[T] = IF T = {} THEN 0 ELSE v[x] + f[T \ {x}]
      <3> DEFINE G(U) == IF U = {} THEN 0
                         ELSE LET z == CHOOSE y \in U : TRUE IN v[z] + f[U \ {z}]
      <3>1. f = [U \in Small(S, n) |-> G(U)]
        BY DEF AddsUpTo
      <3> HIDE DEF G
      <3>2. f[T] = G(T)
        BY <3>1
      <3> QED
        BY <3>2 DEF G
    <2>3. g[T] = IF T = {} THEN 0 ELSE v[x] + f[T \ {x}]
      BY <2>1
    <2> QED
      BY <2>2, <2>3
  <1>3. g = [T \in Small(S, n + 1) |->
                IF T = {} THEN 0 ELSE LET x == CHOOSE y \in T : TRUE IN v[x] + g[T \ {x}]]
    <2>1. ASSUME NEW T \in Small(S, n + 1), T # {}
          PROVE  LET x == CHOOSE y \in T : TRUE IN f[T \ {x}] = g[T \ {x}]
      <3> HIDE DEF g
      <3> QED
        BY <1>1, <1>2, <2>1
    <2> DEFINE A(T) == IF T = {} THEN 0 ELSE LET x == CHOOSE y \in T : TRUE IN v[x] + f[T \ {x}]
               B(T) == IF T = {} THEN 0 ELSE LET x == CHOOSE y \in T : TRUE IN v[x] + g[T \ {x}]
    <2>2. g = [T \in Small(S, n + 1) |-> A(T)]
      OBVIOUS
    <2> HIDE DEF g
    <2>3. \A T \in Small(S, n + 1) : A(T) = B(T)
      BY <2>1
    <2>4. g = [T \in Small(S, n + 1) |-> B(T)]
      <3> HIDE DEF A, B
      <3> QED
        BY <2>2, <2>3
    <2> QED
      BY <2>4
  <1> HIDE DEF g
  <1>4. AddsUpTo(S, v, n + 1, g)
    BY <1>3 DEF AddsUpTo
  <1> QED
    BY <1>4

LEMMA FoldExists ==
    ASSUME NEW S, IsFiniteSet(S), NEW v
    PROVE  \E iter : Adds(S, v, iter)
  <1> DEFINE Bad == {n \in Nat : ~\E iter : AddsUpTo(S, v, n, iter)}
  <1>1. Bad = {}
    <2> SUFFICES ASSUME Bad # {} PROVE FALSE
      OBVIOUS
    <2>1. Bad \subseteq Nat
      OBVIOUS
    <2>2. PICK n \in Bad : \A k \in Bad : n <= k
      <3> HIDE DEF Bad
      <3> QED
        BY <2>1, LeastNumber
    <2>3. n \in Nat /\ n # 0
      BY FoldStarts
    <2>4. n - 1 \in Nat /\ n - 1 \notin Bad
      <3>1. n - 1 \in Nat /\ ~(n <= n - 1)
        BY <2>3
      <3> HIDE DEF Bad
      <3> QED
        BY <2>2, <3>1
    <2>5. PICK f : AddsUpTo(S, v, n - 1, f)
      BY <2>4
    <2>6. \E iter : AddsUpTo(S, v, (n - 1) + 1, iter)
      BY <2>4, <2>5, FoldGoesOn
    <2>7. (n - 1) + 1 = n
      BY <2>3
    <2> QED
      BY <2>6, <2>7
  <1>2. Cardinality(S) \in Nat
    BY FS_CardinalityType
  <1>3. PICK f : AddsUpTo(S, v, Cardinality(S), f)
    BY <1>1, <1>2
  <1>4. Small(S, Cardinality(S)) = SUBSET S
    BY FS_Subset DEF Small
  <1>5. Adds(S, v, f)
    BY <1>3, <1>4 DEF Adds, AddsUpTo
  <1> QED
    BY <1>5

\* A sum of integers is an integer.
LEMMA FoldIsInt ==
    ASSUME NEW S, IsFiniteSet(S), NEW v, \A s \in S : v[s] \in Int, NEW f, Adds(S, v, f)
    PROVE  f[S] \in Int
  <1> DEFINE F == {T \in SUBSET S : f[T] \notin Int}
  <1>1. F = {}
    <2> SUFFICES ASSUME F # {} PROVE FALSE
      OBVIOUS
    <2>1. \A T \in F : IsFiniteSet(T)
      BY FS_Subset
    <2>2. PICK T \in F : \A U \in F : Cardinality(T) <= Cardinality(U)
      <3> HIDE DEF F
      <3> QED
        BY <2>1, SmallestSet
    <2>3. T \in SUBSET S /\ f[T] \notin Int
      OBVIOUS
    <2>4. T # {}
      BY <2>3 DEF Adds
    <2> DEFINE x == CHOOSE y \in T : TRUE
    <2>5. x \in T /\ f[T] = v[x] + f[T \ {x}]
      BY <2>3, <2>4 DEF Adds
    <2> HIDE DEF x
    <2>6. /\ Cardinality(T \ {x}) = Cardinality(T) - 1
          /\ Cardinality(T) \in Nat \ {0}
      BY <2>1, <2>5, SmallerSet
    <2>7. T \ {x} \notin F
      <3> HIDE DEF F
      <3> QED
        BY <2>2, <2>6
    <2>8. f[T \ {x}] \in Int /\ v[x] \in Int
      BY <2>3, <2>5, <2>7
    <2> QED
      BY <2>3, <2>5, <2>8
  <1> QED
    BY <1>1

\* Two folds agree where what they add up does.
LEMMA FoldsAgree ==
    ASSUME NEW S, NEW R, NEW v, NEW w, NEW f, NEW g, Adds(S, v, f), Adds(R, w, g),
           NEW D, IsFiniteSet(D), D \subseteq S, D \subseteq R, \A x \in D : v[x] = w[x]
    PROVE  f[D] = g[D]
  <1> DEFINE F == {T \in SUBSET D : f[T] # g[T]}
  <1>1. F = {}
    <2> SUFFICES ASSUME F # {} PROVE FALSE
      OBVIOUS
    <2>1. \A T \in F : IsFiniteSet(T)
      BY FS_Subset
    <2>2. PICK T \in F : \A U \in F : Cardinality(T) <= Cardinality(U)
      <3> HIDE DEF F
      <3> QED
        BY <2>1, SmallestSet
    <2>3. T \in SUBSET D /\ f[T] # g[T] /\ T \in SUBSET S /\ T \in SUBSET R
      OBVIOUS
    <2>4. T # {}
      BY <2>3 DEF Adds
    <2> DEFINE x == CHOOSE y \in T : TRUE
    <2>5. x \in T /\ f[T] = v[x] + f[T \ {x}] /\ g[T] = w[x] + g[T \ {x}]
      <3>1. f[T] = v[x] + f[T \ {x}]
        BY <2>3, <2>4 DEF Adds
      <3>2. g[T] = w[x] + g[T \ {x}]
        BY <2>3, <2>4 DEF Adds
      <3> QED
        BY <2>4, <3>1, <3>2
    <2> HIDE DEF x
    <2>6. /\ Cardinality(T \ {x}) = Cardinality(T) - 1
          /\ Cardinality(T) \in Nat \ {0}
      BY <2>1, <2>5, SmallerSet
    <2>7. T \ {x} \notin F
      <3> HIDE DEF F
      <3> QED
        BY <2>2, <2>6
    <2>8. f[T \ {x}] = g[T \ {x}] /\ v[x] = w[x]
      BY <2>3, <2>5, <2>7
    <2> QED
      BY <2>3, <2>5, <2>8
  <1> QED
    BY <1>1

\* The sums a fold takes on its way are integers.
LEMMA PartsAreInt ==
    ASSUME NEW S, IsFiniteSet(S), NEW v, \A s \in S : v[s] \in Int, NEW f, Adds(S, v, f),
           NEW D \in SUBSET S
    PROVE  f[D] \in Int
  <1>1. IsFiniteSet(D)
    BY FS_Subset
  <1>2. PICK g : Adds(D, v, g)
    BY <1>1, FoldExists
  <1>3. g[D] \in Int
    BY <1>1, <1>2, FoldIsInt
  <1>4. f[D] = g[D]
    BY <1>1, <1>2, FoldsAgree
  <1> QED
    BY <1>3, <1>4

\* Any element may be added last.
LEMMA AddedLast ==
    ASSUME NEW S, IsFiniteSet(S), NEW v, \A s \in S : v[s] \in Int, NEW f, Adds(S, v, f)
    PROVE  \A z \in S : f[S] = v[z] + f[S \ {z}]
  <1> DEFINE F == {T \in SUBSET S : \E z \in T : f[T] # v[z] + f[T \ {z}]}
  <1>1. F = {}
    <2> SUFFICES ASSUME F # {} PROVE FALSE
      OBVIOUS
    <2>1. \A T \in F : IsFiniteSet(T)
      BY FS_Subset
    <2>2. PICK T \in F : \A U \in F : Cardinality(T) <= Cardinality(U)
      <3> HIDE DEF F
      <3> QED
        BY <2>1, SmallestSet
    <2>3. T \in SUBSET S
      OBVIOUS
    <2>4. PICK z \in T : f[T] # v[z] + f[T \ {z}]
      OBVIOUS
    <2> DEFINE x == CHOOSE y \in T : TRUE
    <2>5. x \in T /\ f[T] = v[x] + f[T \ {x}]
      <3>1. T # {}
        BY <2>4
      <3> QED
        BY <2>3, <3>1 DEF Adds
    <2> HIDE DEF x
    <2>6. x # z
      BY <2>4, <2>5
    <2>7. ASSUME NEW u \in T PROVE T \ {u} \in SUBSET S /\ T \ {u} \notin F
      <3>1. /\ Cardinality(T \ {u}) = Cardinality(T) - 1
            /\ Cardinality(T) \in Nat \ {0}
        BY <2>1, SmallerSet
      <3>2. T \ {u} \in SUBSET S
        BY <2>3
      <3> HIDE DEF F
      <3> QED
        BY <2>2, <3>1, <3>2
    <2> DEFINE X == T \ {x}
               Z == T \ {z}
               Y == T \ {x, z}
    <2>8. X \in SUBSET S /\ X \notin F /\ z \in X /\ X \ {z} = Y
      BY <2>4, <2>5, <2>6, <2>7
    <2>9. Z \in SUBSET S /\ Z \notin F /\ x \in Z /\ Z \ {x} = Y
      BY <2>4, <2>5, <2>6, <2>7
    <2>10. f[Y] \in Int /\ v[x] \in Int /\ v[z] \in Int
      <3>1. Y \in SUBSET S
        BY <2>3
      <3>2. f[Y] \in Int
        <4> HIDE DEF Y
        <4> QED
          BY <3>1, PartsAreInt
      <3> QED
        BY <2>3, <2>4, <2>5, <3>2
    <2> HIDE DEF X, Y, Z
    <2>11. f[X] = v[z] + f[Y] /\ f[Z] = v[x] + f[Y]
      BY <2>8, <2>9
    <2>12. f[T] = v[x] + f[X] /\ f[T] # v[z] + f[Z]
      BY <2>4, <2>5 DEF X, Z
    <2> QED
      BY <2>10, <2>11, <2>12
  <1> QED
    BY <1>1

-----------------------------------------------------------------------------
(* Sums.                                                                   *)

LEMMA SumIsFold ==
    ASSUME NEW S, IsFiniteSet(S), NEW v, DOMAIN v = S
    PROVE  \E f : Adds(S, v, f) /\ SumFunction(v) = f[S]
  <1> DEFINE f == CHOOSE iter : Adds(S, v, iter)
  <1>1. Adds(S, v, f)
    BY FoldExists
  <1>2. SumFunction(v) = f[S]
    BY DEF SumFunction, SumFunctionOnSet, FoldFunctionOnSet, MapThenFoldSet, Adds
  <1> HIDE DEF f
  <1> QED
    BY <1>1, <1>2

\* A sum of integers is an integer.
LEMMA SumIsInt ==
    ASSUME NEW S, IsFiniteSet(S), NEW v, DOMAIN v = S, \A s \in S : v[s] \in Int
    PROVE  SumFunction(v) \in Int
  BY SumIsFold, FoldIsInt

\* There is nothing in the sum of nothing.
LEMMA SumOfNothing ==
    ASSUME NEW v, DOMAIN v = {}
    PROVE  SumFunction(v) = 0
  <1>1. IsFiniteSet({})
    BY FS_EmptySet
  <1>2. PICK f : Adds({}, v, f) /\ SumFunction(v) = f[{}]
    BY <1>1, SumIsFold
  <1> QED
    BY <1>2 DEF Adds

\* One more makes the sum that much greater.
LEMMA SumGrows ==
    ASSUME NEW v, NEW w, NEW z, IsFiniteSet(DOMAIN v), z \notin DOMAIN v,
           DOMAIN w = DOMAIN v \cup {z}, w[z] \in Int,
           \A s \in DOMAIN v : v[s] \in Int /\ w[s] = v[s]
    PROVE  SumFunction(w) = SumFunction(v) + w[z]
  <1> DEFINE S == DOMAIN v
             R == S \cup {z}
  <1>1. IsFiniteSet(R)
    BY FS_AddElement
  <1>2. \A s \in R : w[s] \in Int
    OBVIOUS
  <1>3. R \ {z} = S /\ z \in R /\ S \subseteq R
    OBVIOUS
  <1>4. DOMAIN w = R
    OBVIOUS
  <1>. /\ IsFiniteSet(S) /\ DOMAIN v = S
       /\ (\A s \in S : v[s] \in Int) /\ (\A s \in S : v[s] = w[s])
    OBVIOUS
  <1> HIDE DEF R, S
  <1>5. PICK f : Adds(S, v, f) /\ SumFunction(v) = f[S]
    BY SumIsFold
  <1>6. PICK g : Adds(R, w, g) /\ SumFunction(w) = g[R]
    BY <1>1, <1>4, SumIsFold
  <1>7. g[R] = w[z] + g[S]
    BY <1>1, <1>2, <1>3, <1>6, AddedLast
  <1>8. S \subseteq S /\ \A x \in S : v[x] = w[x]
    OBVIOUS
  <1>9. f[S] = g[S]
    BY <1>3, <1>5, <1>6, <1>8, FoldsAgree
  <1>10. SumFunction(v) \in Int
    BY SumIsInt
  <1> QED
    BY <1>5, <1>6, <1>7, <1>9, <1>10

\* The sum of a sequence that is one longer.
LEMMA SumOfLonger ==
    ASSUME NEW n \in Nat, NEW v, DOMAIN v = 1..n, \A i \in 1..n : v[i] \in Int,
           NEW w, DOMAIN w = 1..(n + 1), w[n + 1] \in Int, \A i \in 1..n : w[i] = v[i]
    PROVE  SumFunction(v) \in Int /\ SumFunction(w) = SumFunction(v) + w[n + 1]
  <1> DEFINE z == n + 1
  <1>1. IsFiniteSet(1..n)
    BY FS_Interval
  <1>2. 1..(n + 1) = (1..n) \cup {z} /\ z \notin 1..n
    OBVIOUS
  <1>3. SumFunction(v) \in Int
    BY <1>1, SumIsInt
  <1> HIDE DEF z
  <1>4. z \notin DOMAIN v /\ DOMAIN w = DOMAIN v \cup {z} /\ IsFiniteSet(DOMAIN v)
    BY <1>1, <1>2
  <1>5. \A s \in DOMAIN v : v[s] \in Int /\ w[s] = v[s]
    OBVIOUS
  <1>6. w[z] \in Int
    BY DEF z
  <1>7. SumFunction(w) = SumFunction(v) + w[z]
    BY <1>4, <1>5, <1>6, SumGrows
  <1> QED
    BY <1>3, <1>7 DEF z

=============================================================================
