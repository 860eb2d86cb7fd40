---------------------------- MODULE AlgorithmProofs ----------------------------
(***************************************************************************)
(* The pure functions for every input: which row of the photo a line of a  *)
(* sheet is shown at, what transposing does to a note and to a text, what  *)
(* the server advises of it, when two arms of a comparison differ, which   *)
(* bands a page is cut into, what is taken from a reply, when a page comes *)
(* back whole, which ink counts and which tilt is found, to which classes  *)
(* a correction is charged and what the reports count; and the notation,   *)
(* the pages, the ink, the corrections and the reports as invariants of    *)
(* Algorithms.                                                             *)
(***************************************************************************)
EXTENDS Algorithms, FiniteSetTheorems, SequenceTheorems, WellFoundedInduction, TLAPS

(* Numbers and finite sets. *)

LEMMA LeastOfTwo ==
  ASSUME NEW a \in Int, NEW b \in Int
  PROVE  Min({a, b}) = IF a <= b THEN a ELSE b
BY DEF Min

LEMMA GreatestOfTwo ==
  ASSUME NEW a \in Int, NEW b \in Int
  PROVE  Max({a, b}) = IF a >= b THEN a ELSE b
BY DEF Max

LEMMA QuotientType ==
  ASSUME NEW a \in Int, NEW m \in Int, m > 0
  PROVE  /\ a \div m \in Int /\ a % m \in 0 .. m - 1
         /\ a = m * (a \div m) + (a % m)
OBVIOUS

LEMMA ProductGrows ==
  ASSUME NEW m \in Nat, NEW x \in Int, NEW y \in Int, x <= y
  PROVE  m * x <= m * y
OBVIOUS

LEMMA QuotientGrows ==
  ASSUME NEW a \in Int, NEW b \in Int, NEW m \in Int, m > 0, a <= b
  PROVE  a \div m <= b \div m
<1> DEFINE p == a \div m
           q == b \div m
<1>1. p \in Int /\ q \in Int /\ a >= m * p /\ b < m * q + m
  BY QuotientType
<1> HIDE DEF p, q
<1>2. SUFFICES ASSUME p >= q + 1 PROVE FALSE
  BY <1>1 DEF p, q
<1>3. m * (q + 1) <= m * p
  BY <1>1, <1>2, ProductGrows
<1>4. m * (q + 1) = m * q + m
  BY <1>1
<1> QED
  BY <1>1, <1>3, <1>4

\* Math.round of a ratio between 0 and n is between 0 and n, and grows with it.
LEMMA RoundUpBounded ==
  ASSUME NEW a \in Nat, NEW b \in Nat \ {0}, NEW n \in Nat, a <= n * b
  PROVE  RoundUp(a, b) \in 0 .. n
<1>1. 2 * a + b \in Int /\ 2 * b \in Int /\ 2 * b > 0
  OBVIOUS
<1>2. RoundUp(a, b) \in Int
  BY <1>1, QuotientType DEF RoundUp
<1>3. 0 \div (2 * b) = 0
  BY <1>1
<1>4. RoundUp(a, b) >= 0
  BY <1>1, <1>3, QuotientGrows DEF RoundUp
<1>5. RoundUp(a, b) <= n
  <2> DEFINE q == RoundUp(a, b)
  <2>1. (2 * b) * q <= 2 * a + b
    BY <1>1, QuotientType DEF RoundUp
  <2>2. 2 * a + b <= 2 * (n * b) + b
    OBVIOUS
  <2> HIDE DEF q
  <2>3. SUFFICES ASSUME q >= n + 1 PROVE FALSE
    BY <1>2 DEF q
  <2>4. (2 * b) * (n + 1) <= (2 * b) * q
    BY <1>2, <2>3, ProductGrows DEF q
  <2>5. (2 * b) * (n + 1) = 2 * (n * b) + 2 * b
    OBVIOUS
  <2> QED
    BY <1>2, <2>1, <2>2, <2>4, <2>5 DEF q
<1> QED
  BY <1>2, <1>4, <1>5

LEMMA RoundUpGrows ==
  ASSUME NEW a \in Int, NEW c \in Int, NEW b \in Nat \ {0}, a <= c
  PROVE  RoundUp(a, b) <= RoundUp(c, b)
BY QuotientGrows DEF RoundUp

\* What is not empty has a least natural number.
LEMMA LeastNatural ==
  ASSUME NEW T, T \subseteq Nat, T # {}
  PROVE  \E x \in T : \A y \in T : x <= y
<1> DEFINE R == {ss \in Nat \X Nat : ss[1] < ss[2]}
<1>1. IsWellFoundedOn(R, Nat)
  BY NatLessThanWellFounded DEF OpToRel
<1> HIDE DEF R
<1>2. PICK x \in T : \A y \in T : ~ (<<y, x>> \in R)
  BY <1>1, WFMin, Zenon
<1>3. ASSUME NEW y \in T PROVE x <= y
  <2>1. x \in Nat /\ y \in Nat /\ ~ (y < x)
    BY <1>2 DEF R
  <2> QED
    BY <2>1
<1> QED
  BY <1>3

\* A finite set of integers has a largest member: a smallest counterexample
\* would still be one without one of its members.
LEMMA MaxIs ==
  ASSUME NEW S \in SUBSET Int, S # {}, IsFiniteSet(S)
  PROVE  Max(S) \in S /\ \A y \in S : Max(S) >= y
<1> DEFINE Bad(U) == U # {} /\ IsFiniteSet(U) /\ \A x \in U : \E y \in U : ~ (x >= y)
           sizes == {n \in Nat : \E U \in SUBSET Int : Bad(U) /\ Cardinality(U) = n}
<1>1. ASSUME sizes # {} PROVE FALSE
  <2>1. PICK n \in sizes : \A m \in sizes : n <= m
    BY <1>1, LeastNatural
  <2>2. PICK U \in SUBSET Int : Bad(U) /\ Cardinality(U) = n
    OBVIOUS
  <2>3. PICK e \in U : TRUE
    BY <2>2
  <2> DEFINE V == U \ {e}
  <2>4. IsFiniteSet(V) /\ Cardinality(V) = n - 1 /\ V \in SUBSET Int
    BY <2>2, <2>3, FS_RemoveElement
  <2>5. V # {}
    BY <2>2, <2>3
  <2>6. n - 1 \in Nat /\ ~ (n <= n - 1)
    BY <2>4, FS_CardinalityType
  <2>7. PICK m \in V : \A y \in V : m >= y
    BY <2>1, <2>4, <2>5, <2>6
  <2>8. \E x \in {m, e} : \A y \in U : x >= y
    BY <2>7, <2>2, <2>3, <2>4
  <2> QED
    BY <2>2, <2>3, <2>7, <2>8
<1>2. ~Bad(S)
  BY <1>1, FS_CardinalityType
<1> HIDE DEF sizes
<1>3. \E x \in S : \A y \in S : x >= y
  BY <1>2
<1> QED
  BY <1>3 DEF Max

\* And a smallest one.
LEMMA MinIs ==
  ASSUME NEW S \in SUBSET Int, S # {}, IsFiniteSet(S)
  PROVE  Min(S) \in S /\ \A y \in S : Min(S) <= y
<1> DEFINE T == {-x : x \in S}
           f == [x \in S |-> -x]
<1>1. T \in SUBSET Int /\ T # {}
  <2>1. \A x \in S : -x \in Int
    OBVIOUS
  <2> QED
    BY <2>1
<1>2. IsFiniteSet(T)
  <2>1. f \in Surjection(S, T)
    BY DEF Surjection
  <2> QED
    BY <2>1, FS_Surjection
<1>3. Max(T) \in T /\ \A y \in T : Max(T) >= y
  BY <1>1, <1>2, MaxIs
<1>4. PICK x \in S : Max(T) = -x
  BY <1>3
<1>5. ASSUME NEW y \in S PROVE x <= y
  <2>1. -y \in T
    OBVIOUS
  <2>2. -x >= -y
    BY <1>3, <1>4, <2>1
  <2>3. x \in Int /\ y \in Int
    OBVIOUS
  <2> QED
    BY <2>2, <2>3
<1> QED
  BY <1>5 DEF Min

--------------------------------------------------------------------------------
(* Sums over finite sets. *)

\* The member that a sum takes next, and the recursion that adds them up.
Picked(s) == CHOOSE x \in s : TRUE
Adds(f, S, g) ==
  g = [s \in SUBSET S |-> IF s = {} THEN 0 ELSE f[Picked(s)] + g[s \ {Picked(s)}]]
Sums(f, S) == CHOOSE g : Adds(f, S, g)

LEMMA SumIsRecursive ==
  ASSUME NEW f, NEW S
  PROVE  SumFunctionOnSet(f, S) = Sums(f, S)[S]
BY Zenon DEF SumFunctionOnSet, FoldFunctionOnSet, MapThenFoldSet, Sums, Adds, Picked

LEMMA PickedIn == ASSUME NEW S, S # {} PROVE Picked(S) \in S
BY DEF Picked

\* One step of a recursion.
LEMMA AddsOne ==
  ASSUME NEW f, NEW S, NEW g, Adds(f, S, g), NEW s \in SUBSET S
  PROVE  g[s] = IF s = {} THEN 0 ELSE f[Picked(s)] + g[s \ {Picked(s)}]
<1> DEFINE h == [r \in SUBSET S |-> IF r = {} THEN 0 ELSE f[Picked(r)] + g[r \ {Picked(r)}]]
<1>1. g = h
  BY DEF Adds
<1>2. h[s] = IF s = {} THEN 0 ELSE f[Picked(s)] + g[s \ {Picked(s)}]
  OBVIOUS
<1> QED
  BY <1>1, <1>2, Zenon

\* Two such recursions agree where both are defined.
LEMMA AddsAgree ==
  ASSUME NEW f, NEW S, NEW T, NEW g, NEW h, IsFiniteSet(S),
         Adds(f, S, g), Adds(f, T, h),
         NEW u \in SUBSET S, u \in SUBSET T
  PROVE  g[u] = h[u]
<1> DEFINE bad == {s \in (SUBSET S) \cap (SUBSET T) : g[s] # h[s]}
           sizes == {n \in Nat : \E s \in bad : Cardinality(s) = n}
<1>1. \A s \in SUBSET S : IsFiniteSet(s) /\ Cardinality(s) \in Nat
  BY FS_Subset, FS_CardinalityType
<1>2. ASSUME sizes # {} PROVE FALSE
  <2>1. PICK n \in sizes : \A m \in sizes : n <= m
    <3>1. sizes \subseteq Nat
      OBVIOUS
    <3> HIDE DEF sizes
    <3> QED
      BY <1>2, <3>1, LeastNatural
  <2>2. PICK s \in bad : Cardinality(s) = n
    OBVIOUS
  <2>3. CASE s = {}
    <3>1. g[s] = 0 /\ h[s] = 0
      BY <2>3, AddsOne
    <3> QED
      BY <2>2, <3>1
  <2>4. CASE s # {}
    <3> DEFINE x == Picked(s)
    <3>1. x \in s
      BY <2>4, PickedIn
    <3>2. g[s] = f[x] + g[s \ {x}] /\ h[s] = f[x] + h[s \ {x}]
      <4>1. s \in SUBSET S /\ s \in SUBSET T
        BY <2>2
      <4>2. g[s] = IF s = {} THEN 0 ELSE f[Picked(s)] + g[s \ {Picked(s)}]
        BY <4>1, AddsOne
      <4>3. h[s] = IF s = {} THEN 0 ELSE f[Picked(s)] + h[s \ {Picked(s)}]
        BY <4>1, AddsOne
      <4> QED
        BY <2>4, <4>2, <4>3, Zenon
    <3>3. Cardinality(s \ {x}) = n - 1
      BY <1>1, <2>2, <3>1, FS_RemoveElement
    <3>4. s \ {x} \in (SUBSET S) \cap (SUBSET T)
      BY <2>2
    <3>5. n - 1 \in Nat
      BY <1>1, <3>3, <3>4
    <3> HIDE DEF x
    <3>6. s \ {x} \in bad
      BY <2>2, <3>2, <3>4
    <3>7. n - 1 \in sizes
      BY <3>3, <3>5, <3>6
    <3> QED
      BY <2>1, <3>5, <3>7
  <2> QED
    BY <2>3, <2>4
<1>3. u \notin bad
  BY <1>1, <1>2
<1> QED
  BY <1>3

\* And there is one for every finite set.
LEMMA AddsExist ==
  ASSUME NEW f, NEW S, IsFiniteSet(S)
  PROVE  Adds(f, S, Sums(f, S))
<1> DEFINE Bad(U) == IsFiniteSet(U) /\ ~Adds(f, U, Sums(f, U))
           sizes == {n \in Nat : \E U \in SUBSET S : Bad(U) /\ Cardinality(U) = n}
<1>1. ASSUME sizes # {} PROVE FALSE
  <2>1. PICK n \in sizes : \A m \in sizes : n <= m
    <3>1. sizes \subseteq Nat
      OBVIOUS
    <3> HIDE DEF sizes
    <3> QED
      BY <1>1, <3>1, LeastNatural
  <2>2. PICK U \in SUBSET S : Bad(U) /\ Cardinality(U) = n
    OBVIOUS
  <2>3. ASSUME NEW T \in SUBSET U, T # U PROVE Adds(f, T, Sums(f, T))
    <3>1. IsFiniteSet(T) /\ Cardinality(T) < n /\ Cardinality(T) \in Nat
      BY <2>2, <2>3, FS_Subset, FS_CardinalityType
    <3>2. T \in SUBSET S
      BY <2>2
    <3> QED
      BY <2>1, <3>1, <3>2
  <2> DEFINE rest(s) == s \ {Picked(s)}
             g == [s \in SUBSET U |->
                     IF s = {} THEN 0 ELSE f[Picked(s)] + Sums(f, rest(s))[rest(s)]]
  <2>4. ASSUME NEW s \in SUBSET U, s # {} PROVE g[rest(s)] = Sums(f, rest(s))[rest(s)]
    <3> DEFINE T == rest(s)
    <3>1. T \in SUBSET U /\ T # U
      BY <2>4, PickedIn
    <3>2. Adds(f, T, Sums(f, T))
      BY <2>3, <3>1
    <3>3. IsFiniteSet(T)
      BY <2>2, <3>1, FS_Subset
    <3>4. g[T] = IF T = {} THEN 0 ELSE f[Picked(T)] + Sums(f, rest(T))[rest(T)]
      BY <3>1
    <3>5. T # {} => Sums(f, T)[rest(T)] = Sums(f, rest(T))[rest(T)]
      <4>1. ASSUME T # {} PROVE Sums(f, T)[rest(T)] = Sums(f, rest(T))[rest(T)]
        <5>1. rest(T) \in SUBSET U /\ rest(T) # U /\ rest(T) \in SUBSET T
          BY <3>1, <4>1, PickedIn
        <5>2. Adds(f, rest(T), Sums(f, rest(T)))
          BY <2>3, <5>1
        <5> HIDE DEF T, rest
        <5> QED
          BY <3>2, <3>3, <5>1, <5>2, AddsAgree
      <4> QED
        BY <4>1
    <3>6. Sums(f, T)[T] = IF T = {} THEN 0 ELSE f[Picked(T)] + Sums(f, T)[rest(T)]
      <4>1. T \in SUBSET T
        OBVIOUS
      <4> HIDE DEF T
      <4> QED
        BY <3>2, <4>1, AddsOne DEF rest
    <3> HIDE DEF g, T
    <3> QED
      BY <3>4, <3>5, <3>6 DEF T
  <2>5. Adds(f, U, g)
    <3> DEFINE h == [s \in SUBSET U |-> IF s = {} THEN 0 ELSE f[Picked(s)] + g[rest(s)]]
    <3>1. \A s \in SUBSET U :
            (IF s = {} THEN 0 ELSE f[Picked(s)] + Sums(f, rest(s))[rest(s)])
              = (IF s = {} THEN 0 ELSE f[Picked(s)] + g[rest(s)])
      <4> HIDE DEF g, rest
      <4> QED
        BY <2>4
    <3>2. g = h
      BY <3>1, Zenon
    <3> HIDE DEF g
    <3> QED
      BY <3>2, Zenon DEF Adds
  <2>6. Adds(f, U, Sums(f, U))
    <3> HIDE DEF g
    <3> QED
      BY <2>5, Zenon DEF Sums
  <2> QED
    BY <2>2, <2>6
<1>2. ~Bad(S)
  BY <1>1, FS_CardinalityType
<1> QED
  BY <1>2

\* A sum is empty, or one member and the sum of the others.
LEMMA SumNext ==
  ASSUME NEW f, NEW S, IsFiniteSet(S)
  PROVE  SumFunctionOnSet(f, S) =
           IF S = {} THEN 0 ELSE f[Picked(S)] + SumFunctionOnSet(f, S \ {Picked(S)})
<1> DEFINE T == S \ {Picked(S)}
<1>1. Adds(f, S, Sums(f, S)) /\ Adds(f, T, Sums(f, T))
  BY AddsExist, FS_Subset
<1>2. Sums(f, S)[S] = IF S = {} THEN 0 ELSE f[Picked(S)] + Sums(f, S)[T]
  BY <1>1, AddsOne
<1>3. Sums(f, S)[T] = Sums(f, T)[T]
  BY <1>1, AddsAgree
<1> HIDE DEF T
<1> QED
  BY <1>2, <1>3, SumIsRecursive DEF T

LEMMA SumType ==
  ASSUME NEW f, NEW S, IsFiniteSet(S), \A x \in S : f[x] \in Int
  PROVE  SumFunctionOnSet(f, S) \in Int
<1> DEFINE Bad(U) == IsFiniteSet(U) /\ SumFunctionOnSet(f, U) \notin Int
           sizes == {n \in Nat : \E U \in SUBSET S : Bad(U) /\ Cardinality(U) = n}
<1>1. ASSUME sizes # {} PROVE FALSE
  <2>1. PICK n \in sizes : \A m \in sizes : n <= m
    <3>1. sizes \subseteq Nat
      OBVIOUS
    <3> HIDE DEF sizes
    <3> QED
      BY <1>1, <3>1, LeastNatural
  <2>2. PICK U \in SUBSET S : Bad(U) /\ Cardinality(U) = n
    OBVIOUS
  <2>3. U # {}
    <3>1. ASSUME U = {} PROVE FALSE
      <4>1. SumFunctionOnSet(f, U) = 0
        BY <2>2, <3>1, SumNext
      <4> QED
        BY <2>2, <4>1
    <3> QED
      BY <3>1
  <2> DEFINE x == Picked(U)
             V == U \ {x}
  <2>4. x \in U
    BY <2>3, PickedIn
  <2>5. IsFiniteSet(V) /\ Cardinality(V) = n - 1 /\ V \in SUBSET S
    BY <2>2, <2>4, FS_RemoveElement
  <2>6. n - 1 \in Nat /\ ~ (n <= n - 1)
    BY <2>5, FS_CardinalityType
  <2>7. SumFunctionOnSet(f, V) \in Int
    BY <2>1, <2>5, <2>6
  <2>8. SumFunctionOnSet(f, U) = f[x] + SumFunctionOnSet(f, V)
    BY <2>2, <2>3, SumNext
  <2> HIDE DEF x
  <2>9. f[x] \in Int
    BY <2>2, <2>4
  <2> QED
    BY <2>2, <2>7, <2>8, <2>9
<1>2. ~Bad(S)
  BY <1>1, FS_CardinalityType
<1> QED
  BY <1>2

\* Whichever member comes out first.
LEMMA SumTakes ==
  ASSUME NEW f, NEW S, IsFiniteSet(S), \A x \in S : f[x] \in Int, NEW a \in S
  PROVE  SumFunctionOnSet(f, S) = f[a] + SumFunctionOnSet(f, S \ {a})
<1> DEFINE Sum(U) == SumFunctionOnSet(f, U)
           Bad(U) == IsFiniteSet(U) /\ \E y \in U : Sum(U) # f[y] + Sum(U \ {y})
           sizes == {n \in Nat : \E U \in SUBSET S : Bad(U) /\ Cardinality(U) = n}
<1>1. ASSUME sizes # {} PROVE FALSE
  <2>1. PICK n \in sizes : \A m \in sizes : n <= m
    <3>1. sizes \subseteq Nat
      OBVIOUS
    <3> HIDE DEF sizes
    <3> QED
      BY <1>1, <3>1, LeastNatural
  <2>2. PICK U \in SUBSET S : Bad(U) /\ Cardinality(U) = n
    OBVIOUS
  <2>3. PICK y \in U : Sum(U) # f[y] + Sum(U \ {y})
    BY <2>2
  <2> DEFINE x == Picked(U)
             V == U \ {x}
             W == U \ {y}
             R == U \ {x, y}
  <2>4. x \in U
    BY <2>3, PickedIn
  <2>5. /\ IsFiniteSet(V) /\ Cardinality(V) = n - 1 /\ V \in SUBSET S
        /\ IsFiniteSet(W) /\ Cardinality(W) = n - 1 /\ W \in SUBSET S
        /\ IsFiniteSet(R) /\ R \in SUBSET S
    BY <2>2, <2>3, <2>4, FS_RemoveElement, FS_Subset
  <2>6. n - 1 \in Nat /\ ~ (n <= n - 1)
    BY <2>5, FS_CardinalityType
  <2>7. Sum(U) = f[x] + Sum(V)
    BY <2>2, <2>3, SumNext
  <2> HIDE DEF x
  <2>8. x # y
    BY <2>3, <2>7
  <2>9. x \in W /\ y \in V /\ W \ {x} = R /\ V \ {y} = R
    BY <2>3, <2>4, <2>8
  <2>10. ~Bad(V) /\ ~Bad(W)
    BY <2>1, <2>5, <2>6
  <2>11. Sum(V) = f[y] + Sum(R) /\ Sum(W) = f[x] + Sum(R)
    BY <2>5, <2>9, <2>10
  <2>12. Sum(R) \in Int
    BY <2>5, SumType
  <2>13. f[x] \in Int /\ f[y] \in Int
    BY <2>2, <2>3, <2>4
  <2> HIDE DEF V, W, R, Sum
  <2> QED
    BY <2>3, <2>7, <2>11, <2>12, <2>13 DEF W
<1>2. ~Bad(S)
  BY <1>1, FS_CardinalityType
<1> QED
  BY <1>2

LEMMA SumOne ==
  ASSUME NEW f, NEW a, f[a] \in Int
  PROVE  SumFunctionOnSet(f, {a}) = f[a]
<1>1. {a} \ {a} = {} /\ IsFiniteSet({a}) /\ \A x \in {a} : f[x] \in Int
  BY FS_Singleton
<1>2. SumFunctionOnSet(f, {}) = 0
  BY SumNext, FS_EmptySet
<1>3. SumFunctionOnSet(f, {a}) = f[a] + SumFunctionOnSet(f, {})
  BY <1>1, SumTakes
<1> QED
  BY <1>2, <1>3

LEMMA SumTwo ==
  ASSUME NEW f, NEW a, NEW b, a # b, f[a] \in Int, f[b] \in Int
  PROVE  SumFunctionOnSet(f, {a, b}) = f[a] + f[b]
<1>1. {a, b} \ {a} = {b} /\ IsFiniteSet({a, b})
  <2>1. IsFiniteSet({b}) /\ {b} \cup {a} = {a, b}
    BY FS_Singleton
  <2>2. IsFiniteSet({b} \cup {a})
    BY <2>1, FS_AddElement
  <2> QED
    BY <2>1, <2>2
<1>2. SumFunctionOnSet(f, {a, b}) = f[a] + SumFunctionOnSet(f, {b})
  BY <1>1, SumTakes
<1> QED
  BY <1>2, SumOne

\* Sums of a set in two parts.
LEMMA SumParts ==
  ASSUME NEW f, NEW S, NEW T, IsFiniteSet(S), IsFiniteSet(T), S \cap T = {},
         \A x \in S \cup T : f[x] \in Int
  PROVE  SumFunctionOnSet(f, S \cup T) = SumFunctionOnSet(f, S) + SumFunctionOnSet(f, T)
<1> DEFINE Sum(U) == SumFunctionOnSet(f, U)
           Bad(U) == IsFiniteSet(U) /\ Sum(U \cup T) # Sum(U) + Sum(T)
           sizes == {n \in Nat : \E U \in SUBSET S : Bad(U) /\ Cardinality(U) = n}
<1>1. ASSUME sizes # {} PROVE FALSE
  <2>1. PICK n \in sizes : \A m \in sizes : n <= m
    <3>1. sizes \subseteq Nat
      OBVIOUS
    <3> HIDE DEF sizes
    <3> QED
      BY <1>1, <3>1, LeastNatural
  <2>2. PICK U \in SUBSET S : Bad(U) /\ Cardinality(U) = n
    OBVIOUS
  <2>3. U # {}
    <3>1. ASSUME U = {} PROVE FALSE
      <4>1. Sum(U) = 0 /\ U \cup T = T
        BY <3>1, SumNext, FS_EmptySet
      <4>2. Sum(T) \in Int
        BY SumType
      <4>3. Sum(U \cup T) = Sum(T)
        BY <4>1
      <4> HIDE DEF Sum
      <4> QED
        BY <2>2, <4>1, <4>2, <4>3
    <3> QED
      BY <3>1
  <2>4. PICK x \in U : TRUE
    BY <2>3
  <2> DEFINE V == U \ {x}
  <2>5. IsFiniteSet(V) /\ Cardinality(V) = n - 1 /\ V \in SUBSET S
    BY <2>2, <2>4, FS_RemoveElement
  <2>6. n - 1 \in Nat /\ ~ (n <= n - 1)
    BY <2>5, FS_CardinalityType
  <2>7. ~Bad(V)
    BY <2>1, <2>5, <2>6
  <2>8. x \notin T /\ (U \cup T) \ {x} = V \cup T
    BY <2>2, <2>4
  <2>9. Sum(U) = f[x] + Sum(V)
    BY <2>2, <2>4, SumTakes
  <2>10. Sum(U \cup T) = f[x] + Sum(V \cup T)
    <3>1. IsFiniteSet(U \cup T)
      BY <2>2, FS_Union
    <3>2. \A y \in U \cup T : f[y] \in Int
      BY <2>2
    <3> QED
      BY <2>4, <2>8, <3>1, <3>2, SumTakes
  <2>11. f[x] \in Int /\ Sum(V) \in Int /\ Sum(T) \in Int
    BY <2>2, <2>4, <2>5, SumType
  <2> HIDE DEF Sum, V
  <2> QED
    BY <2>2, <2>5, <2>7, <2>9, <2>10, <2>11
<1>2. ~Bad(S)
  BY <1>1, FS_CardinalityType
<1> QED
  BY <1>2

\* A sum of natural numbers is one, and is positive when one of them is.
LEMMA SumOfNaturals ==
  ASSUME NEW f, NEW S, IsFiniteSet(S), \A x \in S : f[x] \in Nat
  PROVE  /\ SumFunctionOnSet(f, S) \in Nat
         /\ \A a \in S : f[a] <= SumFunctionOnSet(f, S)
         /\ SumFunctionOnSet(f, S) > 0 <=> \E a \in S : f[a] > 0
<1> DEFINE Sum(U) == SumFunctionOnSet(f, U)
           Bad(U) == IsFiniteSet(U) /\ Sum(U) \notin Nat
           sizes == {n \in Nat : \E U \in SUBSET S : Bad(U) /\ Cardinality(U) = n}
<1>1. ASSUME sizes # {} PROVE FALSE
  <2>1. PICK n \in sizes : \A m \in sizes : n <= m
    <3>1. sizes \subseteq Nat
      OBVIOUS
    <3> HIDE DEF sizes
    <3> QED
      BY <1>1, <3>1, LeastNatural
  <2>2. PICK U \in SUBSET S : Bad(U) /\ Cardinality(U) = n
    OBVIOUS
  <2>3. U # {}
    <3>1. ASSUME U = {} PROVE FALSE
      <4>1. SumFunctionOnSet(f, U) = 0
        BY <2>2, <3>1, SumNext
      <4> QED
        BY <2>2, <4>1
    <3> QED
      BY <3>1
  <2>4. PICK x \in U : TRUE
    BY <2>3
  <2> DEFINE V == U \ {x}
  <2>5. IsFiniteSet(V) /\ Cardinality(V) = n - 1 /\ V \in SUBSET S
    BY <2>2, <2>4, FS_RemoveElement
  <2>6. n - 1 \in Nat /\ ~ (n <= n - 1)
    BY <2>5, FS_CardinalityType
  <2>7. Sum(V) \in Nat
    BY <2>1, <2>5, <2>6
  <2>8. Sum(U) = f[x] + Sum(V) /\ f[x] \in Nat
    BY <2>2, <2>4, SumTakes
  <2> HIDE DEF Sum, V
  <2> QED
    BY <2>2, <2>7, <2>8
<1>2. \A U \in SUBSET S : Sum(U) \in Nat
  BY <1>1, FS_Subset, FS_CardinalityType
<1>3. \A a \in S : Sum(S) = f[a] + Sum(S \ {a}) /\ Sum(S \ {a}) \in Nat /\ f[a] \in Nat
  BY <1>2, SumTakes
<1>4. S = {} => Sum(S) = 0
  BY SumNext
<1>5. ASSUME \A a \in S : ~ (f[a] > 0) PROVE Sum(S) = 0
  <2> DEFINE zeros == {n \in Nat : \E U \in SUBSET S : Sum(U) # 0 /\ Cardinality(U) = n}
  <2>1. ASSUME zeros # {} PROVE FALSE
    <3>1. PICK n \in zeros : \A m \in zeros : n <= m
      <4>1. zeros \subseteq Nat
        OBVIOUS
      <4> HIDE DEF zeros
      <4> QED
        BY <2>1, <4>1, LeastNatural
    <3>2. PICK U \in SUBSET S : Sum(U) # 0 /\ Cardinality(U) = n
      OBVIOUS
    <3>3. IsFiniteSet(U)
      BY FS_Subset
    <3>4. U # {}
      BY <3>2, <3>3, SumNext
    <3>5. PICK x \in U : TRUE
      BY <3>4
    <3>6. IsFiniteSet(U \ {x}) /\ Cardinality(U \ {x}) = n - 1 /\ U \ {x} \in SUBSET S
      BY <3>2, <3>3, <3>5, FS_RemoveElement
    <3>7. n - 1 \in Nat /\ ~ (n <= n - 1)
      BY <3>6, FS_CardinalityType
    <3>8. Sum(U \ {x}) = 0
      BY <3>1, <3>6, <3>7
    <3>9. Sum(U) = f[x] + Sum(U \ {x}) /\ f[x] = 0
      <4>1. f[x] \in Nat /\ ~ (f[x] > 0)
        BY <1>5, <3>5
      <4>2. \A y \in U : f[y] \in Int
        OBVIOUS
      <4> QED
        BY <3>3, <3>5, <4>1, <4>2, SumTakes
    <3> HIDE DEF Sum
    <3> QED
      BY <3>2, <3>8, <3>9
  <2> QED
    BY <2>1, FS_CardinalityType
<1> HIDE DEF Sum
<1>6. Sum(S) \in Nat
  BY <1>2
<1>7. ASSUME NEW a \in S PROVE f[a] <= Sum(S)
  <2>1. Sum(S) = f[a] + Sum(S \ {a}) /\ Sum(S \ {a}) \in Nat /\ f[a] \in Nat
    BY <1>3
  <2> HIDE DEF Sum
  <2> QED
    BY <2>1
<1>8. Sum(S) > 0 => \E a \in S : f[a] > 0
  BY <1>5, <1>6
<1>9. ASSUME NEW a \in S, f[a] > 0 PROVE Sum(S) > 0
  BY <1>6, <1>7, <1>9
<1> QED
  BY <1>6, <1>7, <1>8, <1>9 DEF Sum

\* Only the members of the set count.
LEMMA SumSame ==
  ASSUME NEW f, NEW g, NEW S, IsFiniteSet(S), \A x \in S : f[x] \in Int /\ f[x] = g[x]
  PROVE  SumFunctionOnSet(f, S) = SumFunctionOnSet(g, S)
<1> DEFINE bad == {n \in Nat : \E U \in SUBSET S :
                     SumFunctionOnSet(f, U) # SumFunctionOnSet(g, U) /\ Cardinality(U) = n}
<1>1. ASSUME bad # {} PROVE FALSE
  <2>1. PICK n \in bad : \A m \in bad : n <= m
    <3>1. bad \subseteq Nat
      OBVIOUS
    <3> HIDE DEF bad
    <3> QED
      BY <1>1, <3>1, LeastNatural
  <2>2. PICK U \in SUBSET S :
          SumFunctionOnSet(f, U) # SumFunctionOnSet(g, U) /\ Cardinality(U) = n
    OBVIOUS
  <2>3. IsFiniteSet(U)
    BY FS_Subset
  <2>4. U # {}
    BY <2>2, <2>3, SumNext
  <2>5. Picked(U) \in U
    BY <2>4, PickedIn
  <2> DEFINE V == U \ {Picked(U)}
  <2>6. IsFiniteSet(V) /\ Cardinality(V) = n - 1 /\ V \in SUBSET S
    BY <2>2, <2>3, <2>5, FS_RemoveElement
  <2>7. n - 1 \in Nat /\ ~ (n <= n - 1)
    BY <2>6, FS_CardinalityType
  <2>8. SumFunctionOnSet(f, V) = SumFunctionOnSet(g, V)
    BY <2>1, <2>6, <2>7
  <2>9. /\ SumFunctionOnSet(f, U) = f[Picked(U)] + SumFunctionOnSet(f, V)
        /\ SumFunctionOnSet(g, U) = g[Picked(U)] + SumFunctionOnSet(g, V)
    BY <2>3, <2>4, SumNext
  <2>10. f[Picked(U)] = g[Picked(U)]
    BY <2>5
  <2> HIDE DEF V
  <2> QED
    BY <2>2, <2>8, <2>9, <2>10
<1> QED
  BY <1>1, FS_CardinalityType

\* A sum lies between the smallest and the largest term times their number.
LEMMA SumBounds ==
  ASSUME NEW f, NEW S, IsFiniteSet(S), NEW low \in Int, NEW high \in Int,
         \A x \in S : f[x] \in Int /\ low <= f[x] /\ f[x] <= high
  PROVE  /\ low * Cardinality(S) <= SumFunctionOnSet(f, S)
         /\ SumFunctionOnSet(f, S) <= high * Cardinality(S)
<1> DEFINE Sum(U) == SumFunctionOnSet(f, U)
           Bounded(U) == low * Cardinality(U) <= Sum(U) /\ Sum(U) <= high * Cardinality(U)
           bad == {n \in Nat : \E U \in SUBSET S : ~Bounded(U) /\ Cardinality(U) = n}
<1>1. ASSUME bad # {} PROVE FALSE
  <2>1. PICK n \in bad : \A m \in bad : n <= m
    <3>1. bad \subseteq Nat
      OBVIOUS
    <3> HIDE DEF bad
    <3> QED
      BY <1>1, <3>1, LeastNatural
  <2>2. PICK U \in SUBSET S : ~Bounded(U) /\ Cardinality(U) = n
    OBVIOUS
  <2>3. IsFiniteSet(U)
    BY FS_Subset
  <2>4. U # {}
    <3>1. ASSUME U = {} PROVE FALSE
      <4>1. Sum(U) = 0 /\ Cardinality(U) = 0
        BY <2>3, <3>1, SumNext, FS_EmptySet
      <4> HIDE DEF Sum
      <4> QED
        BY <2>2, <4>1
    <3> QED
      BY <3>1
  <2>5. PICK x \in U : TRUE
    BY <2>4
  <2> DEFINE V == U \ {x}
  <2>6. IsFiniteSet(V) /\ Cardinality(V) = n - 1 /\ V \in SUBSET S
    BY <2>2, <2>3, <2>5, FS_RemoveElement
  <2>7. n - 1 \in Nat /\ ~ (n <= n - 1)
    BY <2>6, FS_CardinalityType
  <2>8. Bounded(V)
    BY <2>1, <2>6, <2>7
  <2>9. Sum(U) = f[x] + Sum(V) /\ Sum(V) \in Int
    BY <2>3, <2>5, <2>6, SumTakes, SumType
  <2>10. f[x] \in Int /\ low <= f[x] /\ f[x] <= high
    BY <2>5
  <2>11. low * n = low * (n - 1) + low /\ high * n = high * (n - 1) + high
    BY <2>7
  <2>12. low * (n - 1) <= Sum(V) /\ Sum(V) <= high * (n - 1)
    BY <2>6, <2>8
  <2>13. low * (n - 1) \in Int /\ high * (n - 1) \in Int
    BY <2>7
  <2> HIDE DEF Sum, V
  <2>14. low * n <= Sum(U) /\ Sum(U) <= high * n
    BY <2>9, <2>10, <2>11, <2>12, <2>13
  <2> QED
    BY <2>2, <2>14
<1> QED
  BY <1>1, FS_CardinalityType

--------------------------------------------------------------------------------
(* Rows of the photo and notes. *)

\* What bandForLine computes, without the sets.
LEMMA BandForLineCases ==
  ASSUME NEW bands \in Nat \ {0}, NEW index \in Int, NEW lineCount \in Nat \ {0},
         NEW topExtra \in Int
  PROVE  LET line == Min({Max({index, 0}), Max({lineCount - 1, 0})})
             extra == Min({Max({topExtra, 0}), Max({bands - lineCount, 0})})
         IN  /\ line \in 0 .. lineCount - 1
             /\ line = IF index <= 0 THEN 0
                       ELSE IF index <= lineCount - 1 THEN index ELSE lineCount - 1
             /\ extra \in 0 .. bands - 1
             /\ bands <= lineCount => extra = 0
BY LeastOfTwo, GreatestOfTwo

\* A line of a sheet lands on a detected row, for every number of rows and lines.
THEOREM LineHasRow ==
  ASSUME NEW bands \in Nat \ {0}, NEW index \in Int, NEW lineCount \in Nat \ {0},
         NEW topExtra \in Int
  PROVE  BandForLine(bands, index, lineCount, topExtra) \in 0 .. bands - 1
<1> DEFINE line == Min({Max({index, 0}), Max({lineCount - 1, 0})})
           extra == Min({Max({topExtra, 0}), Max({bands - lineCount, 0})})
           usable == bands - extra
           row == extra + RoundUp(line * (usable - 1), lineCount - 1)
<1>1. /\ line \in 0 .. lineCount - 1 /\ extra \in 0 .. bands - 1
  BY BandForLineCases
<1>2. usable \in 1 .. bands /\ extra + usable = bands
  BY <1>1
<1>3. BandForLine(bands, index, lineCount, topExtra) =
        IF usable <= 1 \/ lineCount <= 1 THEN extra
        ELSE IF usable = lineCount THEN extra + line
        ELSE Min({row, bands - 1})
  BY DEF BandForLine
<1> HIDE DEF line, extra, usable
<1>4. CASE usable <= 1 \/ lineCount <= 1
  BY <1>1, <1>3, <1>4
<1>5. CASE usable > 1 /\ lineCount > 1 /\ usable = lineCount
  BY <1>1, <1>2, <1>3, <1>5
<1>6. CASE usable > 1 /\ lineCount > 1 /\ usable # lineCount
  <2>1. line * (usable - 1) \in Nat /\ line * (usable - 1) <= (usable - 1) * (lineCount - 1)
    <3>1. (usable - 1) * line <= (usable - 1) * (lineCount - 1) /\ (usable - 1) * 0 <= (usable - 1) * line
      BY <1>1, <1>2, <1>6, ProductGrows
    <3> QED
      BY <1>1, <1>2, <1>6, <3>1
  <2>2. RoundUp(line * (usable - 1), lineCount - 1) \in 0 .. usable - 1
    <3>1. lineCount - 1 \in Nat \ {0} /\ usable - 1 \in Nat
      BY <1>2, <1>6
    <3> QED
      BY <2>1, <3>1, RoundUpBounded
  <2>3. row \in 0 .. bands - 1
    BY <1>1, <1>2, <2>2
  <2> HIDE DEF row
  <2>4. Min({row, bands - 1}) = row
    BY <2>3, LeastOfTwo
  <2>5. BandForLine(bands, index, lineCount, topExtra) = Min({row, bands - 1})
    BY <1>2, <1>3, <1>6 DEF row
  <2> QED
    BY <2>3, <2>4, <2>5
<1> QED
  BY <1>1, <1>2, <1>4, <1>5, <1>6

\* Reading on never scrolls the photo up.
THEOREM ReadingGoesDown ==
  ASSUME NEW bands \in Nat \ {0}, NEW i \in Int, NEW j \in Int, i <= j,
         NEW lineCount \in Nat \ {0}, NEW topExtra \in Int
  PROVE  BandForLine(bands, i, lineCount, topExtra) <= BandForLine(bands, j, lineCount, topExtra)
<1> DEFINE Line(index) == Min({Max({index, 0}), Max({lineCount - 1, 0})})
           extra == Min({Max({topExtra, 0}), Max({bands - lineCount, 0})})
           usable == bands - extra
           Reached(index) == extra + RoundUp(Line(index) * (usable - 1), lineCount - 1)
<1>1. /\ Line(i) \in 0 .. lineCount - 1 /\ Line(j) \in 0 .. lineCount - 1 /\ Line(i) <= Line(j)
      /\ extra \in 0 .. bands - 1
  <2>1. \A index \in {i, j} :
          /\ Line(index) \in 0 .. lineCount - 1 /\ extra \in 0 .. bands - 1
          /\ Line(index) = IF index <= 0 THEN 0
                           ELSE IF index <= lineCount - 1 THEN index ELSE lineCount - 1
    BY BandForLineCases
  <2> HIDE DEF Line, extra
  <2> QED
    BY <2>1
<1>2. usable \in 1 .. bands
  BY <1>1
<1>3. /\ BandForLine(bands, i, lineCount, topExtra) =
           IF usable <= 1 \/ lineCount <= 1 THEN extra
           ELSE IF usable = lineCount THEN extra + Line(i)
           ELSE Min({Reached(i), bands - 1})
      /\ BandForLine(bands, j, lineCount, topExtra) =
           IF usable <= 1 \/ lineCount <= 1 THEN extra
           ELSE IF usable = lineCount THEN extra + Line(j)
           ELSE Min({Reached(j), bands - 1})
  BY DEF BandForLine
<1> HIDE DEF Line, extra, usable
<1>4. CASE usable <= 1 \/ lineCount <= 1
  BY <1>1, <1>3, <1>4
<1>5. CASE usable > 1 /\ lineCount > 1 /\ usable = lineCount
  BY <1>1, <1>2, <1>3, <1>5
<1>6. CASE usable > 1 /\ lineCount > 1 /\ usable # lineCount
  <2>1. /\ Line(i) * (usable - 1) \in Int /\ Line(j) * (usable - 1) \in Int
        /\ Line(i) * (usable - 1) <= Line(j) * (usable - 1)
    <3>1. (usable - 1) * Line(i) <= (usable - 1) * Line(j)
      BY <1>1, <1>2, <1>6, ProductGrows
    <3> QED
      BY <1>1, <1>2, <3>1
  <2>2. /\ RoundUp(Line(i) * (usable - 1), lineCount - 1) \in Int
        /\ RoundUp(Line(j) * (usable - 1), lineCount - 1) \in Int
        /\ RoundUp(Line(i) * (usable - 1), lineCount - 1)
             <= RoundUp(Line(j) * (usable - 1), lineCount - 1)
    <3>1. lineCount - 1 \in Nat \ {0}
      BY <1>6
    <3>2. \A x \in Int : RoundUp(x, lineCount - 1) \in Int
      BY <3>1, QuotientType DEF RoundUp
    <3> QED
      BY <2>1, <3>1, <3>2, RoundUpGrows
  <2>3. Reached(i) \in Int /\ Reached(j) \in Int /\ Reached(i) <= Reached(j)
    BY <1>1, <2>2
  <2>4. ~(usable <= 1 \/ lineCount <= 1) /\ usable # lineCount
    BY <1>2, <1>6
  <2> HIDE DEF Reached
  <2>5. /\ Min({Reached(i), bands - 1}) = IF Reached(i) <= bands - 1 THEN Reached(i) ELSE bands - 1
        /\ Min({Reached(j), bands - 1}) = IF Reached(j) <= bands - 1 THEN Reached(j) ELSE bands - 1
    BY <2>3, LeastOfTwo
  <2> QED
    BY <1>3, <2>3, <2>4, <2>5
<1> QED
  BY <1>2, <1>4, <1>5, <1>6

\* A sheet with a line for every row left below the extra ones maps one to one.
THEOREM RowsMatchLines ==
  ASSUME NEW bands \in Nat \ {0}, NEW lineCount \in 1 .. bands,
         NEW index \in 0 .. lineCount - 1
  PROVE  BandForLine(bands, index, lineCount, bands - lineCount) = bands - lineCount + index
<1> DEFINE line == Min({Max({index, 0}), Max({lineCount - 1, 0})})
           extra == Min({Max({bands - lineCount, 0}), Max({bands - lineCount, 0})})
<1>1. line = index /\ extra = bands - lineCount
  BY LeastOfTwo, GreatestOfTwo
<1> HIDE DEF line, extra
<1>2. BandForLine(bands, index, lineCount, bands - lineCount) =
        IF bands - extra <= 1 \/ lineCount <= 1 THEN extra
        ELSE IF bands - extra = lineCount THEN extra + line
        ELSE Min({extra + RoundUp(line * (bands - extra - 1), lineCount - 1), bands - 1})
  BY DEF BandForLine, line, extra
<1> QED
  BY <1>1, <1>2

\* The shift between two tonics is the one nearest to zero that leads from the
\* first to the second.
THEOREM ShiftIsNearest ==
  ASSUME NEW source \in Int, NEW target \in Int
  PROVE  /\ TransposeSemitones(source, target) \in -5 .. 6
         /\ (source + TransposeSemitones(source, target) - target) % 12 = 0
BY DEF TransposeSemitones

LEMMA NoteParts ==
  ASSUME NEW note \in Notes
  PROVE  /\ IsNote(note) /\ note.letter \in DOMAIN NaturalPC
         /\ note.mods \in Seq(Accidentals \cup OctaveDots)
         /\ note = Note(note.letter, note.mods)
         /\ DOMAIN note.mods = 1 .. Len(note.mods) /\ Len(note.mods) \in Nat
BY DEF Notes, IsNote, Note

\* A pair and a sequence of one.
LEMMA Pair ==
  ASSUME NEW x, NEW y
  PROVE  <<x, y>>[1] = x /\ <<x, y>>[2] = y
OBVIOUS
LEMMA Single ==
  ASSUME NEW x
  PROVE  <<x>> \in Seq({x}) /\ Len(<<x>>) = 1 /\ <<x>>[1] = x
OBVIOUS

\* How many marks the first n of a sequence of equal marks are.
LEMMA CountUpTo ==
  ASSUME NEW n \in Nat
  PROVE  Cardinality(1 .. n) = n /\ Cardinality({}) = 0
BY FS_Interval, FS_EmptySet

LEMMA WrittenType ==
  ASSUME NEW note \in Notes, NEW mark
  PROVE  Written(note, mark) \in Nat
<1>1. IsFiniteSet(DOMAIN note.mods)
  BY NoteParts, FS_Interval
<1>2. {i \in DOMAIN note.mods : note.mods[i] = mark} \subseteq DOMAIN note.mods
  OBVIOUS
<1> QED
  BY <1>1, <1>2, FS_Subset, FS_CardinalityType DEF Written

LEMMA LetterType ==
  ASSUME NEW l \in DOMAIN NaturalPC
  PROVE  NaturalPC[l] \in 0 .. 11
BY DEF NaturalPC

LEMMA OctaveType ==
  ASSUME NEW note \in Notes
  PROVE  Octave(note) \in Int
<1> DEFINE up == Written(note, "'")
           down == Written(note, ",")
<1>1. up \in Nat /\ down \in Nat
  BY WrittenType
<1>2. Octave(note) = up - down
  BY DEF Octave
<1> HIDE DEF up, down
<1> QED
  BY <1>1, <1>2

Lift(note) == IF Has(note, "_") THEN -1 ELSE IF Has(note, "^") THEN 1 ELSE 0

LEMMA AbsoluteType ==
  ASSUME NEW note \in Notes
  PROVE  /\ Absolute(note) = 12 * Octave(note) + NaturalPC[note.letter] + Lift(note)
         /\ Lift(note) \in {-1, 0, 1}
         /\ Absolute(note) \in Int
<1>1. NaturalPC[note.letter] \in 0 .. 11 /\ Octave(note) \in Int
  BY NoteParts, LetterType, OctaveType
<1>2. Absolute(note) = 12 * Octave(note) + NaturalPC[note.letter] + Lift(note)
  BY Zenon DEF Absolute, Lift
<1>3. Lift(note) \in {-1, 0, 1}
  BY Zenon DEF Lift
<1> QED
  BY <1>1, <1>2, <1>3

\* What the server warns of is what the reader does not rotate.
LEMMA WarnedIsIllegal ==
  ASSUME NEW note
  PROVE  NoteWarnings(note) = {} <=> LegalNote(note)
<1> DEFINE flat == Has(note, "_")
           sharp == Has(note, "^")
<1>1. \A w : w \in NoteWarnings(note) <=>
        \/ w = "both"  /\ flat /\ sharp
        \/ w = "fixed" /\ note.letter \in {"S", "P"} /\ (flat \/ sharp)
        \/ w = "flat"  /\ flat /\ note.letter \notin FlatAllowed
        \/ w = "sharp" /\ sharp /\ note.letter # "M"
  BY DEF NoteWarnings
<1>2. LegalNote(note) <=> /\ ~(flat /\ sharp)
                          /\ flat => note.letter \in FlatAllowed
                          /\ sharp => note.letter = "M"
  BY DEF LegalNote
<1>3. flat \in BOOLEAN /\ sharp \in BOOLEAN
  BY DEF Has, Contains
<1> HIDE DEF flat, sharp
<1> QED
  BY <1>1, <1>2, <1>3 DEF FlatAllowed

\* The twelve spellings.
Flat == "_"
Sharp == "^"
Spelled(p, letter, marks) == PcToken[p + 1] = <<letter, marks>>
LEMMA Spellings ==
  /\ PcToken[1] = <<"S", <<>> >> /\ PcToken[2] = <<"R", <<Flat>> >> /\ PcToken[3] = <<"R", <<>> >>
  /\ PcToken[4] = <<"G", <<Flat>> >> /\ PcToken[5] = <<"G", <<>> >> /\ PcToken[6] = <<"M", <<>> >>
  /\ PcToken[7] = <<"M", <<Sharp>> >> /\ PcToken[8] = <<"P", <<>> >>
  /\ PcToken[9] = <<"D", <<Flat>> >> /\ PcToken[10] = <<"D", <<>> >>
  /\ PcToken[11] = <<"N", <<Flat>> >> /\ PcToken[12] = <<"N", <<>> >>
BY Zenon DEF PcToken, Flat, Sharp

LEMMA Spelling ==
  ASSUME NEW p \in 0 .. 11
  PROVE  LET letter == PcToken[p + 1][1]
             marks == PcToken[p + 1][2]
         IN  \/ marks = <<>> /\ letter \in DOMAIN NaturalPC /\ NaturalPC[letter] = p
             \/ marks = <<Flat>> /\ letter \in FlatAllowed /\ NaturalPC[letter] - 1 = p
             \/ marks = <<Sharp>> /\ letter = "M" /\ NaturalPC[letter] + 1 = p
<1> USE DEF NaturalPC, FlatAllowed
<1>1. p \in {0, 1, 2, 3, 4, 5, 6, 7, 8, 9, 10, 11}
  OBVIOUS
<1>2. CASE p \in {0, 1, 2, 3}
  BY <1>2, Spellings, Pair
<1>3. CASE p \in {4, 5, 6, 7}
  BY <1>3, Spellings, Pair
<1>4. CASE p \in {8, 9, 10, 11}
  BY <1>4, Spellings, Pair
<1> QED
  BY <1>1, <1>2, <1>3, <1>4

\* The canonical token of a pitch.
Up == "'"
Down == ","
LEMMA MarksApart ==
  /\ Flat # Sharp /\ Flat # Up /\ Flat # Down /\ Sharp # Up /\ Sharp # Down /\ Up # Down
  /\ Accidentals = {Flat, Sharp} /\ OctaveDots = {Up, Down}
<1>1. Flat # Sharp /\ Flat # Up /\ Flat # Down /\ Sharp # Up /\ Sharp # Down /\ Up # Down
  BY Zenon DEF Flat, Sharp, Up, Down
<1>2. Accidentals = {Flat, Sharp} /\ OctaveDots = {Up, Down}
  BY Zenon DEF Flat, Sharp, Up, Down, Accidentals, OctaveDots
<1> QED
  BY <1>1, <1>2

Dots(octave) == IF octave > 0 THEN [i \in 1 .. octave |-> Up] ELSE [i \in 1 .. -octave |-> Down]

LEMMA DotsAre ==
  ASSUME NEW octave \in Int
  PROVE  /\ Dots(octave) \in Seq({Up, Down})
         /\ Len(Dots(octave)) = IF octave > 0 THEN octave ELSE -octave
         /\ \A i \in 1 .. Len(Dots(octave)) :
              Dots(octave)[i] = IF octave > 0 THEN Up ELSE Down
<1>1. CASE octave > 0
  BY <1>1 DEF Dots
<1>2. CASE ~(octave > 0)
  BY <1>2 DEF Dots
<1> QED
  BY <1>1, <1>2

\* What a note of given dots and accidental shows.
LEMMA DottedNote ==
  ASSUME NEW letter \in DOMAIN NaturalPC, NEW octave \in Int,
         NEW marks \in {<<>>, <<Flat>>, <<Sharp>>}
  PROVE  LET note == Note(letter, Dots(octave) \o marks)
         IN  /\ note \in Notes /\ note.letter = letter
             /\ Has(note, Flat) <=> marks = <<Flat>>
             /\ Has(note, Sharp) <=> marks = <<Sharp>>
             /\ Octave(note) = octave
<1> DEFINE dots == Dots(octave)
           mods == dots \o marks
           note == Note(letter, mods)
           n == Len(dots)
           All == {Flat, Sharp, Up, Down}
<1>1. /\ dots \in Seq(All) /\ n \in Nat
      /\ n = IF octave > 0 THEN octave ELSE -octave
      /\ \A i \in 1 .. n : dots[i] = IF octave > 0 THEN Up ELSE Down
  <2>1. dots \in Seq({Up, Down})
    BY DotsAre
  <2>2. {Up, Down} \subseteq All
    OBVIOUS
  <2> QED
    BY <2>1, <2>2, DotsAre
<1>2. /\ marks \in Seq(All) /\ Len(marks) \in {0, 1}
      /\ marks = <<Flat>> => Len(marks) = 1 /\ marks[1] = Flat
      /\ marks = <<Sharp>> => Len(marks) = 1 /\ marks[1] = Sharp
      /\ marks = <<>> => Len(marks) = 0
      /\ <<Flat>> # <<Sharp>>
  <2>1. /\ <<Flat>> \in Seq({Flat}) /\ Len(<<Flat>>) = 1 /\ <<Flat>>[1] = Flat
        /\ <<Sharp>> \in Seq({Sharp}) /\ Len(<<Sharp>>) = 1 /\ <<Sharp>>[1] = Sharp
    BY Single
  <2>2. <<>> \in Seq(All) /\ Len(<<>>) = 0
    OBVIOUS
  <2>3. <<Flat>> \in Seq(All) /\ <<Sharp>> \in Seq(All)
    BY <2>1
  <2> HIDE DEF All
  <2> QED
    BY <2>1, <2>2, <2>3, MarksApart
<1> HIDE DEF dots, n, All
<1>3. /\ mods \in Seq(All) /\ Len(mods) = n + Len(marks)
      /\ \A i \in 1 .. n : mods[i] = dots[i]
      /\ Len(marks) = 1 => mods[n + 1] = marks[1]
  <2>1. mods \in Seq(All) /\ Len(mods) = n + Len(marks)
    BY <1>1, <1>2, ConcatProperties DEF n
  <2>2. \A i \in 1 .. Len(dots) + Len(marks) :
           mods[i] = IF i <= Len(dots) THEN dots[i] ELSE marks[i - Len(dots)]
    BY <1>1, <1>2, ConcatProperties
  <2> QED
    BY <1>1, <1>2, <2>1, <2>2 DEF n
<1>4. note \in Notes /\ note.letter = letter /\ note.mods = mods
  <2>1. All = Accidentals \cup OctaveDots
    BY MarksApart DEF All
  <2> QED
    BY <1>3, <2>1 DEF Notes, Note
<1> HIDE DEF mods, note
<1>5. DOMAIN mods = 1 .. Len(mods)
  BY <1>3
<1>6. \A m : Has(note, m) <=> \E i \in 1 .. Len(mods) : mods[i] = m
  BY <1>4 DEF Has, Contains
<1>7. ASSUME NEW m \in {Flat, Sharp} PROVE Has(note, m) <=> marks = <<m>>
  <2>1. \A i \in 1 .. n : mods[i] # m
    BY <1>1, <1>3, MarksApart
  <2>2. Has(note, m) <=> Len(marks) = 1 /\ marks[1] = m
    <3>1. CASE Len(marks) = 0
      <4>1. Len(mods) = n
        BY <1>1, <1>3, <3>1
      <4> QED
        BY <1>6, <2>1, <3>1, <4>1
    <3>2. CASE Len(marks) = 1
      <4>1. Len(mods) = n + 1 /\ mods[n + 1] = marks[1] /\ n + 1 \in 1 .. Len(mods)
            /\ \A i \in 1 .. Len(mods) : i = n + 1 \/ i \in 1 .. n
        BY <1>1, <1>3, <3>2
      <4> QED
        BY <1>6, <2>1, <3>2, <4>1
    <3> QED
      BY <1>2, <3>1, <3>2
  <2> QED
    BY <1>2, <2>2, MarksApart
<1>8. Octave(note) = octave
  <2> DEFINE At(m) == {i \in DOMAIN mods : mods[i] = m}
  <2>1. Octave(note) = Cardinality(At(Up)) - Cardinality(At(Down))
    BY <1>4 DEF Octave, Written, Up, Down
  <2>2. ASSUME NEW i \in DOMAIN mods, i \notin 1 .. n
        PROVE  mods[i] # Up /\ mods[i] # Down
    <3>1. Len(marks) = 1 /\ i = n + 1 /\ mods[i] = marks[1]
      <4>1. i \in 1 .. n + Len(marks) /\ i \notin 1 .. n
        BY <1>3, <1>5, <2>2
      <4>2. Len(marks) = 1 /\ i = n + 1
        <5>1. Len(marks) = 0 \/ Len(marks) = 1
          BY <1>2
        <5>2. n \in Nat
          BY <1>1
        <5>3. CASE Len(marks) = 0
          <6>1. n + Len(marks) = n
            BY <5>2, <5>3
          <6> QED
            BY <4>1, <6>1
        <5>4. CASE Len(marks) = 1
          <6>1. i \in 1 .. n + 1
            BY <4>1, <5>4
          <6> QED
            BY <4>1, <5>2, <5>4, <6>1
        <5> QED
          BY <5>1, <5>3, <5>4
      <4> QED
        BY <1>3, <4>2
    <3>2. marks[1] \in {Flat, Sharp}
      BY <1>2, <3>1
    <3> QED
      BY <3>1, <3>2, MarksApart
  <2>3. ASSUME NEW i \in 1 .. n
        PROVE  i \in DOMAIN mods /\ (mods[i] = Up <=> octave > 0) /\ (mods[i] = Down <=> ~(octave > 0))
    BY <1>1, <1>2, <1>3, <1>5, MarksApart
  <2>4. CASE octave > 0
    <3>1. At(Up) = 1 .. n /\ At(Down) = {}
      BY <2>2, <2>3, <2>4
    <3>2. n = octave
      BY <1>1, <2>4
    <3>3. Cardinality(1 .. n) = n /\ Cardinality({}) = 0 /\ n \in Nat
      BY <1>1, CountUpTo
    <3> HIDE DEF At
    <3> QED
      BY <2>1, <3>1, <3>2, <3>3
  <2>5. CASE ~(octave > 0)
    <3>1. At(Down) = 1 .. n /\ At(Up) = {}
      BY <2>2, <2>3, <2>5
    <3>2. n = -octave
      BY <1>1, <2>5
    <3>3. Cardinality(1 .. n) = n /\ Cardinality({}) = 0 /\ n \in Nat
      BY <1>1, CountUpTo
    <3> HIDE DEF At
    <3> QED
      BY <2>1, <3>1, <3>2, <3>3
  <2> QED
    BY <2>4, <2>5
<1> QED
  BY <1>4, <1>7, <1>8 DEF note, mods, dots

LEMMA Rendered ==
  ASSUME NEW absolute \in Int
  PROVE  LET note == RenderAbsolute(absolute)
         IN  note \in Notes /\ LegalNote(note) /\ Absolute(note) = absolute
<1> DEFINE p == absolute % 12
           octave == absolute \div 12
           letter == PcToken[p + 1][1]
           marks == PcToken[p + 1][2]
           note == Note(letter, Dots(octave) \o marks)
<1>1. p \in 0 .. 11 /\ octave \in Int /\ absolute = 12 * octave + p
  OBVIOUS
<1>2. RenderAbsolute(absolute) = note
  BY Zenon DEF RenderAbsolute, Dots, Up, Down
<1>3. \/ marks = <<>> /\ letter \in DOMAIN NaturalPC /\ NaturalPC[letter] = p
      \/ marks = <<Flat>> /\ letter \in FlatAllowed /\ NaturalPC[letter] - 1 = p
      \/ marks = <<Sharp>> /\ letter = "M" /\ NaturalPC[letter] + 1 = p
  BY <1>1, Spelling
<1> HIDE DEF p, octave, letter, marks, note
<1>4. letter \in DOMAIN NaturalPC /\ marks \in {<<>>, <<Flat>>, <<Sharp>>}
      /\ NaturalPC[letter] \in Int
  BY <1>3 DEF NaturalPC, FlatAllowed
<1>5. /\ note \in Notes /\ note.letter = letter
      /\ Has(note, Flat) <=> marks = <<Flat>>
      /\ Has(note, Sharp) <=> marks = <<Sharp>>
      /\ Octave(note) = octave
  BY <1>1, <1>4, DottedNote DEF note
<1>6. <<>> # <<Flat>> /\ <<>> # <<Sharp>> /\ <<Flat>> # <<Sharp>>
  BY Single, MarksApart
<1>7. LegalNote(note)
  BY <1>3, <1>5, <1>6 DEF LegalNote, Flat, Sharp
<1>8. Lift(note) = IF Has(note, Flat) THEN -1 ELSE IF Has(note, Sharp) THEN 1 ELSE 0
  BY Zenon DEF Lift, Flat, Sharp
<1>9. Absolute(note) = 12 * octave + NaturalPC[letter] + Lift(note)
  BY <1>5, AbsoluteType
<1>10. NaturalPC[letter] + Lift(note) = p
  BY <1>3, <1>4, <1>5, <1>6, <1>8
<1>11. Lift(note) \in Int
  BY <1>5, AbsoluteType
<1> QED
  BY <1>1, <1>2, <1>4, <1>5, <1>7, <1>9, <1>10, <1>11

\* A rotated note.
LEMMA RotatedNote ==
  ASSUME NEW note \in Notes, NEW k \in Int
  PROVE  LET out == TransposeLine(<<note>>, k)[1]
         IN  /\ out = IF k # 0 /\ LegalNote(note) THEN RenderAbsolute(Absolute(note) + k) ELSE note
             /\ out \in Notes
             /\ LegalNote(note) => LegalNote(out) /\ Absolute(out) = Absolute(note) + k
<1> DEFINE out == TransposeLine(<<note>>, k)[1]
<1>1. out = IF k # 0 /\ LegalNote(note) THEN RenderAbsolute(Absolute(note) + k) ELSE note
  <2>1. IsNote(note) /\ 1 \in DOMAIN <<note>> /\ <<note>>[1] = note
    BY NoteParts, Single
  <2>2. CASE k = 0
    BY <2>1, <2>2 DEF TransposeLine
  <2>3. CASE k # 0
    <3>1. TransposeLine(<<note>>, k) =
            [i \in DOMAIN <<note>> |->
               IF IsNote(<<note>>[i]) /\ LegalNote(<<note>>[i])
               THEN RenderAbsolute(Absolute(<<note>>[i]) + k) ELSE <<note>>[i]]
      BY <2>3 DEF TransposeLine
    <3> QED
      BY <2>1, <2>3, <3>1
  <2> QED
    BY <2>2, <2>3
<1>2. Absolute(note) \in Int /\ Absolute(note) + k \in Int
  BY AbsoluteType
<1>3. LET n == RenderAbsolute(Absolute(note) + k)
      IN  n \in Notes /\ LegalNote(n) /\ Absolute(n) = Absolute(note) + k
  BY <1>2, Rendered
<1> HIDE DEF out
<1>4. CASE k # 0 /\ LegalNote(note)
  BY <1>1, <1>3, <1>4 DEF out
<1>5. CASE ~(k # 0 /\ LegalNote(note))
  BY <1>1, <1>2, <1>5 DEF out
<1> QED
  BY <1>4, <1>5, <1>1 DEF out

\* The server and the reader agree on what is a note (stf.py, stfTranspose.ts):
\* of every note and for every interval, the one warns exactly when the other
\* leaves it as it is.
THEOREM WarnedExactlyWhenKept ==
  ASSUME NEW note \in Notes, NEW k \in Int \ {0}
  PROVE  TransposeLine(<<note>>, k)[1] = note <=> NoteWarnings(note) # {}
<1>1. Absolute(note) \in Int /\ Absolute(note) + k # Absolute(note)
  BY AbsoluteType
<1>2. LET out == TransposeLine(<<note>>, k)[1]
      IN  /\ ~LegalNote(note) => out = note
          /\ LegalNote(note) => Absolute(out) = Absolute(note) + k
  BY RotatedNote
<1> QED
  BY <1>1, <1>2, WarnedIsIllegal

\* Transposing back restores a legal note's pitch in any octave, and the note
\* itself when it was written canonically (stfTranspose.ts).
THEOREM TransposingReverses ==
  ASSUME NEW note \in Notes, LegalNote(note), NEW k \in Int
  PROVE  LET out == TransposeLine(<<note>>, k)[1]
             back == TransposeLine(<<out>>, -k)[1]
         IN  /\ LegalNote(out) /\ Absolute(out) = Absolute(note) + k
             /\ LegalNote(back) /\ Absolute(back) = Absolute(note)
             /\ note = RenderAbsolute(Absolute(note)) => back = note
<1> DEFINE out == TransposeLine(<<note>>, k)[1]
           back == TransposeLine(<<out>>, -k)[1]
<1>1. /\ out \in Notes /\ LegalNote(out) /\ Absolute(out) = Absolute(note) + k
      /\ k = 0 => out = note
  BY RotatedNote
<1>2. Absolute(note) \in Int /\ -k \in Int
  BY AbsoluteType
<1> HIDE DEF out
<1>3. /\ LegalNote(back) /\ Absolute(back) = Absolute(out) + (-k)
      /\ back = IF -k # 0 THEN RenderAbsolute(Absolute(out) + (-k)) ELSE out
  BY <1>1, <1>2, RotatedNote
<1> HIDE DEF back
<1>4. Absolute(out) + (-k) = Absolute(note)
  BY <1>1, <1>2
<1>5. note = RenderAbsolute(Absolute(note)) => back = note
  BY <1>1, <1>3, <1>4
<1> QED
  BY <1>1, <1>3, <1>4, <1>5 DEF out, back

\* A transposed text: its notes rotated and everything else in place.
LEMMA RotatedText ==
  ASSUME NEW text, IsText(text), NEW k \in Int
  PROVE  LET out == TransposeLine(text, k)
         IN  /\ DOMAIN out = DOMAIN text
             /\ \A i \in DOMAIN text :
                  /\ IsNote(out[i]) <=> IsNote(text[i])
                  /\ IsNote(text[i]) => NoteWarnings(out[i]) = NoteWarnings(text[i])
                  /\ \A s : Is(out[i], s) <=> Is(text[i], s)
<1> DEFINE out == TransposeLine(text, k)
<1>1. CASE k = 0
  BY <1>1 DEF TransposeLine
<1>2. CASE k # 0
  <2>1. out = [i \in DOMAIN text |->
                 IF IsNote(text[i]) /\ LegalNote(text[i])
                 THEN RenderAbsolute(Absolute(text[i]) + k) ELSE text[i]]
    BY <1>2 DEF TransposeLine
  <2> HIDE DEF out
  <2>2. ASSUME NEW i \in DOMAIN text
        PROVE  /\ IsNote(out[i]) <=> IsNote(text[i])
               /\ IsNote(text[i]) => NoteWarnings(out[i]) = NoteWarnings(text[i])
               /\ \A s : Is(out[i], s) <=> Is(text[i], s)
    <3>1. CASE IsNote(text[i]) /\ LegalNote(text[i])
      <4>1. text[i] \in Notes
        BY <3>1 DEF IsText, IsNote
      <4>2. out[i] = RenderAbsolute(Absolute(text[i]) + k)
        BY <2>1, <3>1
      <4>3. Absolute(text[i]) + k \in Int
        BY <4>1, AbsoluteType
      <4>4. out[i] \in Notes /\ LegalNote(out[i])
        BY <4>2, <4>3, Rendered
      <4>5. out[i].k = "note" /\ text[i].k = "note"
        BY <3>1, <4>4, NoteParts DEF IsNote
      <4> QED
        BY <3>1, <4>4, <4>5, WarnedIsIllegal DEF IsNote, Is
    <3>2. CASE ~(IsNote(text[i]) /\ LegalNote(text[i]))
      BY <2>1, <3>2
    <3> QED
      BY <3>1, <3>2
  <2> QED
    BY <2>1, <2>2 DEF out
<1> QED
  BY <1>1, <1>2

\* A transposed view shows the advice of the sheet it is derived from
\* (stfTranspose.ts, stf.py), for every text and every interval.
THEOREM AdviceIsKept ==
  ASSUME NEW text, IsText(text), NEW k \in Int
  PROVE  LineWarnings(TransposeLine(text, k)) = LineWarnings(text)
<1> DEFINE out == TransposeLine(text, k)
<1>1. /\ DOMAIN out = DOMAIN text
      /\ \A i \in DOMAIN text :
           /\ IsNote(out[i]) <=> IsNote(text[i])
           /\ IsNote(text[i]) => NoteWarnings(out[i]) = NoteWarnings(text[i])
           /\ \A s : Is(out[i], s) <=> Is(text[i], s)
  BY RotatedText
<1> HIDE DEF out
<1>2. DOMAIN text = 1 .. Len(text) /\ Len(text) \in Nat
  BY DEF IsText
<1>3. CurveGroups(out) = CurveGroups(text)
  <2>1. ASSUME NEW g \in (DOMAIN text) \X (DOMAIN text)
        PROVE  \A i \in g[1] + 1 .. g[2] - 1 : i \in DOMAIN text
    BY <1>2
  <2>2. ASSUME NEW g \in (DOMAIN text) \X (DOMAIN text)
        PROVE  /\ g[1] \in DOMAIN text /\ g[2] \in DOMAIN text
               /\ Is(out[g[1]], "(") <=> Is(text[g[1]], "(")
               /\ Is(out[g[2]], ")") <=> Is(text[g[2]], ")")
               /\ \A i \in g[1] + 1 .. g[2] - 1 :
                    (Is(out[i], "(") <=> Is(text[i], "(")) /\ (Is(out[i], ")") <=> Is(text[i], ")"))
    BY <1>1, <2>1
  <2> QED
    BY <1>1, <2>2, Zenon DEF CurveGroups
<1>4. ASSUME NEW g \in CurveGroups(text)
      PROVE  Slots(out, g) = Slots(text, g)
  <2>1. g \in (DOMAIN text) \X (DOMAIN text)
    BY DEF CurveGroups
  <2>2. ASSUME NEW i \in g[1] + 1 .. g[2] - 1 PROVE i \in DOMAIN text
    BY <1>2, <2>1
  <2>3. ASSUME NEW i \in g[1] + 1 .. g[2] - 1
        PROVE  /\ IsNote(out[i]) <=> IsNote(text[i])
               /\ Is(out[i], "-") <=> Is(text[i], "-")
               /\ Is(out[i], "+") <=> Is(text[i], "+")
    BY <1>1, <2>2
  <2> QED
    BY <2>3, Zenon DEF Slots
<1>5. {i \in DOMAIN out : IsNote(out[i])} = {i \in DOMAIN text : IsNote(text[i])}
  BY <1>1
<1>6. UNION {{i} \X NoteWarnings(out[i]) : i \in {j \in DOMAIN out : IsNote(out[j])}}
        = UNION {{i} \X NoteWarnings(text[i]) : i \in {j \in DOMAIN text : IsNote(text[j])}}
  <2>1. \A i \in {j \in DOMAIN text : IsNote(text[j])} :
           {i} \X NoteWarnings(out[i]) = {i} \X NoteWarnings(text[i])
    BY <1>1
  <2> QED
    BY <1>5, <2>1
<1>7. {b \in Aliens : \E i \in DOMAIN out : Is(out[i], b)}
        = {b \in Aliens : \E i \in DOMAIN text : Is(text[i], b)}
  BY <1>1
<1>8. {h \in CurveGroups(out) : Cardinality(Slots(out, h)) < 2}
        = {h \in CurveGroups(text) : Cardinality(Slots(text, h)) < 2}
  BY <1>3, <1>4
<1> QED
  BY <1>6, <1>7, <1>8, Zenon DEF LineWarnings, out

--------------------------------------------------------------------------------
(* The arms of a comparison. *)

\* The rates of the runs of an arm, and what one more run does to its ends.
Arm(S) == S \in SUBSET Int /\ S # {} /\ IsFiniteSet(S)

LEMMA ArmGrows ==
  ASSUME NEW S, Arm(S), NEW r \in Int
  PROVE  /\ Arm(S \cup {r})
         /\ Max(S \cup {r}) >= Max(S) /\ Min(S \cup {r}) <= Min(S)
         /\ Max(S) \in Int /\ Min(S) \in Int /\ Min(S) <= Max(S)
         /\ Max(S \cup {r}) \in Int /\ Min(S \cup {r}) \in Int
<1>1. Arm(S \cup {r})
  BY FS_AddElement DEF Arm
<1>2. /\ Max(S) \in S /\ \A y \in S : Max(S) >= y
      /\ Min(S) \in S /\ \A y \in S : Min(S) <= y
  BY MaxIs, MinIs DEF Arm
<1>3. /\ Max(S \cup {r}) \in S \cup {r} /\ \A y \in S \cup {r} : Max(S \cup {r}) >= y
      /\ Min(S \cup {r}) \in S \cup {r} /\ \A y \in S \cup {r} : Min(S \cup {r}) <= y
  BY <1>1, MaxIs, MinIs DEF Arm
<1> QED
  BY <1>1, <1>2, <1>3 DEF Arm

\* Only arms that do not overlap differ, whichever of them comes first, and a
\* run more only widens an arm (_verdict of evaluate_recognition.py).
THEOREM VerdictsAreFair ==
  ASSUME NEW control, Arm(control), NEW candidate, Arm(candidate), NEW r \in Int,
         NEW lower \in BOOLEAN
  PROVE  LET verdict == Verdict(control, candidate, lower)
         IN  /\ Verdict(candidate, control, lower) = CASE verdict = "better" -> "worse"
                                                       [] verdict = "worse" -> "better"
                                                       [] OTHER -> "inside_noise"
             /\ Verdict(control \cup {r}, candidate, lower) \in {verdict, "inside_noise"}
             /\ Verdict(control, candidate \cup {r}, lower) \in {verdict, "inside_noise"}
<1>1. CASE lower
  BY <1>1, ArmGrows DEF Verdict
<1>2. CASE ~lower
  BY <1>2, ArmGrows DEF Verdict
<1> QED
  BY <1>1, <1>2

--------------------------------------------------------------------------------
(* Advice on a sheet. *)

\* A scale that names a tonic names one of the twelve.
LEMMA PitchClassType ==
  ASSUME NEW scale, scale \in Seq(ToSet(scale))
  PROVE  ParsePitchClass(scale) \in {NoPitch} \cup 0 .. 11
<1> DEFINE word == {i \in 2 .. Len(scale) : scale[i] \notin {"#", "b"}}
           marks == 2 .. (IF word = {} THEN Len(scale) ELSE Min(word) - 1)
           Of(s) == Cardinality({i \in marks : scale[i] = s})
<1>1. Len(scale) \in Nat
  OBVIOUS
<1>2. ASSUME word # {} PROVE Min(word) \in Int
  <2>1. word \subseteq 2 .. Len(scale) /\ IsFiniteSet(2 .. Len(scale))
    BY <1>1, FS_Interval
  <2>2. IsFiniteSet(word) /\ word \in SUBSET Int
    BY <2>1, FS_Subset
  <2> QED
    BY <1>2, <2>2, MinIs
<1>3. IsFiniteSet(marks)
  <2> DEFINE last == IF word = {} THEN Len(scale) ELSE Min(word) - 1
  <2>1. last \in Int
    BY <1>1, <1>2
  <2> HIDE DEF last
  <2>2. IsFiniteSet(2 .. last)
    BY <2>1, FS_Interval
  <2> QED
    BY <2>2 DEF last
<1> HIDE DEF marks, word
<1>4. \A s : Of(s) \in Nat
  <2>1. ASSUME NEW s PROVE Of(s) \in Nat
    <3>1. {i \in marks : scale[i] = s} \subseteq marks
      OBVIOUS
    <3> QED
      BY <1>3, <3>1, FS_Subset, FS_CardinalityType
  <2> QED
    BY <2>1
<1>5. CASE scale = <<>> \/ scale[1] \notin DOMAIN NoteBase
  BY <1>5 DEF ParsePitchClass
<1>6. CASE ~(scale = <<>> \/ scale[1] \notin DOMAIN NoteBase)
  <2>1. ParsePitchClass(scale) = (NoteBase[scale[1]] + Of("#") - Of("b")) % 12
    BY <1>6, Zenon DEF ParsePitchClass, marks, word
  <2>2. NoteBase[scale[1]] \in Int
    BY <1>6 DEF NoteBase
  <2> HIDE DEF Of
  <2>3. Of("#") \in Nat /\ Of("b") \in Nat
    BY <1>4
  <2>4. NoteBase[scale[1]] + Of("#") - Of("b") \in Int
    BY <2>2, <2>3
  <2> QED
    BY <2>1, <2>4
<1> QED
  BY <1>5, <1>6

\* The alto reads three semitones below when its tonic is the nine above.
LEMMA AltoBelow ==
  ASSUME NEW concert \in 0 .. 11, NEW alto \in 0 .. 11
  PROVE  (concert + 9) % 12 # alto <=> TransposeSemitones(concert, alto) # -3
BY DEF TransposeSemitones

\* The server advises on the scales of a sheet exactly when both are named and
\* transposing one to the other is not three semitones down (stf.py).
THEOREM HeaderAdviceIsWarranted ==
  ASSUME NEW doc, doc.header.concert \in Seq(ToSet(doc.header.concert)),
         doc.header.alto \in Seq(ToSet(doc.header.alto)),
         \A i \in DOMAIN doc.lines : doc.lines[i].n # Sheet
  PROVE  LET concert == ParsePitchClass(doc.header.concert)
             alto == ParsePitchClass(doc.header.alto)
         IN  <<Sheet, "header">> \in ValidateStf(doc) <=>
               /\ concert # NoPitch /\ alto # NoPitch
               /\ TransposeSemitones(concert, alto) # -3
<1> DEFINE concert == ParsePitchClass(doc.header.concert)
           alto == ParsePitchClass(doc.header.alto)
           noted == {i \in DOMAIN doc.lines : doc.lines[i].kind \in NoteKinds}
           sargam == {i \in noted : doc.lines[i].kind = "sargam"}
           curved == \E i \in noted : \E j \in DOMAIN doc.lines[i].text : Is(doc.lines[i].text[j], "(")
           ofLines == UNION {{<<doc.lines[i].n, w>> : w \in LineWarnings(doc.lines[i].text)} : i \in noted}
           ofScales == {a \in {<<Sheet, "header">>} :
                          NoPitch \notin {concert, alto} /\ (concert + 9) % 12 # alto}
           ofCurves == {a \in {<<Sheet, "noCurves">>} :
                          Cardinality(sargam) >= MinSargamLines /\ ~curved}
<1>1. concert \in {NoPitch} \cup 0 .. 11 /\ alto \in {NoPitch} \cup 0 .. 11
  BY PitchClassType
<1>2. <<Sheet, "header">> \notin ofLines
  <2>1. ASSUME NEW i \in noted, NEW w \in LineWarnings(doc.lines[i].text)
        PROVE  <<Sheet, "header">> # <<doc.lines[i].n, w>>
    BY <2>1
  <2> QED
    BY <2>1
<1>3. <<Sheet, "header">> # <<Sheet, "noCurves">>
  <2>1. "header" # "noCurves"
    OBVIOUS
  <2> QED
    BY <2>1
<1>6. ValidateStf(doc) = ofLines \cup ofScales \cup ofCurves
  BY DEF ValidateStf
<1> HIDE DEF ofLines
<1>4. <<Sheet, "header">> \in ValidateStf(doc) <=>
        NoPitch \notin {concert, alto} /\ (concert + 9) % 12 # alto
  BY <1>2, <1>3, <1>6
<1> HIDE DEF concert, alto
<1>5. ASSUME concert # NoPitch, alto # NoPitch
      PROVE  (concert + 9) % 12 # alto <=> TransposeSemitones(concert, alto) # -3
  BY <1>1, <1>5, AltoBelow
<1> QED
  BY <1>4, <1>5 DEF concert, alto

--------------------------------------------------------------------------------
(* Rows and curves of a sheet. *)

\* A whole ratio rounds to itself.
LEMMA RoundUpExact ==
  ASSUME NEW m \in Nat, NEW b \in Nat \ {0}
  PROVE  RoundUp(m * b, b) = m
<1> DEFINE a == 2 * (m * b) + b
           q == a \div (2 * b)
<1>1. m * b \in Nat /\ a \in Int /\ 2 * b \in Int /\ 2 * b > 0
  OBVIOUS
<1>2. q \in Int /\ a = (2 * b) * q + (a % (2 * b)) /\ a % (2 * b) \in 0 .. 2 * b - 1
  BY <1>1, QuotientType
<1>3. RoundUp(m * b, b) = q
  BY DEF RoundUp
<1> HIDE DEF q
<1>4. (2 * b) * m = 2 * (m * b)
  OBVIOUS
<1>5. q <= m
  <2> SUFFICES ASSUME q >= m + 1 PROVE FALSE
    BY <1>2
  <2>1. (2 * b) * (m + 1) <= (2 * b) * q
    BY <1>2, ProductGrows
  <2>2. (2 * b) * (m + 1) = 2 * (m * b) + 2 * b
    OBVIOUS
  <2> QED
    BY <1>1, <1>2, <2>1, <2>2
<1>6. q >= m
  <2> SUFFICES ASSUME q <= m - 1 PROVE FALSE
    BY <1>2
  <2>1. (2 * b) * q <= (2 * b) * (m - 1)
    BY <1>2, ProductGrows
  <2>2. (2 * b) * (m - 1) = 2 * (m * b) - 2 * b
    OBVIOUS
  <2> QED
    BY <1>1, <1>2, <2>1, <2>2
<1> QED
  BY <1>2, <1>3, <1>5, <1>6

\* The last line of a sheet is shown at the last row (lineBands.ts).
THEOREM LastLineHasLastRow ==
  ASSUME NEW bands \in Nat \ {0}, NEW lineCount \in Nat \ {0, 1}, NEW topExtra \in Int
  PROVE  BandForLine(bands, lineCount - 1, lineCount, topExtra) = bands - 1
<1> DEFINE line == Min({Max({lineCount - 1, 0}), Max({lineCount - 1, 0})})
           extra == Min({Max({topExtra, 0}), Max({bands - lineCount, 0})})
           usable == bands - extra
<1> DEFINE last == lineCount - 1
<1>1. line = lineCount - 1 /\ extra \in 0 .. bands - 1
  <2>1. last \in Int /\ lineCount \in Nat \ {0} /\ ~(last <= 0) /\ last <= lineCount - 1
    OBVIOUS
  <2> HIDE DEF last
  <2>2. LET l == Min({Max({last, 0}), Max({lineCount - 1, 0})})
            e == Min({Max({topExtra, 0}), Max({bands - lineCount, 0})})
        IN  l = last /\ e \in 0 .. bands - 1
    BY <2>1, BandForLineCases
  <2> QED
    BY <2>2 DEF last
<1> HIDE DEF last
<1>2. BandForLine(bands, lineCount - 1, lineCount, topExtra) =
        IF usable <= 1 \/ lineCount <= 1 THEN extra
        ELSE IF usable = lineCount THEN extra + line
        ELSE Min({extra + RoundUp(line * (usable - 1), lineCount - 1), bands - 1})
  BY DEF BandForLine
<1> HIDE DEF line, extra
<1>3. usable \in 1 .. bands /\ extra + usable = bands
  BY <1>1
<1>4. RoundUp(line * (usable - 1), lineCount - 1) = usable - 1
  <2>1. usable - 1 \in Nat /\ lineCount - 1 \in Nat \ {0}
    BY <1>3
  <2>2. line * (usable - 1) = (usable - 1) * (lineCount - 1)
    BY <1>1, <2>1
  <2> QED
    BY <2>1, <2>2, RoundUpExact
<1>5. Min({bands - 1, bands - 1}) = bands - 1
  BY LeastOfTwo
<1> QED
  BY <1>1, <1>2, <1>3, <1>4, <1>5

\* The advice on curves for a sheet of lines without curves and with them.
LEMMA CurveAdvice ==
  ASSUME NEW sheet, sheet.plain \in Nat, sheet.curved \in Nat
  PROVE  <<Sheet, "noCurves">> \in ValidateStf(SheetDoc(sheet)) <=>
           sheet.plain >= MinSargamLines /\ sheet.curved = 0
<1> DEFINE doc == SheetDoc(sheet)
           concert == ParsePitchClass(doc.header.concert)
           alto == ParsePitchClass(doc.header.alto)
           noted == {i \in DOMAIN doc.lines : doc.lines[i].kind \in NoteKinds}
           sargam == {i \in noted : doc.lines[i].kind = "sargam"}
           curved == \E i \in noted : \E j \in DOMAIN doc.lines[i].text : Is(doc.lines[i].text[j], "(")
           ofLines == UNION {{<<doc.lines[i].n, w>> : w \in LineWarnings(doc.lines[i].text)} : i \in noted}
           ofScales == {a \in {<<Sheet, "header">>} :
                          NoPitch \notin {concert, alto} /\ (concert + 9) % 12 # alto}
           ofCurves == {a \in {<<Sheet, "noCurves">>} :
                          Cardinality(sargam) >= MinSargamLines /\ ~curved}
           n == sheet.plain + sheet.curved
<1>1. ValidateStf(doc) = ofLines \cup ofScales \cup ofCurves
  BY DEF ValidateStf
<1>2. doc.lines = [i \in 1 .. n |->
         [n |-> i, kind |-> "sargam",
          text |-> IF i <= sheet.plain THEN <<Sym("-")>>
                   ELSE <<Sym("("), Note("R", <<>>), Note("G", <<>>), Sym(")")>>]]
  BY DEF SheetDoc
<1> HIDE DEF doc
<1>3. DOMAIN doc.lines = 1 .. n
      /\ \A i \in 1 .. n : doc.lines[i].n = i /\ doc.lines[i].kind = "sargam"
  BY <1>2
<1>4. noted = 1 .. n /\ sargam = 1 .. n
  BY <1>3 DEF NoteKinds
<1>5. n \in Nat /\ Cardinality(sargam) = n
  <2>1. n \in Nat
    OBVIOUS
  <2> HIDE DEF n, sargam
  <2> QED
    BY <1>4, <2>1, CountUpTo
<1>6. <<Sheet, "noCurves">> \notin ofLines
  <2>1. ASSUME NEW i \in noted, NEW w \in LineWarnings(doc.lines[i].text)
        PROVE  <<Sheet, "noCurves">> # <<doc.lines[i].n, w>>
    BY <1>3, <1>4 DEF Sheet
  <2> QED
    BY <2>1
<1>7. <<Sheet, "noCurves">> # <<Sheet, "header">>
  <2>1. "header" # "noCurves"
    OBVIOUS
  <2> QED
    BY <2>1
<1>8. ASSUME NEW i \in 1 .. n
      PROVE  (\E j \in DOMAIN doc.lines[i].text : Is(doc.lines[i].text[j], "(")) <=> i > sheet.plain
  <2>1. CASE i <= sheet.plain
    <3>1. doc.lines[i].text = <<Sym("-")>>
      BY <1>2, <2>1
    <3>2. "-" # "("
      OBVIOUS
    <3>3. DOMAIN <<Sym("-")>> = {1} /\ <<Sym("-")>>[1] = Sym("-")
      OBVIOUS
    <3>4. ~ Is(Sym("-"), "(")
      BY <3>2 DEF Is, Sym
    <3> QED
      BY <2>1, <3>1, <3>3, <3>4
  <2>2. CASE i > sheet.plain
    <3>1. doc.lines[i].text = <<Sym("("), Note("R", <<>>), Note("G", <<>>), Sym(")")>>
      BY <1>2, <2>2
    <3>2. Is(Sym("("), "(")
      BY DEF Is, Sym
    <3>3. \A a, b, c, d : 1 \in DOMAIN <<a, b, c, d>> /\ <<a, b, c, d>>[1] = a
      OBVIOUS
    <3> QED
      BY <2>2, <3>1, <3>2, <3>3
  <2> QED
    BY <2>1, <2>2
<1>9. curved <=> sheet.curved # 0
  <2>1. (\E i \in 1 .. n : i > sheet.plain) <=> sheet.curved # 0
    <3>1. CASE sheet.curved # 0
      <4>1. n \in 1 .. n /\ n > sheet.plain
        BY <1>5, <3>1
      <4> QED
        BY <3>1, <4>1
    <3>2. CASE sheet.curved = 0
      BY <3>2
    <3> QED
      BY <3>1, <3>2
  <2> HIDE DEF n, noted
  <2> QED
    BY <1>4, <1>8, <2>1
<1>10. <<Sheet, "noCurves">> \in ValidateStf(doc) <=> Cardinality(sargam) >= MinSargamLines /\ ~curved
  <2> HIDE DEF ofLines, curved, sargam, concert, alto
  <2> QED
    BY <1>1, <1>6, <1>7
<1> HIDE DEF curved, sargam, noted
<1> QED
  BY <1>5, <1>9, <1>10 DEF doc, MinSargamLines

\* With as many rows as lines, every line has its own, whatever rows above the
\* first line are reported.
LEMMA EqualRows ==
  ASSUME NEW bands \in Nat \ {0}, NEW index \in 0 .. bands - 1, NEW topExtra \in Int
  PROVE  BandForLine(bands, index, bands, topExtra) = index
<1> DEFINE line == Min({Max({index, 0}), Max({bands - 1, 0})})
           extra == Min({Max({topExtra, 0}), Max({bands - bands, 0})})
<1>1. index \in Int
  OBVIOUS
<1>2. line = index /\ extra = 0
  <2>1. LET l == Min({Max({index, 0}), Max({bands - 1, 0})})
            e == Min({Max({topExtra, 0}), Max({bands - bands, 0})})
        IN  /\ l = IF index <= 0 THEN 0 ELSE IF index <= bands - 1 THEN index ELSE bands - 1
            /\ bands <= bands => e = 0
    BY <1>1, BandForLineCases
  <2> QED
    BY <2>1
<1>3. BandForLine(bands, index, bands, topExtra) =
        IF bands - extra <= 1 \/ bands <= 1 THEN extra
        ELSE IF bands - extra = bands THEN extra + line
        ELSE Min({extra + RoundUp(line * (bands - extra - 1), bands - 1), bands - 1})
  BY DEF BandForLine
<1> HIDE DEF line, extra
<1> QED
  BY <1>2, <1>3

--------------------------------------------------------------------------------
(* The functions, called. *)

\* What each function answers to its input.
Answer(fn, in) ==
  CASE fn = "full"     -> AnalyzeLines(FullPaper, InkOf(in.levels), in.window, in.minHeight)
    [] fn = "capture"  -> AnalyzeLines(PaperOf(in), InkOfKinds(in), 1, 1)
    [] fn = "otsu"     -> OtsuThreshold(in)
    [] fn = "strokes"  -> StrokeMask(in)
    [] fn = "skew"     -> SkewAngle(Sharpness(in))
    [] fn = "box"      -> FitBox(in, BoxEdge, BoxPixels)
    [] fn = "bands"    -> HorizontalBands(in.h, in.tiles)
    [] fn = "reply"    -> ExtractJson(in)
    [] fn = "stitch"   -> StitchTiles(<<Read(in.page, 1, in.to),
                                        Read(in.page, in.from, Len(in.page))>>)
    [] fn = "page"     -> RecognizeBands(in.hasKey, in.hasSdk,
                            [i \in DOMAIN in.answers |-> AnswerOf(in.answers[i], i)])
    [] fn = "note"     -> TransposeLine(<<in.note>>, in.k)[1]
    [] fn = "line"     -> TransposeLine(in.text, in.k)
    [] fn = "advice"   -> ValidateStf(SheetDoc(in))
    [] fn = "row"      -> [index \in -1 .. in.lines + 1 |->
                             BandForLine(in.bands, index, in.lines, in.topExtra)]
    [] fn = "metrics"  -> EvaluationMetrics(in.expected, in.candidate)
    [] fn = "baseline" -> [o \in Owners |-> RecognitionBaseline(in, o)]
    [] fn = "verdict"  -> Verdict(in.control, in.candidate, in.lowerIsBetter)
    [] fn = "ladder"   -> CompareReports(in.control, in.tiled)

\* A call is of one of the inputs, and answers what its function does.
CallsRan ==
  /\ call = [fn |-> call.fn, in |-> call.in, out |-> call.out]
  /\ call.fn # "none" => /\ call.in \in Inputs[call.fn]
                         /\ call.out \in {Pending, Answer(call.fn, call.in)}

LEMMA CallsKeep ==
  ASSUME NEW fn, Calls(fn)
  PROVE  CallsRan'
<1>1. PICK in \in Inputs[fn] : call' = [fn |-> fn, in |-> in, out |-> Pending]
  BY DEF Calls
<1>2. call'.fn = fn /\ call'.in = in /\ call'.out = Pending
  BY <1>1
<1> QED
  BY <1>1, <1>2, Zenon DEF CallsRan

LEMMA ReturnsKeep ==
  ASSUME CallsRan, NEW fn, fn # "none", Returns(fn, Answer(fn, call.in))
  PROVE  CallsRan'
<1> DEFINE out == Answer(fn, call.in)
<1>1. call.fn = fn /\ call' = [call EXCEPT !.out = out]
  BY DEF Returns
<1> HIDE DEF out
<1>2. call'.fn = fn /\ call'.in = call.in /\ call'.out = out
  BY <1>1 DEF CallsRan
<1>3. call' = [fn |-> call'.fn, in |-> call'.in, out |-> call'.out]
  BY <1>1 DEF CallsRan
<1>4. call.in \in Inputs[fn]
  BY <1>1 DEF CallsRan
<1> QED
  BY <1>2, <1>3, <1>4, Zenon DEF CallsRan, out

LEMMA CallsRun == Spec => []CallsRan
<1>1. Init => CallsRan
  BY DEF Init, NoCall, CallsRan
<1>2. CallsRan /\ [Next]_call => CallsRan'
  <2> SUFFICES ASSUME CallsRan, [Next]_call PROVE CallsRan'
    OBVIOUS
  <2> DEFINE fns == {"full", "capture", "otsu", "strokes", "skew", "box", "bands", "reply", "stitch",
                     "page", "note", "line", "advice", "row", "metrics", "baseline", "verdict", "ladder"}
  <2>1. CASE \E fn \in fns : Calls(fn) \/ Returns(fn, Answer(fn, call.in))
    BY <2>1, CallsKeep, ReturnsKeep
  <2>2. CASE UNCHANGED call
    BY <2>2 DEF CallsRan
  <2>3. CASE AnalyzeFull \/ AnalyzeCapture
    BY <2>1, <2>3 DEF AnalyzeFull, AnalyzeCapture, Answer
  <2>4. CASE ThresholdOf \/ StrokesOf \/ SkewOf
    BY <2>1, <2>4 DEF ThresholdOf, StrokesOf, SkewOf, Answer
  <2>5. CASE BoxOf \/ BandsOf \/ ReplyOf
    BY <2>1, <2>5 DEF BoxOf, BandsOf, ReplyOf, Answer
  <2>6. CASE StitchOf \/ PageOf
    BY <2>1, <2>6 DEF StitchOf, PageOf, Answer
  <2>7. CASE NoteOf \/ LineOf
    BY <2>1, <2>7 DEF NoteOf, LineOf, Answer
  <2>8. CASE AdviceOf \/ RowOf
    BY <2>1, <2>8 DEF AdviceOf, RowOf, Answer
  <2>9. CASE MetricsOf \/ BaselineOf
    BY <2>1, <2>9 DEF MetricsOf, BaselineOf, Answer
  <2>10. CASE VerdictOf \/ LadderOf
    BY <2>1, <2>10 DEF VerdictOf, LadderOf, Answer
  <2> QED
    BY <2>2, <2>3, <2>4, <2>5, <2>6, <2>7, <2>8, <2>9, <2>10, Zenon DEF Next
<1> QED
  BY <1>1, <1>2, PTL DEF Spec

\* What a call that returned has answered.
LEMMA RanIs ==
  ASSUME CallsRan, NEW fn, fn # "none", Ran(fn)
  PROVE  call.in \in Inputs[fn] /\ call.out = Answer(fn, call.in)
BY Zenon DEF CallsRan, Ran

\* Server and reader agree on a text (stf.py, stfTranspose.ts, lineBands.ts):
\* for every note, text, sheet and number of rows and lines they are called on.
THEOREM NotesAreKept == Spec => []NotesKeepTheirMeaning
<1> SUFFICES ASSUME CallsRan PROVE NotesKeepTheirMeaning
  BY CallsRun, PTL
<1>1. WarnedIsNotRotated /\ TranspositionReverses
  <2> SUFFICES ASSUME Ran("note") PROVE WarnedIsNotRotated /\ TranspositionReverses
    BY DEF WarnedIsNotRotated, TranspositionReverses
  <2> DEFINE note == call.in.note
             k == call.in.k
             back == TransposeLine(<<call.out>>, -k)[1]
  <2>1. note \in Notes /\ k \in Int
    BY RanIs, NoteAssumption DEF Interval
  <2>2. call.out = TransposeLine(<<note>>, k)[1]
    BY RanIs DEF Answer
  <2>3. k # 0 => (call.out = note <=> NoteWarnings(note) # {})
    BY <2>1, <2>2, WarnedExactlyWhenKept
  <2>4. LegalNote(note) =>
          /\ Absolute(call.out) = Absolute(note) + k /\ LegalNote(call.out)
          /\ Absolute(back) = Absolute(note)
          /\ note = RenderAbsolute(Absolute(note)) => back = note
    BY <2>1, <2>2, TransposingReverses
  <2> QED
    BY <2>3, <2>4, Zenon DEF WarnedIsNotRotated, TranspositionReverses
<1>2. TranspositionKeepsAdvice
  <2> SUFFICES ASSUME Ran("line") PROVE LineWarnings(call.out) = LineWarnings(call.in.text)
    BY DEF TranspositionKeepsAdvice
  <2>1. IsText(call.in.text) /\ call.in.k \in Int
    BY RanIs, LineAssumption DEF Interval
  <2>2. call.out = TransposeLine(call.in.text, call.in.k)
    BY RanIs DEF Answer
  <2> QED
    BY <2>1, <2>2, AdviceIsKept
<1>3. AdviceIsWarranted
  <2> SUFFICES ASSUME Ran("advice") PROVE AdviceIsWarranted
    BY DEF AdviceIsWarranted
  <2> DEFINE in == call.in
             doc == SheetDoc(in)
  <2>1. /\ in.concert \in Seq(ToSet(in.concert)) /\ in.alto \in Seq(ToSet(in.alto))
        /\ in.plain \in Nat /\ in.curved \in Nat
    BY RanIs, AdviceAssumption
  <2>2. call.out = ValidateStf(doc)
    BY RanIs DEF Answer
  <2>3. /\ doc.header.concert = in.concert /\ doc.header.alto = in.alto
        /\ \A i \in DOMAIN doc.lines : doc.lines[i].n # Sheet
    <3>1. DOMAIN doc.lines = 1 .. in.plain + in.curved
          /\ \A i \in DOMAIN doc.lines : doc.lines[i].n = i
      BY DEF SheetDoc
    <3>2. doc.header.concert = in.concert /\ doc.header.alto = in.alto
      BY DEF SheetDoc
    <3> HIDE DEF doc, in
    <3> QED
      BY <2>1, <3>1, <3>2 DEF Sheet
  <2> HIDE DEF doc
  <2>4. <<Sheet, "header">> \in ValidateStf(doc) <=>
          /\ ParsePitchClass(in.concert) # NoPitch /\ ParsePitchClass(in.alto) # NoPitch
          /\ TransposeSemitones(ParsePitchClass(in.concert), ParsePitchClass(in.alto)) # -3
    BY <2>1, <2>3, HeaderAdviceIsWarranted
  <2>5. <<Sheet, "noCurves">> \in ValidateStf(doc) <=> in.plain >= MinSargamLines /\ in.curved = 0
    BY <2>1, CurveAdvice DEF doc
  <2> QED
    BY <2>2, <2>4, <2>5, Zenon DEF AdviceIsWarranted
<1>4. RowsFollowLines
  <2> SUFFICES ASSUME Ran("row"), call.in.bands > 0 PROVE RowsFollowLines
    BY DEF RowsFollowLines
  <2> DEFINE in == call.in
             Shown(i) == BandForLine(in.bands, i, in.lines, in.topExtra)
  <2>1. in.bands \in Nat \ {0} /\ in.lines \in Nat \ {0} /\ in.topExtra \in Int
    BY RanIs, RowAssumption
  <2>2. call.out = [i \in -1 .. in.lines + 1 |-> Shown(i)]
    BY RanIs DEF Answer
  <2>3. DOMAIN call.out = -1 .. in.lines + 1
    BY <2>2
  <2>4. \A i \in -1 .. in.lines + 1 : call.out[i] = Shown(i) /\ Shown(i) \in 0 .. in.bands - 1
    <3>1. ASSUME NEW i \in -1 .. in.lines + 1 PROVE Shown(i) \in 0 .. in.bands - 1
      <4>1. i \in Int
        BY <2>1
      <4> HIDE DEF in
      <4> QED
        BY <2>1, <4>1, LineHasRow
    <3> HIDE DEF Shown
    <3> QED
      BY <2>2, <3>1
  <2>5. \A i \in -1 .. in.lines : call.out[i] <= call.out[i + 1]
    <3>1. ASSUME NEW i \in -1 .. in.lines PROVE Shown(i) <= Shown(i + 1)
      BY <2>1, ReadingGoesDown
    <3> HIDE DEF Shown
    <3> QED
      BY <2>1, <2>4, <3>1
  <2>6. in.bands = in.lines => \A i \in 0 .. in.lines - 1 : call.out[i] = i
    <3>1. ASSUME in.bands = in.lines, NEW i \in 0 .. in.lines - 1 PROVE Shown(i) = i
      BY <2>1, <3>1, EqualRows
    <3> HIDE DEF Shown
    <3> QED
      BY <2>1, <2>4, <3>1
  <2>7. in.lines > 1 => call.out[in.lines - 1] = in.bands - 1
    <3>1. ASSUME in.lines > 1 PROVE Shown(in.lines - 1) = in.bands - 1
      BY <2>1, <3>1, LastLineHasLastRow
    <3> HIDE DEF Shown
    <3> QED
      BY <2>1, <2>4, <3>1
  <2> QED
    BY <2>3, <2>4, <2>5, <2>6, <2>7 DEF RowsFollowLines
<1> QED
  BY <1>1, <1>2, <1>3, <1>4 DEF NotesKeepTheirMeaning

--------------------------------------------------------------------------------
(* A page cut into bands and read. *)

LEMMA RoundEvenType ==
  ASSUME NEW a \in Int, NEW b \in Nat \ {0}
  PROVE  RoundEven(a, b) \in Int
BY QuotientType DEF RoundEven

\* The bands of the half-page recognizer leave no row out, and a written row no
\* taller than the overlap is whole in one of them (recognition.py), for a page
\* of any height, any number of bands and any overlap: the band is the first
\* whose lower end reaches the row's.
THEOREM BandsHoldEveryRow ==
  ASSUME NEW h \in Nat \ {0}, NEW tiles \in Nat \ {0}, NEW top \in 0 .. h - 1,
         OverlapFraction \in Nat \X (Nat \ {0})
  PROVE  LET row == 2 * (((h * OverlapFraction[1]) \div OverlapFraction[2]) \div 2)
             bands == HorizontalBands(h, tiles)
         IN  \E i \in 1 .. tiles :
                /\ bands[i][1] <= top
                /\ Min({h, Max({top + 1, top + row})}) <= bands[i][2]
<1> DEFINE overlap == (h * OverlapFraction[1]) \div OverlapFraction[2]
           half == overlap \div 2
           Cut(i) == RoundEven(i * h, tiles)
           low == Min({h, Max({top + 1, top + 2 * half})})
           Reaches(i) == i = tiles \/ low <= Cut(i) + half
           reached == {i \in 1 .. tiles : Reaches(i)}
           bands == HorizontalBands(h, tiles)
<1>1. bands = [i \in 1 .. tiles |->
                 <<IF i = 1 THEN 0 ELSE Max({0, Cut(i - 1) - half}),
                   IF i = tiles THEN h ELSE Min({h, Cut(i) + half})>>]
  BY DEF HorizontalBands
<1>2. half \in Nat
  <2>1. OverlapFraction[1] \in Nat /\ OverlapFraction[2] \in Nat \ {0}
    OBVIOUS
  <2>2. h * OverlapFraction[1] \in Nat
    BY <2>1
  <2>3. overlap \in Nat
    <3>1. \A a \in Nat, b \in Nat \ {0} : a \div b \in Nat
      OBVIOUS
    <3> QED
      BY <2>1, <2>2, <3>1
  <2> HIDE DEF overlap
  <2> QED
    BY <2>3
<1> HIDE DEF half, bands
<1>3. \A i \in Int : Cut(i) \in Int
  <2>1. \A i \in Int : i * h \in Int
    OBVIOUS
  <2> QED
    BY <2>1, RoundEvenType
<1> HIDE DEF Cut
<1>4. low \in Int /\ low <= h /\ (half = 0 => low <= top + 1) /\ (half # 0 => low <= top + 2 * half)
  <2> DEFINE m == Max({top + 1, top + 2 * half})
  <2>1. top + 1 \in Int /\ top + 2 * half \in Int /\ h \in Int
    BY <1>2
  <2>2. m = IF top + 1 >= top + 2 * half THEN top + 1 ELSE top + 2 * half
    BY <2>1, GreatestOfTwo
  <2> HIDE DEF m
  <2>3. m \in Int
    BY <2>1, <2>2
  <2>4. Min({h, m}) = IF h <= m THEN h ELSE m
    BY <2>1, <2>3, LeastOfTwo
  <2>5. low = Min({h, m})
    BY DEF m
  <2> HIDE DEF low
  <2> QED
    BY <1>2, <2>1, <2>2, <2>3, <2>4, <2>5
<1> HIDE DEF low
<1>5. PICK i \in reached : \A j \in reached : i <= j
  <2>1. reached \subseteq Nat /\ tiles \in reached
    OBVIOUS
  <2> HIDE DEF reached
  <2> QED
    BY <2>1, LeastNatural
<1>6. i \in 1 .. tiles /\ Reaches(i)
  OBVIOUS
<1>7. bands[i][2] >= low
  <2>1. bands[i][2] = IF i = tiles THEN h ELSE Min({h, Cut(i) + half})
    BY <1>1, <1>6
  <2>2. Min({h, Cut(i) + half}) \in {h, Cut(i) + half}
    BY <1>2, <1>3, <1>6, LeastOfTwo
  <2> QED
    BY <1>2, <1>3, <1>4, <1>6, <2>1, <2>2
<1>8. bands[i][1] <= top
  <2>1. bands[i][1] = IF i = 1 THEN 0 ELSE Max({0, Cut(i - 1) - half})
    BY <1>1, <1>6
  <2>2. CASE i = 1
    BY <2>1, <2>2
  <2>3. CASE i # 1
    <3>1. i - 1 \in 1 .. tiles /\ i - 1 \notin reached
      BY <1>5, <1>6, <2>3
    <3>2. ~ (low <= Cut(i - 1) + half) /\ Cut(i - 1) \in Int
      BY <1>3, <3>1
    <3>3. Cut(i - 1) - half <= top
      BY <1>2, <1>4, <3>2
    <3>4. Max({0, Cut(i - 1) - half}) = IF 0 >= Cut(i - 1) - half THEN 0 ELSE Cut(i - 1) - half
      BY <1>2, <3>2, GreatestOfTwo
    <3> QED
      BY <2>1, <2>3, <3>3, <3>4
  <2> QED
    BY <2>2, <2>3
<1> QED
  BY <1>6, <1>7, <1>8 DEF low, half, bands

\* An answer that can be used.
Readable(answer) ==
  /\ ~answer.error /\ answer.stop \notin {"max_tokens", "refusal"}
  /\ answer.json \notin {InvalidJson, "value"}

\* A page comes whole or not at all (recognition.py): with a client and every
\* band read, or with no line and the code of the first thing that failed.
THEOREM PageIsWhole ==
  ASSUME NEW hasKey \in BOOLEAN, NEW hasSdk \in BOOLEAN, NEW answers, NEW n \in Nat,
         DOMAIN answers = 1 .. n,
         \A i \in 1 .. n : answers[i].stop # "ok"
  PROVE  LET page == RecognizeBands(hasKey, hasSdk, answers)
             unread == {i \in 1 .. n : ~Readable(answers[i])}
         IN  /\ page.code = "ok" <=> hasKey /\ hasSdk /\ unread = {}
             /\ page.code # "ok" => page.lines = <<>> /\ page.tokens = 0
             /\ hasKey /\ hasSdk /\ unread # {} =>
                  \E i \in unread : /\ \A j \in unread : i <= j
                                    /\ page.code = RecognizeImage(answers[i])
<1> DEFINE page == RecognizeBands(hasKey, hasSdk, answers)
           unread == {i \in 1 .. n : ~Readable(answers[i])}
           failed == {i \in DOMAIN answers : RecognizeImage(answers[i]) # "ok"}
<1>1. \A i \in 1 .. n : RecognizeImage(answers[i]) = "ok" <=> Readable(answers[i])
  BY DEF RecognizeImage, Readable, InvalidJson
<1>2. failed = unread
  BY <1>1
<1>3. BuildClient(hasKey, hasSdk) = "ok" <=> hasKey /\ hasSdk
  BY DEF BuildClient
<1>4. CASE ~(hasKey /\ hasSdk)
  <2>1. page = Failed(BuildClient(hasKey, hasSdk))
    BY <1>3, <1>4 DEF RecognizeBands
  <2>2. BuildClient(hasKey, hasSdk) # "ok"
    BY <1>3, <1>4
  <2> HIDE DEF failed, unread, page
  <2>3. page.code = BuildClient(hasKey, hasSdk) /\ page.lines = <<>> /\ page.tokens = 0
    BY <2>1 DEF Failed
  <2> QED
    BY <1>4, <2>2, <2>3 DEF page
<1>5. CASE hasKey /\ hasSdk /\ failed # {}
  <2>1. page = Failed(RecognizeImage(answers[Min(failed)]))
    BY <1>3, <1>5 DEF RecognizeBands
  <2>2. Min(failed) \in failed /\ \A j \in failed : Min(failed) <= j
    <3>1. failed \subseteq 1 .. n /\ IsFiniteSet(1 .. n)
      BY FS_Interval
    <3>2. failed \in SUBSET Int /\ IsFiniteSet(failed)
      BY <3>1, FS_Subset
    <3> HIDE DEF failed
    <3> QED
      BY <1>5, <3>2, MinIs
  <2>3. RecognizeImage(answers[Min(failed)]) # "ok"
    BY <2>2
  <2> HIDE DEF failed, unread, page
  <2>4. page.code = RecognizeImage(answers[Min(failed)]) /\ page.lines = <<>> /\ page.tokens = 0
    BY <2>1 DEF Failed
  <2> QED
    BY <1>2, <1>5, <2>2, <2>3, <2>4 DEF page, unread
<1>6. CASE hasKey /\ hasSdk /\ failed = {}
  <2>1. page.code = "ok"
    BY <1>3, <1>6 DEF RecognizeBands
  <2> HIDE DEF page
  <2> QED
    BY <1>2, <1>6, <2>1 DEF page
<1> QED
  BY <1>4, <1>5, <1>6

\* What is taken from a reply without its fence.
Taken(body) ==
  LET opens == Positions(body, "open")
      closes == Positions(body, "close")
      span == IF opens # {} /\ closes # {} THEN SubSeq(body, Min(opens), Max(closes)) ELSE <<>>
  IN IF IsJson(body) THEN body ELSE IF IsJson(span) THEN span ELSE InvalidJson

LEMMA ObjectTaken ==
  ASSUME NEW S, NEW body \in Seq(S), NEW o, NEW c,
         Positions(body, "open") = {o}, Positions(body, "close") = {c}, IsObject(SubSeq(body, o, c))
  PROVE  Taken(body) = SubSeq(body, o, c)
<1>1. /\ o \in 1 .. Len(body) /\ body[o] = "open" /\ c \in 1 .. Len(body) /\ body[c] = "close"
      /\ \A i \in 1 .. Len(body) : (body[i] = "open" => i = o) /\ (body[i] = "close" => i = c)
  BY DEF Positions
<1>2. Min({o}) = o /\ Max({c}) = c
  BY <1>1 DEF Min, Max
<1>3. CASE IsObject(body)
  <2>1. Len(body) >= 2 /\ body[1] = "open" /\ body[Len(body)] = "close"
    BY <1>3 DEF IsObject
  <2>2. o = 1 /\ c = Len(body)
    BY <1>1, <2>1
  <2> QED
    BY <1>3, <2>2, SubSeqFull DEF Taken, IsJson
<1>4. CASE ~IsObject(body)
  <2>1. body # <<"value">>
    BY <1>1
  <2> QED
    BY <1>2, <1>4, <2>1 DEF Taken, IsJson
<1> QED
  BY <1>3, <1>4

\* A stretch of a sequence moved by k places is that stretch of the whole.
LEMMA ShiftedStretch ==
  ASSUME NEW S, NEW text \in Seq(S), NEW body \in Seq(S), NEW k \in Nat,
         \A i \in 1 .. Len(body) : i + k \in 1 .. Len(text) /\ body[i] = text[i + k],
         NEW o \in Int, NEW c \in Int, k < o, o <= c, c - k <= Len(body)
  PROVE  SubSeq(body, o - k, c - k) = SubSeq(text, o, c)
<1> DEFINE part == SubSeq(body, o - k, c - k)
           whole == SubSeq(text, o, c)
<1>1. /\ part \in Seq(S) /\ Len(part) = c - o + 1
      /\ \A i \in 1 .. c - o + 1 : part[i] = body[o - k + i - 1]
  <2>1. \A i \in o - k .. c - k : body[i] \in S
    OBVIOUS
  <2>2. o - k \in Int /\ c - k \in Int /\ o - k <= c - k /\ (c - k) - (o - k) + 1 = c - o + 1
    OBVIOUS
  <2> QED
    BY <2>1, <2>2, SubSeqProperties
<1>2. \A i \in o .. c : text[i] \in S /\ i - k \in 1 .. Len(body) /\ text[i] = body[i - k]
  OBVIOUS
<1>3. /\ whole \in Seq(S) /\ Len(whole) = c - o + 1
      /\ \A i \in 1 .. c - o + 1 : whole[i] = text[o + i - 1]
  BY <1>2, SubSeqProperties
<1> HIDE DEF part, whole
<1>4. ASSUME NEW i \in 1 .. c - o + 1 PROVE part[i] = whole[i]
  <2>1. o + i - 1 \in o .. c /\ (o + i - 1) - k = o - k + i - 1
    OBVIOUS
  <2> QED
    BY <1>1, <1>2, <1>3, <2>1
<1>5. part = whole
  BY <1>1, <1>3, <1>4, SeqEqual
<1> QED
  BY <1>5 DEF part, whole

\* Without a fence a reply is itself; with one, what follows the fence and its
\* tag up to the next.
Body(text) == IF text # <<>> /\ Head(text) = "fence" THEN Unfenced(text) ELSE text

LEMMA BodyIsStretch ==
  ASSUME NEW S, NEW text \in Seq(S), NEW o \in 1 .. Len(text), NEW c \in o .. Len(text),
         text[o] = "open",
         \/ text[1] # "fence"
         \/ \A f \in Positions(text, "fence") \ {1} : f > c
  PROVE  /\ Body(text) \in Seq(S)
         /\ \E k \in Nat : /\ k < o /\ c - k <= Len(Body(text))
                           /\ \A i \in 1 .. Len(Body(text)) :
                                 i + k \in 1 .. Len(text) /\ Body(text)[i] = text[i + k]
<1>1. text # <<>> /\ Head(text) = text[1]
  OBVIOUS
<1>2. CASE text[1] # "fence"
  <2>1. Body(text) = text
    BY <1>1, <1>2 DEF Body
  <2>2. 0 < o /\ c - 0 <= Len(text) /\ \A i \in 1 .. Len(text) : i + 0 \in 1 .. Len(text) /\ text[i] = text[i + 0]
    OBVIOUS
  <2> QED
    BY <2>1, <2>2
<1>3. CASE text[1] = "fence"
  <2> DEFINE rest == Tail(text)
             ends == Positions(rest, "fence")
             inner == IF ends = {} THEN rest ELSE SubSeq(rest, 1, Min(ends) - 1)
  <2>1. /\ rest \in Seq(S) /\ Len(rest) = Len(text) - 1
        /\ \A i \in 1 .. Len(rest) : rest[i] = text[i + 1]
    BY <1>1, HeadTailProperties
  <2>2. o # 1
    BY <1>3
  <2> HIDE DEF rest
  <2>3. ends # {} => Min(ends) \in 1 .. Len(rest) /\ Min(ends) >= c
    <3>1. ends \subseteq 1 .. Len(rest)
      BY <2>1 DEF Positions
    <3>2. \A e \in ends : e >= c
      <4> SUFFICES ASSUME NEW e \in ends PROVE e >= c
        OBVIOUS
      <4>1. e \in 1 .. Len(rest) /\ rest[e] = "fence"
        BY <2>1 DEF Positions
      <4>2. e + 1 \in Positions(text, "fence") \ {1}
        BY <2>1, <4>1 DEF Positions
      <4> QED
        BY <1>3, <4>1, <4>2
    <3> HIDE DEF ends
    <3>3. ends \in SUBSET Int /\ IsFiniteSet(ends)
      <4>1. IsFiniteSet(1 .. Len(rest))
        BY <2>1, FS_Interval
      <4>2. IsFiniteSet(ends)
        BY <3>1, <4>1, FS_Subset, Zenon
      <4> QED
        BY <2>1, <3>1, <4>2
    <3> QED
      BY <3>1, <3>2, <3>3, MinIs
  <2>4. /\ inner \in Seq(S) /\ Len(inner) <= Len(rest) /\ Len(inner) >= c - 1
        /\ \A i \in 1 .. Len(inner) : inner[i] = text[i + 1]
    <3>1. CASE ends = {}
      BY <2>1, <3>1
    <3>2. CASE ends # {}
      <4> DEFINE m == Min(ends)
      <4>1. inner = SubSeq(rest, 1, m - 1) /\ m \in 1 .. Len(rest) /\ m >= c
        BY <2>3, <3>2
      <4> HIDE DEF ends, m, inner
      <4>2. /\ inner \in Seq(S) /\ Len(inner) = m - 1
            /\ \A i \in 1 .. m - 1 : inner[i] = rest[i]
        <5>1. \A i \in 1 .. m - 1 : rest[i] \in S
          BY <2>1, <4>1
        <5>2. m - 1 \in Int /\ 1 \in Int
          BY <4>1
        <5>3. /\ SubSeq(rest, 1, m - 1) \in Seq(S)
              /\ Len(SubSeq(rest, 1, m - 1)) = IF 1 <= m - 1 THEN m - 1 - 1 + 1 ELSE 0
              /\ \A i \in 1 .. m - 1 - 1 + 1 : SubSeq(rest, 1, m - 1)[i] = rest[1 + i - 1]
          BY <5>1, <5>2, SubSeqProperties
        <5> QED
          BY <4>1, <5>3
      <4> QED
        BY <2>1, <4>1, <4>2
    <3> QED
      BY <3>1, <3>2
  <2>5. Unfenced(text) = IF inner # <<>> /\ Head(inner) = "json" THEN Tail(inner) ELSE inner
    BY DEF Unfenced, rest
  <2>6. Body(text) = Unfenced(text)
    BY <1>1, <1>3 DEF Body
  <2> HIDE DEF inner
  <2>7. CASE inner # <<>> /\ Head(inner) = "json"
    <3>1. /\ Tail(inner) \in Seq(S) /\ Len(Tail(inner)) = Len(inner) - 1
          /\ \A i \in 1 .. Len(Tail(inner)) : Tail(inner)[i] = inner[i + 1]
      BY <2>4, <2>7, HeadTailProperties
    <3>2. Len(inner) >= 1 /\ text[2] = "json"
      BY <2>4, <2>7
    <3>3. o # 2
      BY <3>2
    <3> DEFINE body == Tail(inner)
    <3>4. body = Body(text)
      BY <2>5, <2>6, <2>7
    <3> HIDE DEF body
    <3>5. 2 < o /\ c - 2 <= Len(body)
      BY <2>2, <2>4, <3>1, <3>3 DEF body
    <3>6. ASSUME NEW i \in 1 .. Len(body) PROVE i + 2 \in 1 .. Len(text) /\ body[i] = text[i + 2]
      <4>1. i + 1 \in 1 .. Len(inner) /\ body[i] = inner[i + 1]
        BY <2>4, <3>1 DEF body
      <4>2. inner[i + 1] = text[(i + 1) + 1] /\ (i + 1) + 1 = i + 2
        BY <2>4, <4>1
      <4> QED
        BY <2>1, <2>4, <4>1, <4>2
    <3>7. body \in Seq(S)
      BY <3>1 DEF body
    <3> QED
      BY <3>4, <3>5, <3>6, <3>7
  <2>8. CASE ~(inner # <<>> /\ Head(inner) = "json")
    <3>1. Body(text) = inner
      BY <2>5, <2>6, <2>8
    <3>2. 1 < o /\ c - 1 <= Len(inner) /\ \A i \in 1 .. Len(inner) : i + 1 \in 1 .. Len(text) /\ inner[i] = text[i + 1]
      BY <2>1, <2>2, <2>4
    <3> QED
      BY <2>4, <3>1, <3>2
  <2> QED
    BY <2>7, <2>8
<1> QED
  BY <1>2, <1>3

\* The one object of a model's reply is found whatever words stand around it,
\* in a fence with or without a tag or without one, unless the reply begins with
\* a fence that closes before the object does (recognition.py).
THEOREM OneObjectIsFound ==
  ASSUME NEW S, NEW text \in Seq(S), NEW o, NEW c,
         Positions(text, "open") = {o}, Positions(text, "close") = {c}, IsObject(SubSeq(text, o, c)),
         \/ 1 \notin Positions(text, "fence")
         \/ \A f \in Positions(text, "fence") \ {1} : f > c
  PROVE  ExtractJson(text) = SubSeq(text, o, c)
<1> DEFINE body == Body(text)
<1>1. /\ o \in 1 .. Len(text) /\ text[o] = "open" /\ c \in 1 .. Len(text) /\ text[c] = "close"
      /\ \A i \in 1 .. Len(text) : (text[i] = "open" => i = o) /\ (text[i] = "close" => i = c)
  BY DEF Positions
<1>2. o <= c
  <2>1. SUFFICES ASSUME c < o PROVE FALSE
    BY <1>1
  <2>2. SubSeq(text, o, c) = <<>>
    BY <1>1, <2>1, SubSeqEmpty
  <2> QED
    BY <2>2 DEF IsObject
<1>3. ExtractJson(text) = Taken(body)
  BY Zenon DEF ExtractJson, Taken, Body
<1>4. text[1] # "fence" \/ \A f \in Positions(text, "fence") \ {1} : f > c
  BY <1>1 DEF Positions
<1>5. /\ body \in Seq(S)
      /\ \E k \in Nat : /\ k < o /\ c - k <= Len(body)
                        /\ \A i \in 1 .. Len(body) : i + k \in 1 .. Len(text) /\ body[i] = text[i + k]
  <2>1. o \in 1 .. Len(text) /\ c \in o .. Len(text) /\ text[o] = "open"
    BY <1>1, <1>2
  <2> QED
    BY <1>4, <2>1, BodyIsStretch, Zenon
<1> HIDE DEF body
<1>6. PICK k \in Nat : /\ k < o /\ c - k <= Len(body)
                       /\ \A i \in 1 .. Len(body) : i + k \in 1 .. Len(text) /\ body[i] = text[i + k]
  BY <1>5
<1>7. SubSeq(body, o - k, c - k) = SubSeq(text, o, c)
  BY <1>1, <1>2, <1>5, <1>6, ShiftedStretch
<1>8. /\ o - k \in 1 .. Len(body) /\ c - k \in 1 .. Len(body)
      /\ \A i \in 1 .. Len(body) : /\ body[i] = "open" <=> i = o - k
                                   /\ body[i] = "close" <=> i = c - k
  <2>1. o - k \in 1 .. Len(body) /\ c - k \in 1 .. Len(body)
    BY <1>1, <1>2, <1>5, <1>6
  <2>2. ASSUME NEW i \in 1 .. Len(body)
        PROVE  (body[i] = "open" <=> i = o - k) /\ (body[i] = "close" <=> i = c - k)
    <3>1. i + k \in 1 .. Len(text) /\ body[i] = text[i + k]
      BY <1>6
    <3>2. text[i + k] = "open" <=> i + k = o
      BY <1>1, <3>1
    <3>3. text[i + k] = "close" <=> i + k = c
      BY <1>1, <3>1
    <3> QED
      BY <1>1, <3>1, <3>2, <3>3
  <2> QED
    BY <2>1, <2>2
<1>9. Positions(body, "open") = {o - k} /\ Positions(body, "close") = {c - k}
  <2>1. DOMAIN body = 1 .. Len(body)
    BY <1>5
  <2> QED
    BY <1>8, <2>1 DEF Positions
<1>10. Taken(body) = SubSeq(body, o - k, c - k)
  BY <1>5, <1>7, <1>9, ObjectTaken
<1> QED
  BY <1>3, <1>7, <1>10

\* Two objects in a reply without a fence are never taken for one
\* (recognition.py): a brace closed twice after the first opening one is an
\* answer that is not JSON.
THEOREM TwoObjectsAreNone ==
  ASSUME NEW S, NEW text \in Seq(S), 1 \notin Positions(text, "fence"),
         NEW a \in Positions(text, "open"), NEW b \in Positions(text, "close"),
         NEW d \in Positions(text, "close"), a < b, b < d
  PROVE  ExtractJson(text) = InvalidJson
<1> DEFINE opens == Positions(text, "open")
           closes == Positions(text, "close")
           span == SubSeq(text, Min(opens), Max(closes))
<1>1. opens \subseteq 1 .. Len(text) /\ closes \subseteq 1 .. Len(text)
  BY DEF Positions
<1>2. a \in 1 .. Len(text) /\ b \in 1 .. Len(text) /\ d \in 1 .. Len(text) /\ text[b] = "close"
  BY DEF Positions
<1>3. text # <<>> /\ Head(text) # "fence"
  BY <1>2 DEF Positions
<1>4. ~IsJson(text)
  <2>1. b \in 2 .. Len(text) - 1
    BY <1>2
  <2>2. text # <<"value">>
    BY <1>2
  <2> QED
    BY <1>2, <2>1, <2>2 DEF IsObject, IsJson
<1>5. /\ Min(opens) \in 1 .. Len(text) /\ Min(opens) <= a
      /\ Max(closes) \in 1 .. Len(text) /\ Max(closes) >= d
  <2>2. opens # {} /\ closes # {} /\ a \in opens /\ d \in closes
    OBVIOUS
  <2> HIDE DEF opens, closes
  <2>1. opens \in SUBSET Int /\ closes \in SUBSET Int /\ IsFiniteSet(opens) /\ IsFiniteSet(closes)
    <3>1. IsFiniteSet(1 .. Len(text))
      BY FS_Interval
    <3>2. IsFiniteSet(opens) /\ IsFiniteSet(closes)
      BY <1>1, <3>1, FS_Subset, Zenon
    <3> QED
      BY <1>1, <3>2
  <2> QED
    BY <1>1, <2>1, <2>2, MinIs, MaxIs
<1>6. ~IsJson(span)
  <2> DEFINE lo == Min(opens)
             hi == Max(closes)
             j == b - lo + 1
  <2>1. lo \in 1 .. Len(text) /\ hi \in 1 .. Len(text) /\ lo < b /\ b < hi
    BY <1>2, <1>5
  <2> HIDE DEF opens, closes, lo, hi
  <2>2. /\ Len(SubSeq(text, lo, hi)) = hi - lo + 1
        /\ \A i \in 1 .. hi - lo + 1 : SubSeq(text, lo, hi)[i] = text[lo + i - 1]
    <3>1. \A i \in lo .. hi : text[i] \in S
      BY <2>1
    <3>2. lo \in Int /\ hi \in Int /\ lo <= hi
      BY <1>2, <2>1
    <3> QED
      BY <3>1, <3>2, SubSeqProperties
  <2>3. j \in 2 .. hi - lo /\ lo + j - 1 = b
    BY <1>2, <2>1
  <2>4. SubSeq(text, lo, hi)[j] = "close"
    <3>1. j \in 1 .. hi - lo + 1
      BY <2>1, <2>3
    <3> HIDE DEF j
    <3> QED
      BY <1>2, <2>2, <2>3, <3>1
  <2>5. j \in 2 .. Len(SubSeq(text, lo, hi)) - 1
    BY <2>1, <2>2, <2>3
  <2> HIDE DEF j
  <2>6. ~IsJson(SubSeq(text, lo, hi))
    <3>1. ~IsObject(SubSeq(text, lo, hi))
      BY <2>4, <2>5 DEF IsObject
    <3>2. Len(SubSeq(text, lo, hi)) # 1
      BY <1>2, <2>1, <2>2
    <3>3. Len(<<"value">>) = 1
      OBVIOUS
    <3> QED
      BY <3>1, <3>2, <3>3, Zenon DEF IsJson
  <2> QED
    BY <2>6 DEF lo, hi
<1>7. opens # {} /\ closes # {}
  OBVIOUS
<1>8. ExtractJson(text) = IF IsJson(text) THEN text ELSE IF IsJson(span) THEN span ELSE InvalidJson
  BY <1>3, <1>7, Zenon DEF ExtractJson
<1> QED
  BY <1>4, <1>6, <1>8

--------------------------------------------------------------------------------
(* The size an image is sent at. *)

LEMMA ProductType == ASSUME NEW a \in Nat, NEW b \in Nat PROVE a * b \in Nat
OBVIOUS

LEMMA ProductsGrow ==
  ASSUME NEW a \in Nat, NEW b \in Nat, NEW c \in Nat, NEW d \in Nat, a <= c, b <= d
  PROVE  a * b <= c * d
<1>1. a * b <= a * d
  BY ProductGrows
<1>2. d * a <= d * c
  BY ProductGrows
<1>3. d * a = a * d /\ d * c = c * d
  OBVIOUS
<1> QED
  BY <1>1, <1>2, <1>3, ProductType

LEMMA ProductCancels ==
  ASSUME NEW a \in Nat, NEW b \in Nat, NEW m \in Nat \ {0}, a * m <= b * m
  PROVE  a <= b
<1> SUFFICES ASSUME b + 1 <= a PROVE FALSE
  OBVIOUS
<1>1. (b + 1) * m <= a * m
  BY ProductsGrow
<1>2. (b + 1) * m = b * m + m
  OBVIOUS
<1> QED
  BY <1>1, <1>2, ProductType

\* The root of a square is not beyond that of a larger one.
LEMMA RootsGrow ==
  ASSUME NEW a \in Nat, NEW b \in Nat, a * a <= b * b
  PROVE  a <= b
<1> SUFFICES ASSUME b + 1 <= a PROVE FALSE
  OBVIOUS
<1>1. (b + 1) * (b + 1) <= a * a
  BY ProductsGrow
<1>2. (b + 1) * (b + 1) = b * b + 2 * b + 1
  OBVIOUS
<1> QED
  BY <1>1, <1>2, ProductType

LEMMA Regroup ==
  ASSUME NEW a \in Nat, NEW b \in Nat, NEW c \in Nat, NEW d \in Nat
  PROVE  /\ (a * b) * (c * d) = (a * c) * (b * d)
         /\ (a * b) * c = a * (b * c)
         /\ (a * b) * c = (a * c) * b
OBVIOUS

LEMMA RootIs ==
  ASSUME NEW a \in Nat, NEW b \in Nat \ {0}
  PROVE  LET r == RootOf(a, b)
         IN  r \in Nat /\ (r * r) * b <= a /\ ((r + 1) * (r + 1)) * b > a
<1> DEFINE small == {s \in 0 .. a : (s * s) * b <= a}
           m == Max(small)
<1>1. m \in small /\ \A s \in small : m >= s
  <2>1. 0 \in small
    OBVIOUS
  <2>2. IsFiniteSet(0 .. a) /\ small \subseteq 0 .. a
    BY FS_Interval
  <2>3. IsFiniteSet(small) /\ small \in SUBSET Int
    BY <2>2, FS_Subset
  <2> HIDE DEF small
  <2> QED
    BY <2>1, <2>3, MaxIs
<1> HIDE DEF m
<1>2. m \in 0 .. a /\ (m * m) * b <= a
  BY <1>1
<1>3. ((m + 1) * (m + 1)) * b > a
  <2>1. CASE m + 1 <= a
    <3>1. m + 1 \notin small
      BY <1>1, <1>2
    <3>2. m + 1 \in 0 .. a
      BY <1>2, <2>1
    <3>3. ((m + 1) * (m + 1)) * b \in Nat
      BY <1>2, ProductType
    <3> QED
      BY <3>1, <3>2, <3>3
  <2>2. CASE m = a
    <3>1. (m + 1) * 1 <= (m + 1) * (m + 1)
      BY <1>2, ProductsGrow
    <3>2. ((m + 1) * (m + 1)) * 1 <= ((m + 1) * (m + 1)) * b
      BY <1>2, ProductsGrow, ProductType
    <3>3. (m + 1) * (m + 1) \in Nat /\ ((m + 1) * (m + 1)) * b \in Nat
      BY <1>2, ProductType
    <3> QED
      BY <1>2, <2>2, <3>1, <3>2, <3>3
  <2> QED
    BY <1>2, <2>1, <2>2
<1>4. \E s \in 0 .. a : (s * s) * b <= a /\ ((s + 1) * (s + 1)) * b > a
  BY <1>2, <1>3
<1> DEFINE r == RootOf(a, b)
<1>5. r \in 0 .. a /\ (r * r) * b <= a /\ ((r + 1) * (r + 1)) * b > a
  BY <1>4, Zenon DEF RootOf
<1> HIDE DEF r
<1> QED
  BY <1>5 DEF r

LEMMA GreatestOfThree ==
  ASSUME NEW a \in Int, NEW b \in Int, NEW c \in Int
  PROVE  LET m == Max({a, b, c}) IN m \in {a, b, c} /\ a <= m /\ b <= m /\ c <= m
<1> DEFINE S == {a, b, c}
<1>1. S \in SUBSET Int /\ S # {}
  OBVIOUS
<1>2. IsFiniteSet(S)
  <2>1. IsFiniteSet({a}) /\ IsFiniteSet({b}) /\ IsFiniteSet({c})
    BY FS_Singleton
  <2>2. S = {a} \cup ({b} \cup {c})
    OBVIOUS
  <2> QED
    BY <2>1, <2>2, FS_Union
<1>3. Max(S) \in S /\ \A y \in S : Max(S) >= y
  BY <1>1, <1>2, MaxIs
<1>4. Max(S) \in Int /\ a \in S /\ b \in S /\ c \in S
  BY <1>1, <1>3
<1> DEFINE m == Max(S)
<1>5. m \in S /\ m >= a /\ m >= b /\ m >= c /\ m \in Int
  BY <1>3, <1>4
<1> HIDE DEF m
<1> QED
  BY <1>5 DEF m

\* One side scaled by the long edge.
LEMMA ScaledSide ==
  ASSUME NEW w \in Nat \ {0}, NEW cap \in Nat \ {0}, NEW edge \in Nat \ {0}, w <= edge, cap <= edge
  PROVE  LET q == (w * cap) \div edge
         IN  /\ q \in Nat /\ q * edge <= w * cap /\ w * cap < (q + 1) * edge
             /\ q <= cap /\ q <= w
<1> DEFINE q == (w * cap) \div edge
<1>1. w * cap \in Nat
  OBVIOUS
<1>2. q \in Nat /\ w * cap = edge * q + ((w * cap) % edge) /\ (w * cap) % edge \in 0 .. edge - 1
  <2>1. \A a \in Nat, b \in Nat \ {0} :
          a \div b \in Nat /\ a = b * (a \div b) + (a % b) /\ a % b \in 0 .. b - 1
    OBVIOUS
  <2> QED
    BY <1>1, <2>1
<1> HIDE DEF q
<1>3. q * edge <= w * cap /\ w * cap < (q + 1) * edge
  <2>1. (q + 1) * edge = edge * q + edge /\ q * edge = edge * q /\ edge * q \in Nat
    BY <1>2
  <2> QED
    BY <1>1, <1>2, <2>1
<1>4. q <= cap
  <2>1. w * cap <= edge * cap
    BY ProductsGrow
  <2>2. q * edge <= cap * edge
    BY <1>1, <1>2, <1>3, <2>1, ProductType
  <2> QED
    BY <1>2, <2>2, ProductCancels
<1>5. q <= w
  <2>1. w * cap <= w * edge
    BY ProductsGrow
  <2>2. q * edge <= w * edge
    BY <1>1, <1>2, <1>3, <2>1, ProductType
  <2> QED
    BY <1>2, <2>2, ProductCancels
<1> QED
  BY <1>2, <1>3, <1>4, <1>5 DEF q

\* One side by the root of the area's ratio, when the scaled area is too large.
LEMMA RootedSide ==
  ASSUME NEW w \in Nat \ {0}, NEW h \in Nat \ {0}, NEW cap \in Nat \ {0}, NEW area \in Nat \ {0},
         NEW edge \in Nat, w <= edge, cap <= edge,
         w * h * cap * cap > area * edge * edge
  PROVE  LET r == RootOf(area * w, h)
         IN  r \in Nat /\ r <= cap /\ r <= w
<1> DEFINE r == RootOf(area * w, h)
<1>1. area * w \in Nat
  OBVIOUS
<1>2. r \in Nat /\ (r * r) * h <= area * w
  BY <1>1, RootIs
<1> HIDE DEF r
<1>3. area * (edge * edge) < (w * h) * (cap * cap)
  <2>1. w * h * cap * cap = (w * h) * (cap * cap) /\ area * edge * edge = area * (edge * edge)
    BY Regroup, ProductType
  <2> QED
    BY <2>1
<1>4. r <= cap
  <2> SUFFICES ASSUME cap + 1 <= r PROVE FALSE
    BY <1>2
  <2>1. (cap * cap) * h <= (r * r) * h
    <3>1. cap <= r
      BY <1>2
    <3>2. cap * cap <= r * r
      BY <1>2, <3>1, ProductsGrow
    <3> QED
      BY <1>2, <3>2, ProductsGrow, ProductType
  <2>2. ((cap * cap) * h) * w <= (area * w) * w
    <3>1. (cap * cap) * h \in Nat /\ (r * r) * h \in Nat
      BY <1>2, ProductType
    <3>2. (cap * cap) * h <= area * w
      BY <1>1, <1>2, <2>1, <3>1
    <3> QED
      BY <1>1, <3>1, <3>2, ProductsGrow
  <2>3. area * (w * w) <= area * (edge * edge)
    BY ProductsGrow, ProductType
  <2>4. ((cap * cap) * h) * w = (w * h) * (cap * cap) /\ (area * w) * w = area * (w * w)
    BY Regroup
  <2>5. (w * h) * (cap * cap) \in Nat /\ area * (w * w) \in Nat /\ area * (edge * edge) \in Nat
    BY ProductType
  <2> QED
    BY <1>3, <2>2, <2>3, <2>4, <2>5
<1>5. r <= w
  <2> SUFFICES ASSUME w + 1 <= r PROVE FALSE
    BY <1>2
  <2>1. area < w * h
    <3>1. area * (cap * cap) <= area * (edge * edge)
      BY ProductsGrow, ProductType
    <3>2. ASSUME w * h <= area PROVE FALSE
      <4>1. (w * h) * (cap * cap) <= area * (cap * cap)
        BY <3>2, ProductsGrow, ProductType
      <4>2. /\ (w * h) * (cap * cap) \in Nat /\ area * (cap * cap) \in Nat
            /\ area * (edge * edge) \in Nat
        BY ProductType
      <4> QED
        BY <1>3, <3>1, <4>1, <4>2
    <3> QED
      BY <3>2, ProductType
  <2>2. (w * w) * h <= (r * r) * h
    <3>1. w <= r
      BY <1>2
    <3>2. w * w <= r * r
      BY <1>2, <3>1, ProductsGrow
    <3> QED
      BY <1>2, <3>2, ProductsGrow, ProductType
  <2>3. (w * h) * w <= area * w
    <3>1. (w * w) * h = (w * h) * w
      BY Regroup
    <3>2. (w * w) * h \in Nat /\ (r * r) * h \in Nat
      BY <1>2, ProductType
    <3> QED
      BY <1>1, <1>2, <2>2, <3>1, <3>2
  <2>4. w * h <= area
    BY <2>3, ProductCancels, ProductType
  <2> QED
    BY <2>1, <2>4, ProductType
<1> QED
  BY <1>2, <1>4, <1>5 DEF r

LEMMA ScaledArea ==
  ASSUME NEW w \in Nat, NEW h \in Nat, NEW cap \in Nat, NEW area \in Nat,
         NEW edge \in Nat \ {0}, NEW p \in Nat, NEW q \in Nat,
         p * edge <= w * cap, q * edge <= h * cap,
         (w * h) * (cap * cap) <= area * (edge * edge)
  PROVE  p * q <= area
<1>1. (p * edge) * (q * edge) <= (w * cap) * (h * cap)
  BY ProductsGrow, ProductType
<1>2. /\ (p * edge) * (q * edge) = (p * q) * (edge * edge)
      /\ (w * cap) * (h * cap) = (w * h) * (cap * cap)
  BY Regroup
<1>3. (p * q) * (edge * edge) <= area * (edge * edge)
  <2>1. /\ (p * q) * (edge * edge) \in Nat /\ (w * h) * (cap * cap) \in Nat
        /\ area * (edge * edge) \in Nat
    BY ProductType
  <2> QED
    BY <1>1, <1>2, <2>1
<1>4. edge * edge \in Nat \ {0}
  OBVIOUS
<1> QED
  BY <1>3, <1>4, ProductCancels, ProductType

LEMMA ScaledShape ==
  ASSUME NEW w \in Nat \ {0}, NEW h \in Nat, NEW cap \in Nat,
         NEW edge \in Nat \ {0}, NEW p \in Nat, NEW q \in Nat,
         p * edge <= w * cap, h * cap < (q + 1) * edge
  PROVE  p * h < (q + 1) * w
<1> SUFFICES ASSUME (q + 1) * w <= p * h PROVE FALSE
  BY ProductType
<1>1. ((q + 1) * w) * edge <= (p * h) * edge
  BY ProductsGrow, ProductType
<1>2. (p * edge) * h <= (w * cap) * h
  BY ProductsGrow, ProductType
<1>3. (h * cap + 1) * w <= ((q + 1) * edge) * w
  <2>1. h * cap + 1 <= (q + 1) * edge
    BY ProductType
  <2> QED
    BY <2>1, ProductsGrow, ProductType
<1>4. /\ (p * h) * edge = (p * edge) * h /\ ((q + 1) * w) * edge = ((q + 1) * edge) * w
      /\ (w * cap) * h = (h * cap) * w
  BY Regroup
<1>5. (h * cap + 1) * w = (h * cap) * w + w
  BY ProductType
<1>6. /\ (p * h) * edge \in Nat /\ ((q + 1) * w) * edge \in Nat /\ (h * cap) * w \in Nat
  BY ProductType
<1> QED
  BY <1>1, <1>2, <1>3, <1>4, <1>5, <1>6

LEMMA RootedArea ==
  ASSUME NEW w \in Nat \ {0}, NEW h \in Nat \ {0}, NEW area \in Nat, NEW p \in Nat, NEW q \in Nat,
         (p * p) * h <= area * w, (q * q) * w <= area * h
  PROVE  p * q <= area
<1>1. ((p * p) * h) * ((q * q) * w) <= (area * w) * (area * h)
  BY ProductsGrow, ProductType
<1>2. /\ ((p * p) * h) * ((q * q) * w) = ((p * p) * (q * q)) * (h * w)
      /\ (p * p) * (q * q) = (p * q) * (p * q)
      /\ (area * w) * (area * h) = (area * area) * (w * h)
  BY Regroup, ProductType
<1>3. w * h = h * w /\ h * w \in Nat \ {0}
  OBVIOUS
<1>4. ((p * q) * (p * q)) * (h * w) <= (area * area) * (h * w)
  BY <1>1, <1>2, <1>3
<1>5. (p * q) * (p * q) <= area * area
  BY <1>3, <1>4, ProductCancels, ProductType
<1> QED
  BY <1>5, RootsGrow, ProductType

LEMMA RootedShape ==
  ASSUME NEW w \in Nat \ {0}, NEW h \in Nat, NEW area \in Nat, NEW p \in Nat, NEW q \in Nat,
         (p * p) * h <= area * w, ((q + 1) * (q + 1)) * w > area * h
  PROVE  p * h < (q + 1) * w
<1> SUFFICES ASSUME (q + 1) * w <= p * h PROVE FALSE
  BY ProductType
<1>1. ((q + 1) * w) * ((q + 1) * w) <= (p * h) * (p * h)
  BY ProductsGrow, ProductType
<1>2. ((p * p) * h) * h <= (area * w) * h
  BY ProductsGrow, ProductType
<1>3. (area * h + 1) * w <= (((q + 1) * (q + 1)) * w) * w
  <2>1. area * h + 1 <= ((q + 1) * (q + 1)) * w
    BY ProductType
  <2> QED
    BY <2>1, ProductsGrow, ProductType
<1>4. /\ ((q + 1) * w) * ((q + 1) * w) = (((q + 1) * (q + 1)) * w) * w
      /\ (p * h) * (p * h) = ((p * p) * h) * h
      /\ (area * w) * h = (area * h) * w
  <2>1. ((q + 1) * w) * ((q + 1) * w) = ((q + 1) * (q + 1)) * (w * w)
    BY Regroup
  <2>2. ((q + 1) * (q + 1)) * (w * w) = (((q + 1) * (q + 1)) * w) * w
    BY Regroup, ProductType
  <2>3. (p * h) * (p * h) = (p * p) * (h * h) /\ (p * p) * (h * h) = ((p * p) * h) * h
    BY Regroup, ProductType
  <2>4. (area * w) * h = (area * h) * w
    BY Regroup
  <2> QED
    BY <2>1, <2>2, <2>3, <2>4
<1>5. (area * h + 1) * w = (area * h) * w + w
  BY ProductType
<1>6. /\ ((q + 1) * w) * ((q + 1) * w) \in Nat /\ (p * h) * (p * h) \in Nat
      /\ (area * h) * w \in Nat
  BY ProductType
<1> QED
  BY <1>1, <1>2, <1>3, <1>4, <1>5, <1>6

\* An image is sent under both caps, in its own proportions and never enlarged
\* (_fit_box in recognition.py), for an image of any size and any caps of which
\* the area's is at least the edge's.
THEOREM ImagesFit ==
  ASSUME NEW w \in Nat \ {0}, NEW h \in Nat \ {0}, NEW cap \in Nat \ {0}, NEW area \in Nat \ {0},
         cap <= area, area # NoCap
  PROVE  LET a == FitBox(<<w, h>>, cap, area)[1]
             b == FitBox(<<w, h>>, cap, area)[2]
         IN  /\ a \in Nat \ {0} /\ b \in Nat \ {0}
             /\ a <= cap /\ b <= cap /\ a * b <= area
             /\ a <= w /\ b <= h
             /\ a > 1 /\ b > 1 => a * h - b * w < w /\ b * w - a * h < h
<1> DEFINE edge == Max({w, h, cap})
           tooLarge == w * h * cap * cap > area * edge * edge
           p == IF tooLarge THEN RootOf(area * w, h) ELSE (w * cap) \div edge
           q == IF tooLarge THEN RootOf(area * h, w) ELSE (h * cap) \div edge
           box == FitBox(<<w, h>>, cap, area)
<1>1. box = <<Max({1, p}), Max({1, q})>>
  BY DEF FitBox
<1>2. edge \in Nat \ {0} /\ w <= edge /\ h <= edge /\ cap <= edge
  <2>1. edge \in {w, h, cap} /\ w <= edge /\ h <= edge /\ cap <= edge
    <3>1. w \in Int /\ h \in Int /\ cap \in Int
      OBVIOUS
    <3> QED
      BY <3>1, GreatestOfThree, Zenon
  <2> HIDE DEF edge
  <2> QED
    BY <2>1
<1> HIDE DEF edge, box
<1>3. /\ p \in Nat /\ q \in Nat /\ p <= cap /\ q <= cap /\ p <= w /\ q <= h
      /\ p * q <= area /\ p * h < (q + 1) * w /\ q * w < (p + 1) * h
  <2>1. CASE tooLarge
    <3> DEFINE r == RootOf(area * w, h)
               s == RootOf(area * h, w)
    <3>1. /\ r \in Nat /\ (r * r) * h <= area * w /\ ((r + 1) * (r + 1)) * h > area * w
          /\ s \in Nat /\ (s * s) * w <= area * h /\ ((s + 1) * (s + 1)) * w > area * h
      BY RootIs, ProductType
    <3>2. r <= cap /\ r <= w
      BY <1>2, <2>1, RootedSide
    <3>3. s <= cap /\ s <= h
      <4>1. h * w * cap * cap = w * h * cap * cap
        OBVIOUS
      <4>2. h * w * cap * cap > area * edge * edge
        BY <2>1, <4>1
      <4> QED
        BY <1>2, <4>2, RootedSide
    <3>4. p = r /\ q = s
      BY <2>1
    <3> HIDE DEF p, q, r, s, tooLarge
    <3>5. r * s <= area
      BY <3>1, RootedArea
    <3>6. r * h < (s + 1) * w /\ s * w < (r + 1) * h
      BY <3>1, RootedShape
    <3> QED
      BY <3>1, <3>2, <3>3, <3>4, <3>5, <3>6
  <2>2. CASE ~tooLarge
    <3> DEFINE r == (w * cap) \div edge
               s == (h * cap) \div edge
    <3>1. r \in Nat /\ r * edge <= w * cap /\ w * cap < (r + 1) * edge /\ r <= cap /\ r <= w
      BY <1>2, ScaledSide
    <3>2. s \in Nat /\ s * edge <= h * cap /\ h * cap < (s + 1) * edge /\ s <= cap /\ s <= h
      BY <1>2, ScaledSide
    <3>3. (w * h) * (cap * cap) <= area * (edge * edge)
      <4>1. w * h * cap * cap = (w * h) * (cap * cap) /\ area * edge * edge = area * (edge * edge)
        BY <1>2, Regroup, ProductType
      <4>2. (w * h) * (cap * cap) \in Nat /\ area * (edge * edge) \in Nat
        BY <1>2, ProductType
      <4> QED
        BY <2>2, <4>1, <4>2
    <3>4. p = r /\ q = s
      BY <2>2
    <3> HIDE DEF p, q, r, s, tooLarge
    <3>5. r * s <= area
      BY <1>2, <3>1, <3>2, <3>3, ScaledArea
    <3>6. r * h < (s + 1) * w /\ s * w < (r + 1) * h
      BY <1>2, <3>1, <3>2, ScaledShape
    <3> QED
      BY <3>1, <3>2, <3>4, <3>5, <3>6
  <2> QED
    BY <2>1, <2>2
<1> HIDE DEF p, q
<1> DEFINE a == IF p >= 1 THEN p ELSE 1
           b == IF q >= 1 THEN q ELSE 1
<1>4. box[1] = a /\ box[2] = b
  BY <1>1, <1>3, GreatestOfTwo
<1>5. a \in Nat \ {0} /\ b \in Nat \ {0} /\ a <= cap /\ b <= cap /\ a <= w /\ b <= h
  BY <1>3
<1>6. a * b <= area
  <2>1. CASE p >= 1 /\ q >= 1
    BY <1>3, <2>1
  <2>2. CASE ~ (p >= 1)
    <3>1. a = 1 /\ a * b = b
      BY <1>5, <2>2
    <3> QED
      BY <1>5, <3>1
  <2>3. CASE ~ (q >= 1)
    <3>1. b = 1 /\ a * b = a
      BY <1>5, <2>3
    <3> QED
      BY <1>5, <3>1
  <2> QED
    BY <2>1, <2>2, <2>3
<1>7. ASSUME a > 1, b > 1 PROVE a * h - b * w < w /\ b * w - a * h < h
  <2>1. a = p /\ b = q
    BY <1>7
  <2>2. (q + 1) * w = q * w + w /\ (p + 1) * h = p * h + h
    BY <1>3
  <2>3. p * h \in Nat /\ q * w \in Nat
    BY <1>3, ProductType
  <2>4. p * h - q * w < w /\ q * w - p * h < h
    BY <1>3, <2>2, <2>3
  <2> QED
    BY <2>1, <2>4
<1> HIDE DEF a, b
<1> QED
  BY <1>4, <1>5, <1>6, <1>7 DEF box

--------------------------------------------------------------------------------
(* The bands of a page stitched. *)

JoinOf(merged, band) == merged \o SubSeq(band, OverlapLength(merged, band) + 1, Len(band))

\* The recursion that joins a sequence of bands, from its last one.
Joins(bands, g) ==
  g = [s \in SUBSET (DOMAIN bands) |->
         IF s = {} THEN <<>> ELSE JoinOf(g[s \ {Max(s)}], bands[Max(s)])]
Joined(bands) == CHOOSE g : Joins(bands, g)

LEMMA StitchIsRecursive ==
  ASSUME NEW bands
  PROVE  LET merged == Joined(bands)[DOMAIN bands]
         IN  StitchTiles(bands) = [i \in DOMAIN merged |-> [merged[i] EXCEPT !.n = i]]
BY Zenon DEF StitchTiles, FoldLeft, MapThenFoldSet, Joined, Joins, JoinOf

LEMMA JoinOne ==
  ASSUME NEW bands, NEW g, Joins(bands, g), NEW s \in SUBSET (DOMAIN bands)
  PROVE  g[s] = IF s = {} THEN <<>> ELSE JoinOf(g[s \ {Max(s)}], bands[Max(s)])
<1> DEFINE h == [r \in SUBSET (DOMAIN bands) |->
                   IF r = {} THEN <<>> ELSE JoinOf(g[r \ {Max(r)}], bands[Max(r)])]
<1>1. g = h
  BY DEF Joins
<1>2. h[s] = IF s = {} THEN <<>> ELSE JoinOf(g[s \ {Max(s)}], bands[Max(s)])
  OBVIOUS
<1> QED
  BY <1>1, <1>2, Zenon

LEMMA JoinTwo ==
  ASSUME NEW a, NEW b
  PROVE  Joined(<<a, b>>)[{1, 2}] = JoinOf(JoinOf(<<>>, a), b)
<1> DEFINE bands == <<a, b>>
           value(s) == CASE s = {} -> <<>>
                         [] s = {1} -> JoinOf(<<>>, a)
                         [] s = {2} -> JoinOf(<<>>, b)
                         [] s = {1, 2} -> JoinOf(JoinOf(<<>>, a), b)
           g == [s \in SUBSET {1, 2} |-> value(s)]
           h == [s \in SUBSET {1, 2} |->
                   IF s = {} THEN <<>> ELSE JoinOf(g[s \ {Max(s)}], bands[Max(s)])]
<1>1. DOMAIN bands = {1, 2} /\ bands[1] = a /\ bands[2] = b
  OBVIOUS
<1> HIDE DEF bands
<1>2. Max({1}) = 1 /\ Max({2}) = 2 /\ Max({1, 2}) = 2
  BY DEF Max
<1>3. {1} \ {1} = {} /\ {2} \ {2} = {} /\ {1, 2} \ {2} = {1}
  OBVIOUS
<1>4. value({}) = <<>> /\ value({1}) = JoinOf(<<>>, a) /\ value({2}) = JoinOf(<<>>, b)
      /\ value({1, 2}) = JoinOf(JoinOf(<<>>, a), b)
  <2>1. {} # {1} /\ {} # {2} /\ {} # {1, 2} /\ {1} # {2} /\ {1} # {1, 2} /\ {2} # {1, 2}
    OBVIOUS
  <2> QED
    BY <2>1, Zenon
<1>5. ASSUME NEW s \in SUBSET {1, 2}
      PROVE  s = {} \/ s = {1} \/ s = {2} \/ s = {1, 2}
  OBVIOUS
<1>6. ASSUME NEW s \in SUBSET {1, 2} PROVE g[s] = value(s)
  <2> HIDE DEF value
  <2> QED
    OBVIOUS
<1> HIDE DEF value, g
<1>7. ASSUME NEW s \in SUBSET {1, 2}
      PROVE  value(s) = IF s = {} THEN <<>> ELSE JoinOf(g[s \ {Max(s)}], bands[Max(s)])
  <2>1. CASE s = {}
    BY <2>1, <1>4, Zenon
  <2>2. CASE s = {1}
    <3>1. g[{}] = <<>>
      BY <1>4, <1>6
    <3>2. {1} # {}
      OBVIOUS
    <3> QED
      BY <2>2, <3>1, <3>2, <1>1, <1>2, <1>3, <1>4, Zenon
  <2>3. CASE s = {2}
    <3>1. g[{}] = <<>>
      BY <1>4, <1>6
    <3>2. {2} # {}
      OBVIOUS
    <3> QED
      BY <2>3, <3>1, <3>2, <1>1, <1>2, <1>3, <1>4, Zenon
  <2>4. CASE s = {1, 2}
    <3>1. g[{1}] = JoinOf(<<>>, a)
      BY <1>4, <1>6
    <3>2. {1, 2} # {}
      OBVIOUS
    <3> QED
      BY <2>4, <3>1, <3>2, <1>1, <1>2, <1>3, <1>4, Zenon
  <2> QED
    BY <1>5, <2>1, <2>2, <2>3, <2>4
<1>8. g = [s \in SUBSET {1, 2} |-> value(s)]
  BY DEF g
<1>9. g = h
  BY <1>7, <1>8, Zenon
<1>10. Joins(bands, g)
  BY <1>1, <1>9, Zenon DEF Joins
<1>11. Joins(bands, Joined(bands))
  BY <1>10, Zenon DEF Joined
<1> DEFINE k == Joined(bands)
<1> HIDE DEF k
<1>12. Joins(bands, k)
  BY <1>11 DEF k
<1>13. k[{}] = <<>>
  <2>1. {} \in SUBSET (DOMAIN bands)
    OBVIOUS
  <2> QED
    BY <1>12, <2>1, JoinOne, Zenon
<1>14. k[{1}] = JoinOf(<<>>, a)
  <2>1. {1} \in SUBSET (DOMAIN bands) /\ {1} # {}
    BY <1>1
  <2>2. k[{1}] = JoinOf(k[{1} \ {Max({1})}], bands[Max({1})])
    BY <1>12, <2>1, JoinOne, Zenon
  <2> QED
    BY <1>1, <1>2, <1>3, <1>13, <2>2, Zenon
<1>15. k[{1, 2}] = JoinOf(JoinOf(<<>>, a), b)
  <2>1. {1, 2} \in SUBSET (DOMAIN bands) /\ {1, 2} # {}
    BY <1>1
  <2>2. k[{1, 2}] = JoinOf(k[{1, 2} \ {Max({1, 2})}], bands[Max({1, 2})])
    BY <1>12, <2>1, JoinOne, Zenon
  <2> QED
    BY <1>1, <1>2, <1>3, <1>14, <2>2, Zenon
<1> QED
  BY <1>15 DEF k, bands

\* The overlap that is dropped is the widest one there is.
LEMMA OverlapIs ==
  ASSUME NEW S, NEW top \in Seq(S), NEW bottom \in Seq(S)
  PROVE  LET k == OverlapLength(top, bottom)
         IN  /\ k \in Nat /\ k <= Len(top) /\ k <= Len(bottom)
             /\ k > 0 => Matches(top, bottom, k)
             /\ \A j \in 1 .. Len(top) : j <= Len(bottom) /\ Matches(top, bottom, j) => j <= k
<1> DEFINE least == Min({Len(top), Len(bottom)})
           ks == {k \in 1 .. least : Matches(top, bottom, k)}
           k == OverlapLength(top, bottom)
<1>1. least \in Nat /\ least = IF Len(top) <= Len(bottom) THEN Len(top) ELSE Len(bottom)
  <2>1. Len(top) \in Nat /\ Len(bottom) \in Nat
    OBVIOUS
  <2> QED
    BY <2>1, LeastOfTwo
<1>2. k = IF ks = {} THEN 0 ELSE Max(ks)
  BY DEF OverlapLength
<1> HIDE DEF least, k
<1>3. IsFiniteSet(ks) /\ ks \in SUBSET Int
  <2>1. IsFiniteSet(1 .. least) /\ ks \subseteq 1 .. least
    <3>1. 1 \in Int /\ least \in Int
      BY <1>1
    <3>2. ks \subseteq 1 .. least
      OBVIOUS
    <3> QED
      BY <3>1, <3>2, FS_Interval
  <2> HIDE DEF ks
  <2>2. IsFiniteSet(ks)
    BY <2>1, FS_Subset
  <2> QED
    BY <2>1, <2>2
<1>4. ks # {} => k \in ks /\ \A j \in ks : k >= j
  <2> HIDE DEF ks
  <2> QED
    BY <1>2, <1>3, MaxIs
<1>5. ks = {} => k = 0
  BY <1>2
<1>6. \A j \in 1 .. Len(top) : j <= Len(bottom) /\ Matches(top, bottom, j) => j \in ks
  BY <1>1
<1>7. \A j \in ks : j \in 1 .. least /\ Matches(top, bottom, j)
  OBVIOUS
<1> HIDE DEF ks
<1>8. k \in Nat /\ k <= Len(top) /\ k <= Len(bottom) /\ (k > 0 => Matches(top, bottom, k))
  BY <1>1, <1>4, <1>5, <1>7
<1>9. ASSUME NEW j \in 1 .. Len(top), j <= Len(bottom) /\ Matches(top, bottom, j) PROVE j <= k
  BY <1>3, <1>4, <1>6, <1>9
<1> QED
  BY <1>8, <1>9 DEF k

LEMMA JoinFirst ==
  ASSUME NEW S, NEW band \in Seq(S)
  PROVE  JoinOf(<<>>, band) = band
<1>1. OverlapLength(<<>>, band) = 0
  <2>1. <<>> \in Seq(S) /\ Len(<<>>) = 0
    OBVIOUS
  <2>2. LET k == OverlapLength(<<>>, band) IN k \in Nat /\ k <= Len(<<>>)
    BY <2>1, OverlapIs, Zenon
  <2> QED
    BY <2>1, <2>2
<1>2. SubSeq(band, 1, Len(band)) = band
  BY SubSeqFull
<1>3. JoinOf(<<>>, band) = <<>> \o SubSeq(band, 0 + 1, Len(band))
  BY <1>1 DEF JoinOf
<1> QED
  BY <1>2, <1>3

\* A join keeps the first list and the rest of the second.
LEMMA JoinIs ==
  ASSUME NEW S, NEW top \in Seq(S), NEW band \in Seq(S)
  PROVE  LET k == OverlapLength(top, band)
             all == JoinOf(top, band)
         IN  /\ all \in Seq(S) /\ Len(all) = Len(top) + Len(band) - k
             /\ \A i \in 1 .. Len(top) : all[i] = top[i]
             /\ \A i \in Len(top) + 1 .. Len(top) + Len(band) - k :
                  all[i] = band[i - Len(top) + k]
<1> DEFINE k == OverlapLength(top, band)
           rest == SubSeq(band, k + 1, Len(band))
           all == JoinOf(top, band)
<1>1. k \in Nat /\ k <= Len(band) /\ Len(top) \in Nat /\ Len(band) \in Nat
  BY OverlapIs
<1>2. all = top \o rest
  BY DEF JoinOf
<1> HIDE DEF k, all
<1>3. /\ rest \in Seq(S) /\ Len(rest) = Len(band) - k
      /\ \A i \in 1 .. Len(band) - k : rest[i] = band[k + i]
  <2>1. CASE k = Len(band)
    <3>1. rest = <<>>
      BY <1>1, <2>1, SubSeqEmpty
    <3> QED
      BY <1>1, <2>1, <3>1
  <2>2. CASE k < Len(band)
    <3>1. \A i \in k + 1 .. Len(band) : band[i] \in S
      BY <1>1
    <3>2. k + 1 \in Int /\ Len(band) \in Int /\ k + 1 <= Len(band)
      BY <1>1, <2>2
    <3>3. /\ rest \in Seq(S) /\ Len(rest) = Len(band) - (k + 1) + 1
          /\ \A i \in 1 .. Len(band) - (k + 1) + 1 : rest[i] = band[(k + 1) + i - 1]
      BY <3>1, <3>2, SubSeqProperties
    <3>4. Len(band) - (k + 1) + 1 = Len(band) - k /\ \A i \in Int : (k + 1) + i - 1 = k + i
      BY <1>1
    <3> HIDE DEF rest
    <3> QED
      BY <1>1, <3>3, <3>4
  <2> QED
    BY <1>1, <2>1, <2>2
<1> HIDE DEF rest
<1>4. /\ all \in Seq(S) /\ Len(all) = Len(top) + Len(rest)
      /\ \A i \in 1 .. Len(top) + Len(rest) :
           all[i] = IF i <= Len(top) THEN top[i] ELSE rest[i - Len(top)]
  BY <1>2, <1>3, ConcatProperties
<1>5. ASSUME NEW i \in Len(top) + 1 .. Len(top) + Len(band) - k
      PROVE  all[i] = band[i - Len(top) + k]
  <2>1. i - Len(top) \in 1 .. Len(band) - k /\ i \in 1 .. Len(top) + Len(rest) /\ ~ (i <= Len(top))
    BY <1>1, <1>3
  <2>2. all[i] = rest[i - Len(top)] /\ rest[i - Len(top)] = band[k + (i - Len(top))]
    BY <1>3, <1>4, <2>1
  <2>3. k + (i - Len(top)) = i - Len(top) + k
    BY <1>1
  <2> QED
    BY <2>2, <2>3
<1>6. ASSUME NEW i \in 1 .. Len(top) PROVE all[i] = top[i]
  <2>1. i \in 1 .. Len(top) + Len(rest) /\ i <= Len(top)
    BY <1>1, <1>3
  <2> QED
    BY <1>4, <2>1
<1>7. Len(all) = Len(top) + Len(band) - k
  BY <1>1, <1>3, <1>4
<1> QED
  BY <1>4, <1>5, <1>6, <1>7 DEF k, all

\* The rows of a page, and those of a band as they are read.
PageRows(K, T) == [kind : K, text : T]
ReadRows(K, T) == [n : Nat, kind : K, text : T]

\* What a band's reading holds.
RowRead(page, from, i) ==
  [n |-> i, kind |-> page[from + i - 1].kind, text |-> page[from + i - 1].text]
LEMMA ReadIs ==
  ASSUME NEW page, NEW from, NEW to
  PROVE  Read(page, from, to) = [i \in 1 .. to - from + 1 |-> RowRead(page, from, i)]
BY DEF Read, RowRead

LEMMA ReadType ==
  ASSUME NEW K, NEW T, NEW page \in Seq(PageRows(K, T)),
         NEW from \in Nat \ {0}, NEW to \in Nat, from <= to + 1, to <= Len(page)
  PROVE  /\ Read(page, from, to) \in Seq(ReadRows(K, T))
         /\ Len(Read(page, from, to)) = to - from + 1
<1> DEFINE len == to - from + 1
           row(i) == [n |-> i, kind |-> page[from + i - 1].kind, text |-> page[from + i - 1].text]
<1>1. len \in Nat
  OBVIOUS
<1>2. Read(page, from, to) = [i \in 1 .. len |-> row(i)]
  BY DEF Read
<1>3. ASSUME NEW i \in 1 .. len PROVE row(i) \in ReadRows(K, T)
  <2>1. from + i - 1 \in 1 .. Len(page)
    OBVIOUS
  <2>2. page[from + i - 1] \in PageRows(K, T)
    BY <2>1, ElementOfSeq
  <2> QED
    BY <2>2 DEF PageRows, ReadRows
<1> HIDE DEF row
<1>4. [i \in 1 .. len |-> row(i)] \in Seq(ReadRows(K, T))
      /\ Len([i \in 1 .. len |-> row(i)]) = len
  <2>1. [i \in 1 .. len |-> row(i)] \in [1 .. len -> ReadRows(K, T)]
    BY <1>3
  <2> HIDE DEF len
  <2> QED
    BY <1>1, <2>1
<1> QED
  BY <1>2, <1>4

\* Two bands are joined once, and numbered.
LEMMA StitchTwo ==
  ASSUME NEW S, NEW top \in Seq(S), NEW low
  PROVE  StitchTiles(<<top, low>>) =
           [i \in DOMAIN JoinOf(top, low) |-> [JoinOf(top, low)[i] EXCEPT !.n = i]]
<1> DEFINE all == JoinOf(top, low)
<1>1. JoinOf(<<>>, top) = top
  BY JoinFirst
<1>2. Joined(<<top, low>>)[{1, 2}] = all
  BY <1>1, JoinTwo
<1>3. DOMAIN <<top, low>> = {1, 2}
  OBVIOUS
<1> HIDE DEF all
<1>4. StitchTiles(<<top, low>>) = [i \in DOMAIN all |-> [all[i] EXCEPT !.n = i]]
  BY <1>2, <1>3, StitchIsRecursive, Zenon
<1> QED
  BY <1>4 DEF all

\* Stitching two overlapping bands that are read exactly gives the page back when
\* no two of its rows are alike, and never a longer one (_stitch_tiles in
\* recognition.py), for a page and bands of any length: the real overlap is one
\* of those that match, and without like rows it is the only one.
THEOREM StitchingRestores ==
  ASSUME NEW K, NEW T, NEW page \in Seq(PageRows(K, T)),
         NEW from \in Nat \ {0}, NEW to \in Nat,
         from <= to + 1, from <= Len(page), to <= Len(page)
  PROVE  LET out == StitchTiles(<<Read(page, 1, to), Read(page, from, Len(page))>>)
         IN  /\ Len(out) <= Len(page)
             /\ \A i \in DOMAIN out : out[i].n = i
             /\ (\A i, j \in DOMAIN page : i # j => ~LinesMatch(page[i], page[j])) =>
                  [i \in DOMAIN out |-> [kind |-> out[i].kind, text |-> out[i].text]] = page
<1> DEFINE S == ReadRows(K, T)
           top == Read(page, 1, to)
           low == Read(page, from, Len(page))
           all == JoinOf(top, low)
           k == OverlapLength(top, low)
           len == Len(page)
           out == StitchTiles(<<top, low>>)
           real == to - from + 1
<1>1. len \in Nat /\ real \in Nat /\ real <= to /\ real <= len - from + 1
  <2>1. len \in Nat
    OBVIOUS
  <2> HIDE DEF len
  <2> QED
    BY <2>1 DEF len
<1>2. /\ top \in Seq(S) /\ Len(top) = to
      /\ \A i \in 1 .. to : /\ top[i].kind = page[i].kind /\ top[i].text = page[i].text
  <2>1. /\ top \in Seq(S) /\ Len(top) = to - 1 + 1
        /\ \A i \in 1 .. to - 1 + 1 : /\ top[i].kind = page[1 + i - 1].kind
                                       /\ top[i].text = page[1 + i - 1].text
    <3>1. 1 \in Nat \ {0} /\ 1 <= to + 1
      OBVIOUS
    <3>2. ASSUME NEW i \in 1 .. to - 1 + 1
          PROVE  top[i].kind = page[1 + i - 1].kind /\ top[i].text = page[1 + i - 1].text
      <4>1. top[i] = RowRead(page, 1, i)
        BY ReadIs
      <4> QED
        BY <4>1 DEF RowRead
    <3>3. top \in Seq(S) /\ Len(top) = to - 1 + 1
      BY <3>1, ReadType
    <3> QED
      BY <3>2, <3>3
  <2>2. to - 1 + 1 = to /\ \A i \in 1 .. to : 1 + i - 1 = i
    OBVIOUS
  <2> HIDE DEF top
  <2> QED
    BY <2>1, <2>2
<1>3. /\ low \in Seq(S) /\ Len(low) = len - from + 1
      /\ \A i \in 1 .. len - from + 1 : /\ low[i].kind = page[from + i - 1].kind
                                        /\ low[i].text = page[from + i - 1].text
  <2>1. /\ low \in Seq(S) /\ Len(low) = len - from + 1
        /\ \A i \in 1 .. len - from + 1 : /\ low[i].kind = page[from + i - 1].kind
                                           /\ low[i].text = page[from + i - 1].text
    <3> DEFINE m == Len(page)
    <3>1. m \in Nat /\ from <= m + 1 /\ m <= Len(page)
      BY <1>1
    <3> HIDE DEF m
    <3>2. Read(page, from, m) \in Seq(ReadRows(K, T))
      BY <3>1, ReadType
    <3>3. Len(Read(page, from, m)) = m - from + 1
      BY <3>1, ReadType
    <3>4. ASSUME NEW i \in 1 .. m - from + 1
          PROVE  /\ Read(page, from, m)[i].kind = page[from + i - 1].kind
                 /\ Read(page, from, m)[i].text = page[from + i - 1].text
      <4>1. Read(page, from, m)[i] = RowRead(page, from, i)
        BY ReadIs
      <4> QED
        BY <4>1 DEF RowRead
    <3> QED
      BY <3>2, <3>3, <3>4, Zenon DEF m
  <2> HIDE DEF low, len
  <2> QED
    BY <2>1
<1>4. /\ all \in Seq(S) /\ Len(all) = to + (len - from + 1) - k
      /\ \A i \in 1 .. to : all[i] = top[i]
      /\ \A i \in to + 1 .. to + (len - from + 1) - k : all[i] = low[i - to + k]
  <2> HIDE DEF top, low, S
  <2>1. /\ all \in Seq(S) /\ Len(all) = Len(top) + Len(low) - k
        /\ \A i \in 1 .. Len(top) : all[i] = top[i]
        /\ \A i \in Len(top) + 1 .. Len(top) + Len(low) - k : all[i] = low[i - Len(top) + k]
    BY <1>2, <1>3, JoinIs, Zenon
  <2> QED
    BY <1>2, <1>3, <2>1
<1>5. /\ k \in Nat /\ k <= to /\ k <= len - from + 1
      /\ k > 0 => Matches(top, low, k)
      /\ \A j \in 1 .. to : j <= len - from + 1 /\ Matches(top, low, j) => j <= k
  <2> HIDE DEF top, low, S
  <2>1. /\ k \in Nat /\ k <= Len(top) /\ k <= Len(low)
        /\ k > 0 => Matches(top, low, k)
        /\ \A j \in 1 .. Len(top) : j <= Len(low) /\ Matches(top, low, j) => j <= k
    BY <1>2, <1>3, OverlapIs, Zenon
  <2> QED
    BY <1>2, <1>3, <2>1
<1>6. out = [i \in DOMAIN all |-> [all[i] EXCEPT !.n = i]]
  <2> HIDE DEF top, low, S
  <2>1. top \in Seq(S)
    BY <1>2
  <2> QED
    BY <2>1, StitchTwo
<1> HIDE DEF top, low, all, k, out
<1>7. /\ DOMAIN all = 1 .. Len(all) /\ \A i \in DOMAIN all : all[i] \in S
  <2> HIDE DEF S
  <2> QED
    BY <1>4, ElementOfSeq
<1>8. /\ DOMAIN out = 1 .. Len(all)
      /\ \A i \in DOMAIN out : /\ out[i].n = i
                               /\ out[i].kind = all[i].kind /\ out[i].text = all[i].text
  <2>1. DOMAIN out = DOMAIN all
    BY <1>6
  <2>2. ASSUME NEW i \in DOMAIN all
        PROVE  out[i].n = i /\ out[i].kind = all[i].kind /\ out[i].text = all[i].text
    <3>1. out[i] = [all[i] EXCEPT !.n = i]
      BY <1>6
    <3>2. all[i] \in S
      BY <1>7
    <3> QED
      BY <3>1, <3>2 DEF ReadRows
  <2> QED
    BY <1>7, <2>1, <2>2
<1>9. Len(out) = Len(all) /\ Len(all) \in Nat
  BY <1>4, <1>8
<1>10. real > 0 => Matches(top, low, real)
  <2> SUFFICES ASSUME real > 0, NEW i \in 1 .. real
               PROVE  LinesMatch(top[Len(top) - real + i], low[i])
    BY DEF Matches
  <2>1. /\ to - real + i \in 1 .. to /\ i \in 1 .. len - from + 1
        /\ to - real + i = from + i - 1
    BY <1>1
  <2>2. /\ top[to - real + i].kind = page[from + i - 1].kind
        /\ top[to - real + i].text = page[from + i - 1].text
    BY <1>2, <2>1
  <2>3. low[i].kind = page[from + i - 1].kind /\ low[i].text = page[from + i - 1].text
    BY <1>3, <2>1
  <2> HIDE DEF real
  <2> QED
    BY <1>2, <2>2, <2>3 DEF LinesMatch
<1>11. real <= k
  BY <1>1, <1>5, <1>10
<1>12. Len(all) <= len
  BY <1>1, <1>4, <1>5, <1>11
<1>13. ASSUME \A i, j \in DOMAIN page : i # j => ~LinesMatch(page[i], page[j])
       PROVE  [i \in DOMAIN out |-> [kind |-> out[i].kind, text |-> out[i].text]] = page
  <2>1. k = real
    <3> SUFFICES ASSUME k > real PROVE FALSE
      BY <1>1, <1>5, <1>11
    <3>1. k > 0 /\ 1 \in 1 .. k /\ Matches(top, low, k)
      BY <1>1, <1>5
    <3>2. LinesMatch(top[Len(top) - k + 1], low[1])
      BY <3>1 DEF Matches
    <3>3. /\ to - k + 1 \in 1 .. to /\ 1 \in 1 .. len - from + 1 /\ from + 1 - 1 = from
          /\ to - k + 1 \in 1 .. len /\ from \in 1 .. len /\ to - k + 1 # from
      BY <1>1, <1>5, <3>1
    <3>4. /\ top[to - k + 1].kind = page[to - k + 1].kind
          /\ top[to - k + 1].text = page[to - k + 1].text
      BY <1>2, <3>3
    <3>5. low[1].kind = page[from].kind /\ low[1].text = page[from].text
      BY <1>3, <3>3
    <3>6. LinesMatch(page[to - k + 1], page[from])
      BY <1>2, <3>2, <3>4, <3>5 DEF LinesMatch
    <3> QED
      BY <1>13, <3>3, <3>6
  <2>2. Len(all) = len
    BY <1>1, <1>4, <1>5, <2>1
  <2>3. ASSUME NEW i \in 1 .. len
        PROVE  [kind |-> out[i].kind, text |-> out[i].text] = page[i]
    <3>1. page[i] \in [kind : K, text : T]
      BY ElementOfSeq DEF PageRows
    <3>2. out[i].kind = all[i].kind /\ out[i].text = all[i].text
      BY <1>8, <2>2, <2>3
    <3>3. all[i].kind = page[i].kind /\ all[i].text = page[i].text
      <4>1. CASE i <= to
        <5>1. i \in 1 .. to
          BY <1>1, <4>1
        <5> QED
          BY <1>2, <1>4, <5>1
      <4>2. CASE i > to
        <5>1. i \in to + 1 .. to + (len - from + 1) - k
          BY <1>1, <2>1, <4>2
        <5>2. i - to + k \in 1 .. len - from + 1 /\ from + (i - to + k) - 1 = i
          BY <1>1, <2>1, <4>2
        <5>3. all[i] = low[i - to + k]
          BY <1>4, <5>1
        <5>4. low[i - to + k].kind = page[i].kind /\ low[i - to + k].text = page[i].text
          BY <1>3, <5>2
        <5> QED
          BY <5>3, <5>4
      <4> QED
        BY <1>1, <4>1, <4>2
    <3> QED
      BY <3>1, <3>2, <3>3
  <2>4. page = [i \in 1 .. len |-> page[i]]
    OBVIOUS
  <2>5. DOMAIN out = 1 .. len
    BY <1>8, <2>2
  <2> HIDE DEF len
  <2> QED
    BY <2>3, <2>4, <2>5, Zenon
<1> QED
  BY <1>8, <1>9, <1>12, <1>13 DEF out, top, low

LEMMA SumOfSequence ==
  ASSUME NEW f
  PROVE  /\ DOMAIN f = {1} /\ f[1] \in Int => SumFunction(f) = f[1]
         /\ DOMAIN f = {1, 2} /\ f[1] \in Int /\ f[2] \in Int => SumFunction(f) = f[1] + f[2]
<1>1. ASSUME DOMAIN f = {1}, f[1] \in Int PROVE SumFunction(f) = f[1]
  BY <1>1, SumOne DEF SumFunction
<1>2. ASSUME DOMAIN f = {1, 2}, f[1] \in Int, f[2] \in Int PROVE SumFunction(f) = f[1] + f[2]
  BY <1>2, SumTwo DEF SumFunction
<1> QED
  BY <1>1, <1>2

\* Two bands of one line each, which differ, are two lines.
LEMMA StitchedPair ==
  ASSUME NEW a, NEW b, ~LinesMatch(a, b)
  PROVE  Len(StitchTiles(<< <<a>>, <<b>> >>)) = 2
<1> DEFINE S == {a, b}
           all == JoinOf(<<a>>, <<b>>)
           k == OverlapLength(<<a>>, <<b>>)
<1>1. /\ <<a>> \in Seq(S) /\ Len(<<a>>) = 1 /\ <<a>>[1] = a
      /\ <<b>> \in Seq(S) /\ Len(<<b>>) = 1 /\ <<b>>[1] = b
  OBVIOUS
<1> HIDE DEF S
<1>2. k \in Nat /\ k <= 1 /\ (k > 0 => Matches(<<a>>, <<b>>, k))
  <2>1. k \in Nat /\ k <= Len(<<a>>) /\ (k > 0 => Matches(<<a>>, <<b>>, k))
    BY <1>1, OverlapIs, Zenon
  <2> QED
    BY <1>1, <2>1
<1>3. ~Matches(<<a>>, <<b>>, 1)
  <2>1. Len(<<a>>) - 1 + 1 = 1 /\ 1 \in 1 .. 1
    BY <1>1
  <2>2. Matches(<<a>>, <<b>>, 1) => LinesMatch(<<a>>[1], <<b>>[1])
    BY <2>1 DEF Matches
  <2> QED
    BY <1>1, <2>2
<1>4. k = 0
  BY <1>2, <1>3
<1>5. all \in Seq(S) /\ Len(all) = Len(<<a>>) + Len(<<b>>) - k
  BY <1>1, JoinIs, Zenon
<1> HIDE DEF all, k
<1>6. Len(all) = 2 /\ DOMAIN all = 1 .. 2
  BY <1>1, <1>4, <1>5
<1>7. StitchTiles(<< <<a>>, <<b>> >>) = [i \in DOMAIN all |-> [all[i] EXCEPT !.n = i]]
  <2> DEFINE top == <<a>>
             low == <<b>>
  <2>1. top \in Seq(S) /\ all = JoinOf(top, low)
    BY <1>1 DEF all
  <2> HIDE DEF top, low
  <2>2. StitchTiles(<<top, low>>) = [i \in DOMAIN all |-> [all[i] EXCEPT !.n = i]]
    BY <2>1, StitchTwo
  <2> QED
    BY <2>2 DEF top, low
<1> QED
  BY <1>6, <1>7

\* The recognizer on the answers of a page.
LEMMA PageComesWhole ==
  ASSUME NEW hasKey \in BOOLEAN, NEW hasSdk \in BOOLEAN,
         NEW given \in Seq(Answered), Len(given) \in 1 .. 2, <<"a", "b">> \notin Alike
  PROVE  LET page == RecognizeBands(hasKey, hasSdk,
                                    [i \in DOMAIN given |-> AnswerOf(given[i], i)])
             whole == /\ hasKey /\ hasSdk
                      /\ \A i \in DOMAIN given : /\ ~given[i].error /\ given[i].stop = "end_turn"
                                                 /\ given[i].json = "object"
         IN  /\ page.code = "ok" <=> whole
             /\ whole => /\ Len(page.lines) = Len(given) /\ page.header = 1
                         /\ page.tokens = IF Len(given) = 1 THEN 1 ELSE 3
<1> DEFINE n == Len(given)
           answers == [i \in DOMAIN given |-> AnswerOf(given[i], i)]
           page == RecognizeBands(hasKey, hasSdk, answers)
           Clear(a) == ~a.error /\ a.stop = "end_turn" /\ a.json = "object"
           unread == {i \in 1 .. n : ~Readable(answers[i])}
<1>1. n \in 1 .. 2 /\ DOMAIN given = 1 .. n
  OBVIOUS
<1>2. DOMAIN answers = 1 .. n /\ \A i \in 1 .. n : answers[i] = AnswerOf(given[i], i)
  BY <1>1
<1> HIDE DEF n, answers
<1>3. ASSUME NEW i \in 1 .. n
      PROVE  /\ answers[i].stop # "ok" /\ answers[i].header = i /\ answers[i].tokens = i
             /\ answers[i].lines = <<[n |-> 1, kind |-> "sargam", text |-> IF i = 1 THEN "a" ELSE "b"]>>
             /\ Readable(answers[i]) <=> Clear(given[i])
             /\ RecognizeImage(answers[i]) = "ok" <=> Readable(answers[i])
  <2>1. given[i] \in Answered
    BY <1>1, <1>3, ElementOfSeq DEF n
  <2>2. /\ answers[i].error = given[i].error /\ answers[i].stop = given[i].stop
        /\ answers[i].json = given[i].json /\ answers[i].header = i /\ answers[i].tokens = i
        /\ answers[i].lines = <<[n |-> 1, kind |-> "sargam", text |-> IF i = 1 THEN "a" ELSE "b"]>>
    BY <1>2, <1>3 DEF AnswerOf
  <2>3. /\ given[i].stop \in {"end_turn", "max_tokens", "refusal"}
        /\ given[i].json \in {InvalidJson, "value", "object"}
    BY <2>1 DEF Answered
  <2>4. answers[i].stop # "ok"
    BY <2>2, <2>3
  <2>5. Readable(answers[i]) <=> Clear(given[i])
    BY <2>2, <2>3 DEF Readable, InvalidJson
  <2>6. RecognizeImage(answers[i]) = "ok" <=> Readable(answers[i])
    BY <2>4 DEF RecognizeImage, Readable, InvalidJson
  <2> QED
    BY <2>2, <2>4, <2>5, <2>6
<1>4. page.code = "ok" <=> hasKey /\ hasSdk /\ unread = {}
  <2>1. n \in Nat /\ DOMAIN answers = 1 .. n
    BY <1>1, <1>2
  <2>2. \A i \in 1 .. n : answers[i].stop # "ok"
    BY <1>3
  <2> QED
    BY <2>1, <2>2, PageIsWhole, Zenon
<1>5. unread = {} <=> \A i \in DOMAIN given : Clear(given[i])
  BY <1>1, <1>3
<1>6. ASSUME hasKey, hasSdk, unread = {}
      PROVE  Len(page.lines) = n /\ page.header = 1 /\ page.tokens = IF n = 1 THEN 1 ELSE 3
  <2> DEFINE lines == IF Len(answers) = 1 THEN answers[1].lines
                      ELSE StitchTiles([i \in DOMAIN answers |-> answers[i].lines])
             used == [i \in DOMAIN answers |-> answers[i].tokens]
  <2>1. {i \in DOMAIN answers : RecognizeImage(answers[i]) # "ok"} = {}
    <3>1. ASSUME NEW i \in 1 .. n PROVE RecognizeImage(answers[i]) = "ok"
      <4>1. Readable(answers[i])
        BY <1>6
      <4> QED
        BY <1>3, <4>1
    <3> QED
      BY <1>2, <3>1
  <2>2. BuildClient(hasKey, hasSdk) = "ok"
    BY <1>6 DEF BuildClient
  <2>3. page = [code |-> "ok", lines |-> lines, header |-> answers[1].header,
                tokens |-> SumFunction(used)]
    BY <2>1, <2>2, Zenon DEF RecognizeBands
  <2>4. page.lines = lines /\ page.header = answers[1].header /\ page.tokens = SumFunction(used)
    <3> HIDE DEF page, lines, used
    <3> QED
      BY <2>3
  <2>5. 1 \in 1 .. n /\ Len(answers) = n
    BY <1>1, <1>2
  <2>6. DOMAIN used = 1 .. n /\ \A i \in 1 .. n : used[i] = i
    BY <1>2, <1>3
  <2>7. SumFunction(used) = IF n = 1 THEN 1 ELSE 3
    <3> HIDE DEF used
    <3>1. CASE n = 1
      <4>1. DOMAIN used = {1} /\ used[1] = 1
        BY <2>6, <3>1
      <4> QED
        BY <3>1, <4>1, SumOfSequence
    <3>2. CASE n = 2
      <4>1. DOMAIN used = {1, 2} /\ used[1] = 1 /\ used[2] = 2
        BY <2>6, <3>2
      <4> QED
        BY <3>2, <4>1, SumOfSequence
    <3> QED
      BY <1>1, <3>1, <3>2
  <2>8. Len(lines) = n
    <3> DEFINE a == [n |-> 1, kind |-> "sargam", text |-> "a"]
               b == [n |-> 1, kind |-> "sargam", text |-> "b"]
    <3>1. CASE n = 1
      <4>1. lines = answers[1].lines
        BY <2>5, <3>1
      <4>2. answers[1].lines = <<a>>
        BY <1>3, <2>5
      <4> HIDE DEF a, lines
      <4> QED
        BY <3>1, <4>1, <4>2
    <3>2. CASE n = 2
      <4>1. lines = StitchTiles([i \in DOMAIN answers |-> answers[i].lines])
        BY <2>5, <3>2
      <4>2. [i \in DOMAIN answers |-> answers[i].lines] = << <<a>>, <<b>> >>
        <5>1. 1 \in 1 .. n /\ 2 \in 1 .. n /\ 1 .. n = {1, 2} /\ ~ (2 = 1)
          BY <3>2
        <5>2. answers[1].lines = <<a>>
          BY <1>3, <5>1
        <5>3. answers[2].lines = <<b>>
          BY <1>3, <5>1
        <5> DEFINE f == [i \in DOMAIN answers |-> answers[i].lines]
                   x == <<a>>
                   y == <<b>>
        <5>4. DOMAIN f = 1 .. 2 /\ f = [i \in 1 .. 2 |-> f[i]] /\ f[1] = x /\ f[2] = y
          BY <1>2, <3>2, <5>1, <5>2, <5>3
        <5> HIDE DEF f, x, y
        <5>5. f = <<x, y>>
          BY <5>4
        <5> QED
          BY <5>5 DEF f, x, y
      <4>3. ~LinesMatch(a, b)
        <5>1. a.kind = "sargam" /\ a.text = "a" /\ b.text = "b"
          OBVIOUS
        <5> HIDE DEF a, b
        <5> QED
          BY <5>1 DEF LinesMatch
      <4> HIDE DEF a, b, lines
      <4> QED
        BY <3>2, <4>1, <4>2, <4>3, StitchedPair
    <3> QED
      BY <1>1, <3>1, <3>2
  <2>9. answers[1].header = 1
    BY <1>3, <2>5
  <2> HIDE DEF page, lines, used
  <2> QED
    BY <2>4, <2>7, <2>8, <2>9
<1> HIDE DEF page, unread
<1> QED
  BY <1>4, <1>5, <1>6 DEF page, answers, n

\* A page goes to the model and comes back whole (recognition.py): every image
\* fits, no row is outside the bands, the one object of a reply is found, and the
\* bands are stitched to the page or fail it; for every image, page and reply.
THEOREM PagesAreRead == Spec => []PageIsRead
<1> SUFFICES ASSUME CallsRan PROVE PageIsRead
  BY CallsRun, PTL
<1>1. BoxFits
  <2> SUFFICES ASSUME Ran("box") PROVE BoxFits
    BY DEF BoxFits
  <2> DEFINE w == call.in[1]
             h == call.in[2]
             a == call.out[1]
             b == call.out[2]
  <2>1. call.in \in Inputs["box"] /\ call.out = FitBox(call.in, BoxEdge, BoxPixels)
    BY RanIs DEF Answer
  <2>2. w \in Nat \ {0} /\ h \in Nat \ {0} /\ call.in = <<w, h>>
    BY <2>1, BoxAssumption
  <2>3. BoxEdge \in Nat \ {0} /\ BoxPixels \in Nat \ {0} /\ BoxEdge <= BoxPixels /\ BoxPixels # NoCap
    BY BoxAssumption DEF BoxEdge, BoxPixels
  <2>4. /\ a <= BoxEdge /\ b <= BoxEdge /\ a * b <= BoxPixels
        /\ a <= w /\ b <= h
        /\ a > 1 /\ b > 1 => a * h - b * w < w /\ b * w - a * h < h
    <3> DEFINE box == FitBox(<<w, h>>, BoxEdge, BoxPixels)
    <3>1. call.out = box
      BY <2>1, <2>2
    <3> HIDE DEF w, h
    <3>2. /\ box[1] <= BoxEdge /\ box[2] <= BoxEdge /\ box[1] * box[2] <= BoxPixels
          /\ box[1] <= w /\ box[2] <= h
          /\ box[1] > 1 /\ box[2] > 1 =>
               box[1] * h - box[2] * w < w /\ box[2] * w - box[1] * h < h
      BY <2>2, <2>3, ImagesFit, Zenon
    <3> HIDE DEF box
    <3> QED
      BY <3>1, <3>2
  <2> QED
    BY <2>4, Zenon DEF BoxFits
<1>2. BandsCoverPage
  <2> SUFFICES ASSUME Ran("bands") PROVE BandsCoverPage
    BY DEF BandsCoverPage
  <2> DEFINE h == call.in.h
             tiles == call.in.tiles
             row == 2 * (((h * OverlapFraction[1]) \div OverlapFraction[2]) \div 2)
  <2>1. call.in \in Inputs["bands"] /\ call.out = HorizontalBands(h, tiles)
    BY RanIs DEF Answer
  <2>2. h \in Nat \ {0} /\ tiles \in Nat \ {0} /\ OverlapFraction \in Nat \X (Nat \ {0})
    BY <2>1, BandsAssumption
  <2>3. ASSUME NEW top \in 0 .. h - 1
        PROVE  \E i \in 1 .. tiles :
                 /\ call.out[i][1] <= top
                 /\ Min({h, Max({top + 1, top + row})}) <= call.out[i][2]
    <3> HIDE DEF h, tiles
    <3> QED
      BY <2>1, <2>2, BandsHoldEveryRow, Zenon
  <2> QED
    BY <2>3, Zenon DEF BandsCoverPage
<1>3. ReplyHoldsOneObject
  <2> SUFFICES ASSUME Ran("reply") PROVE ReplyHoldsOneObject
    BY DEF ReplyHoldsOneObject
  <2> DEFINE reply == call.in
             opens == Positions(reply, "open")
             closes == Positions(reply, "close")
             fences == Positions(reply, "fence")
             object == SubSeq(reply, Min(opens), Min(closes))
             reached == 1 \notin fences \/ \A f \in fences \ {1} : f > Min(closes)
  <2>1. reply \in Seq(ToSet(reply)) /\ call.out = ExtractJson(reply)
    BY RanIs, ReplyAssumption DEF Answer
  <2>2. /\ opens \in SUBSET Int /\ IsFiniteSet(opens)
        /\ closes \in SUBSET Int /\ IsFiniteSet(closes)
    <3>1. opens \subseteq 1 .. Len(reply) /\ closes \subseteq 1 .. Len(reply)
      BY <2>1 DEF Positions
    <3>2. Len(reply) \in Nat /\ IsFiniteSet(1 .. Len(reply))
      BY <2>1, FS_Interval
    <3> HIDE DEF opens, closes
    <3>3. IsFiniteSet(opens) /\ IsFiniteSet(closes)
      BY <3>1, <3>2, FS_Subset, Zenon
    <3> QED
      BY <3>1, <3>3
  <2>3. ASSUME Cardinality(opens) = 1, Cardinality(closes) = 1, IsObject(object), reached
        PROVE  call.out = object
    <3>1. PICK o : opens = {o}
      BY <2>2, <2>3, FS_Singleton
    <3>2. PICK c : closes = {c}
      BY <2>2, <2>3, FS_Singleton
    <3>3. Min(opens) = o /\ Min(closes) = c
      BY <2>2, <3>1, <3>2, MinIs
    <3> HIDE DEF fences, reply
    <3>4. IsObject(SubSeq(reply, o, c)) /\ (1 \notin fences \/ \A f \in fences \ {1} : f > c)
      BY <2>3, <3>3
    <3>5. ExtractJson(reply) = SubSeq(reply, o, c)
      BY <2>1, <3>1, <3>2, <3>4, OneObjectIsFound, Zenon DEF fences
    <3> QED
      BY <2>1, <3>3, <3>5 DEF reply
  <2>4. ASSUME 1 \notin fences, opens # {}, Cardinality({c \in closes : c > Min(opens)}) > 1
        PROVE  call.out = InvalidJson
    <3> DEFINE a == Min(opens)
               later == {c \in closes : c > a}
    <3>1. a \in opens
      BY <2>2, <2>4, MinIs
    <3>2. \E b, d \in later : b < d
      <4> HIDE DEF closes, a, later
      <4>1. later \in SUBSET Int /\ IsFiniteSet(later)
        BY <2>2, FS_Subset DEF later
      <4>2. later # {}
        BY <2>4, FS_EmptySet DEF later, a
      <4>3. PICK b \in later : TRUE
        BY <4>2
      <4>4. \E d \in later : d # b
        <5>1. ASSUME later = {b} PROVE FALSE
          <6>1. Cardinality(later) = 1
            BY <5>1, FS_Singleton
          <6> QED
            BY <2>4, <6>1 DEF later, a
        <5> QED
          BY <4>3, <5>1
      <4> QED
        BY <4>1, <4>3, <4>4
    <3>3. PICK b \in later, d \in later : b < d
      BY <3>2
    <3>4. b \in closes /\ d \in closes /\ a < b
      <4>1. b > a /\ b \in closes /\ d \in closes /\ a \in Int /\ b \in Int
        BY <2>2, <3>1
      <4> HIDE DEF a, closes
      <4> QED
        BY <4>1
    <3> HIDE DEF a, later, reply
    <3>5. ExtractJson(reply) = InvalidJson
      BY <2>1, <2>4, <3>1, <3>3, <3>4, TwoObjectsAreNone, Zenon
    <3> QED
      BY <2>1, <3>5 DEF reply
  <2> QED
    BY <2>3, <2>4, Zenon DEF ReplyHoldsOneObject
<1>4. StitchRestoresPage
  <2> SUFFICES ASSUME Ran("stitch") PROVE StitchRestoresPage
    BY DEF StitchRestoresPage
  <2> DEFINE page == call.in.page
             from == call.in.from
             to == call.in.to
  <2>1. /\ call.in \in Inputs["stitch"]
        /\ call.out = StitchTiles(<<Read(page, 1, to), Read(page, from, Len(page))>>)
    BY RanIs DEF Answer
  <2>2. /\ page \in Seq([kind : STRING, text : STRING])
        /\ from \in 1 .. Len(page) /\ to \in 0 .. Len(page) /\ from <= to + 1
    BY <2>1, StitchAssumption, Zenon
  <2>3. page \in Seq(PageRows(STRING, STRING))
    BY <2>2, Zenon DEF PageRows
  <2>4. from \in Nat \ {0} /\ to \in Nat /\ from <= to + 1 /\ from <= Len(page) /\ to <= Len(page)
    <3> HIDE DEF page, from, to
    <3>1. Len(page) \in Nat
      BY <2>3
    <3> QED
      BY <2>2, <3>1
  <2> HIDE DEF page, from, to
  <2>5. /\ Len(call.out) <= Len(page)
        /\ \A i \in DOMAIN call.out : call.out[i].n = i
        /\ (\A i, j \in DOMAIN page : i # j => ~LinesMatch(page[i], page[j])) =>
             [i \in DOMAIN call.out |->
                [kind |-> call.out[i].kind, text |-> call.out[i].text]] = page
    <3> DEFINE out == StitchTiles(<<Read(page, 1, to), Read(page, from, Len(page))>>)
               distinct == \A i, j \in DOMAIN page : i # j => ~LinesMatch(page[i], page[j])
    <3>1. /\ Len(out) <= Len(page)
          /\ \A i \in DOMAIN out : out[i].n = i
          /\ distinct => [i \in DOMAIN out |-> [kind |-> out[i].kind, text |-> out[i].text]] = page
      BY <2>3, <2>4, StitchingRestores
    <3> HIDE DEF out, distinct
    <3>2. call.out = out
      BY <2>1 DEF out
    <3> QED
      BY <3>1, <3>2, Zenon DEF distinct
  <2> QED
    BY <2>5, Zenon DEF StitchRestoresPage, page
<1>5. PageIsWholeOrFailed
  <2> SUFFICES ASSUME Ran("page") PROVE PageIsWholeOrFailed
    BY DEF PageIsWholeOrFailed
  <2> DEFINE in == call.in
  <2>1. /\ in \in Inputs["page"]
        /\ call.out = RecognizeBands(in.hasKey, in.hasSdk,
                        [i \in DOMAIN in.answers |-> AnswerOf(in.answers[i], i)])
    BY RanIs DEF Answer
  <2>2. /\ in.hasKey \in BOOLEAN /\ in.hasSdk \in BOOLEAN /\ in.answers \in Seq(Answered)
        /\ Len(in.answers) \in 1 .. 2 /\ <<"a", "b">> \notin Alike
    BY <2>1, PageAssumption, Zenon
  <2> DEFINE whole == /\ in.hasKey /\ in.hasSdk
                      /\ \A i \in DOMAIN in.answers :
                           /\ ~in.answers[i].error /\ in.answers[i].stop = "end_turn"
                           /\ in.answers[i].json = "object"
  <2>3. /\ call.out.code = "ok" <=> whole
        /\ whole => /\ Len(call.out.lines) = Len(in.answers) /\ call.out.header = 1
                    /\ call.out.tokens = IF Len(in.answers) = 1 THEN 1 ELSE 3
    <3> DEFINE hasKey == in.hasKey
               hasSdk == in.hasSdk
               given == in.answers
               page == RecognizeBands(hasKey, hasSdk,
                                      [i \in DOMAIN given |-> AnswerOf(given[i], i)])
    <3>1. /\ hasKey \in BOOLEAN /\ hasSdk \in BOOLEAN /\ given \in Seq(Answered)
          /\ Len(given) \in 1 .. 2
      BY <2>2, Zenon
    <3>2. call.out = page
      BY <2>1, Zenon
    <3> DEFINE all == /\ hasKey /\ hasSdk
                      /\ \A i \in DOMAIN given : /\ ~given[i].error /\ given[i].stop = "end_turn"
                                                 /\ given[i].json = "object"
    <3> HIDE DEF hasKey, hasSdk, given
    <3>3. /\ page.code = "ok" <=> all
          /\ all => /\ Len(page.lines) = Len(given) /\ page.header = 1
                     /\ page.tokens = IF Len(given) = 1 THEN 1 ELSE 3
      BY <2>2, <3>1, PageComesWhole
    <3> QED
      BY <3>2, <3>3, Zenon DEF hasKey, hasSdk, given
  <2> QED
    BY <2>3, Zenon DEF PageIsWholeOrFailed
<1> QED
  BY <1>1, <1>2, <1>3, <1>4, <1>5, Zenon DEF PageIsRead

--------------------------------------------------------------------------------
(* A photo measured: what counts as ink, and the tilt. *)

\* The ink that is counted in a row is the ink inside its paper.
LEMMA RowCountsInside ==
  ASSUME NEW span, NEW marks, NEW inside, span # NoSpan => inside = marks \cap (span[1] + 1 .. span[2] - 1)
  PROVE  Row(span, inside) = Row(span, marks)
<1> CASE span = NoSpan
  BY DEF Row
<1> CASE span # NoSpan
  <2> DEFINE inner == span[1] + 1 .. span[2] - 1
  <2>1. inside \cap inner = marks \cap inner
    OBVIOUS
  <2> QED
    BY <2>1 DEF Row
<1> QED
  OBVIOUS

\* No ink on the desk or across the edge of the paper changes what is detected
\* (line_detection.py): analysing only what lies strictly inside each row's
\* paper gives the same profile, runs, pieces and bands, for every sheet,
\* smoothing window and least height.
THEOREM SurroundIsIgnored ==
  ASSUME NEW paper, NEW ink, NEW window, NEW minHeight
  PROVE  LET found == AnalyzeLines(paper, ink, window, minHeight)
             Inside(span) == IF span = NoSpan THEN {} ELSE span[1] + 1 .. span[2] - 1
         IN  AnalyzeLines(paper, [r \in DOMAIN paper |-> ink[r] \cap Inside(found.spans[r])],
                          window, minHeight) = found
<1> DEFINE found == AnalyzeLines(paper, ink, window, minHeight)
           Inside(span) == IF span = NoSpan THEN {} ELSE span[1] + 1 .. span[2] - 1
           spans == FillEnclosedGaps(PaperSpans(paper),
                      RoundEven(MaxHeight[1] * Height(paper), MaxHeight[2]))
           inner == [r \in DOMAIN paper |-> ink[r] \cap Inside(spans[r])]
           Guarded(rows) == GuardPaperEdges(rows, [r \in DOMAIN paper |-> spans[r] # NoSpan], EdgeGuard)
           Found(raw) ==
             LET n == Height(paper)
                 profile == Smooth(raw, window)
                 runs == MergeGaps(Runs([r \in DOMAIN profile |-> profile[r] >= RowInkFraction]),
                                   MergeGap, n)
                 pieces == UNION {SplitAtValleys(run, profile) : run \in runs}
                 cores == {TrimToCore(piece, profile) : piece \in pieces}
             IN [ spans |-> spans, raw |-> raw, profile |-> profile, runs |-> runs, pieces |-> pieces,
                  bands |-> {c \in cores : /\ NotTooTall(c, n)
                                            /\ TallEnough(c, raw, minHeight)} ]
           Counted(marks) == Guarded([r \in DOMAIN paper |-> Row(spans[r], marks[r])])
<1>1. found = Found(Counted(ink)) /\ AnalyzeLines(paper, inner, window, minHeight) = Found(Counted(inner))
  BY Zenon DEF AnalyzeLines
<1>2. found.spans = spans
  <2> HIDE DEF spans
  <2>1. ASSUME NEW raw PROVE Found(raw).spans = spans
    OBVIOUS
  <2> HIDE DEF Found, Counted, found
  <2> QED
    BY <1>1, <2>1
<1>3. [r \in DOMAIN paper |-> Row(spans[r], inner[r])] = [r \in DOMAIN paper |-> Row(spans[r], ink[r])]
  <2> HIDE DEF spans
  <2>1. ASSUME NEW r \in DOMAIN paper PROVE Row(spans[r], inner[r]) = Row(spans[r], ink[r])
    <3>1. inner[r] = ink[r] \cap Inside(spans[r])
      OBVIOUS
    <3> HIDE DEF inner
    <3> QED
      BY <3>1, RowCountsInside
  <2> HIDE DEF inner
  <2> QED
    BY <2>1
<1>4. Counted(inner) = Counted(ink)
  <2> HIDE DEF spans, inner
  <2> QED
    BY <1>3
<1> HIDE DEF Found, Counted, found
<1>5. AnalyzeLines(paper, inner, window, minHeight) = found
  BY <1>1, <1>4
<1> HIDE DEF spans
<1> QED
  BY <1>2, <1>5, Zenon DEF found

\* A row whose flag is set is in a run.
LEMMA RunAround ==
  ASSUME NEW n \in Nat, NEW flags, DOMAIN flags = 0 .. n - 1, NEW r \in 0 .. n - 1, flags[r]
  PROVE  \E run \in Runs(flags) : Overlap(run, r)
<1>1. Height(flags) = n
  BY FS_Interval DEF Height
<1>2. PICK a \in 0 .. r : /\ \A i \in a .. r : flags[i]
                          /\ a - 1 \notin DOMAIN flags \/ ~flags[a - 1]
  <2> DEFINE starts == {i \in 0 .. r : \A j \in i .. r : flags[j]}
  <2>1. r \in starts /\ starts \subseteq Nat
    OBVIOUS
  <2>2. PICK a \in starts : \A i \in starts : a <= i
    <3> HIDE DEF starts
    <3> QED
      BY <2>1, LeastNatural
  <2>3. a - 1 \notin starts
    BY <2>2
  <2> QED
    BY <2>2, <2>3
<1>3. PICK b \in r + 1 .. n : /\ \A i \in r .. b - 1 : flags[i]
                              /\ b \notin DOMAIN flags \/ ~flags[b]
  <2> DEFINE ends == {i \in r + 1 .. n : i = n \/ ~flags[i]}
  <2>1. n \in ends /\ ends \subseteq Nat
    OBVIOUS
  <2>2. PICK b \in ends : \A i \in ends : b <= i
    <3> HIDE DEF ends
    <3> QED
      BY <2>1, LeastNatural
  <2>3. \A i \in r + 1 .. b - 1 : i \notin ends
    BY <2>2
  <2> QED
    BY <2>2, <2>3
<1>4. <<a, b>> \in Runs(flags)
  <2>1. <<a, b>> \in (0 .. n) \X (0 .. n) /\ a < b /\ <<a, b>>[1] = a /\ <<a, b>>[2] = b
    OBVIOUS
  <2>2. \A i \in a .. b - 1 : flags[i]
    BY <1>2, <1>3
  <2> QED
    BY <1>1, <1>2, <1>3, <2>1, <2>2 DEF Runs
<1> QED
  BY <1>4 DEF Overlap

\* Paper around a row, with no more dark rows between than the tallest row.
Enclosed(paper, r, n) ==
  \E above \in 0 .. r - 1, below \in r + 1 .. n - 1 :
    /\ paper[above] # {} /\ paper[below] # {}
    /\ \A dark \in above + 1 .. below - 1 : PaperSpans(paper)[dark] = NoSpan
    /\ below - above - 1 <= RoundEven(MaxHeight[1] * n, MaxHeight[2])

\* A dark row counts as writing only where paper encloses it (line_detection.py):
\* a row that holds ink has paper, or paper above and below with no more dark
\* rows between them than the tallest row of writing, however dark the surround.
THEOREM InkNeedsPaper ==
  ASSUME NEW n \in Nat, NEW paper, DOMAIN paper = 0 .. n - 1, NEW ink, NEW window, NEW minHeight,
         NEW r \in 0 .. n - 1, AnalyzeLines(paper, ink, window, minHeight).raw[r] # 0
  PROVE  paper[r] # {} \/ Enclosed(paper, r, n)
<1> DEFINE own == PaperSpans(paper)
           maxRun == RoundEven(MaxHeight[1] * Height(paper), MaxHeight[2])
           spans == FillEnclosedGaps(own, maxRun)
           flags == [i \in DOMAIN own |-> own[i] = NoSpan]
           dark == Runs(flags)
           around == CHOOSE run \in dark : Overlap(run, r)
           rows == [i \in DOMAIN paper |-> Row(spans[i], ink[i])]
           raw == GuardPaperEdges(rows, [i \in DOMAIN paper |-> spans[i] # NoSpan], EdgeGuard)
<1>1. DOMAIN own = 0 .. n - 1 /\ \A i \in 0 .. n - 1 : own[i] # NoSpan => paper[i] # {}
  BY DEF PaperSpans
<1>2. Height(paper) = n /\ Height(own) = n
  <2>1. Cardinality(0 .. n - 1) = n
    BY FS_Interval
  <2> HIDE DEF own
  <2> QED
    BY <1>1, <2>1, Zenon DEF Height
<1>3. AnalyzeLines(paper, ink, window, minHeight).raw = raw
  BY Zenon DEF AnalyzeLines
<1>4. spans[r] # NoSpan
  <2> HIDE DEF spans
  <2>1. raw[r] = rows[r] \/ raw[r] = 0
    <3> HIDE DEF rows
    <3>1. DOMAIN rows = 0 .. n - 1
      BY DEF rows
    <3> QED
      BY <3>1 DEF GuardPaperEdges
  <2>2. rows[r] = Row(spans[r], ink[r])
    OBVIOUS
  <2> HIDE DEF raw, rows
  <2> QED
    BY <1>3, <2>1, <2>2 DEF Row
<1>5. CASE own[r] # NoSpan
  BY <1>1, <1>5
<1>6. CASE own[r] = NoSpan
  <2>1. DOMAIN flags = 0 .. n - 1 /\ \A i \in 0 .. n - 1 : (flags[i] <=> own[i] = NoSpan)
    BY <1>1
  <2> HIDE DEF own
  <2>2. spans[r] = IF around[1] > 0 /\ around[2] < n /\ around[2] - around[1] <= maxRun
                   THEN Wider(own[around[1] - 1], own[around[2]]) ELSE NoSpan
    BY <1>1, <1>2, <1>6 DEF FillEnclosedGaps
  <2> HIDE DEF flags
  <2>3. \E run \in dark : Overlap(run, r)
    BY <1>6, <2>1, RunAround
  <2> HIDE DEF dark, spans, maxRun
  <2>4. around \in dark /\ Overlap(around, r)
    BY <2>3
  <2> HIDE DEF around
  <2>5. /\ around \in (0 .. n) \X (0 .. n)
        /\ \A i \in around[1] .. around[2] - 1 : flags[i]
        /\ around[1] - 1 \notin DOMAIN flags \/ ~flags[around[1] - 1]
        /\ around[2] \notin DOMAIN flags \/ ~flags[around[2]]
    <3>1. Height(flags) = n
      BY <2>1, FS_Interval DEF Height
    <3>2. around \in Runs(flags)
      BY <2>4 DEF dark
    <3> QED
      BY <3>1, <3>2, Zenon DEF Runs
  <2>6. around[1] \in 1 .. r /\ around[2] \in r + 1 .. n - 1 /\ around[2] - around[1] <= maxRun
    <3>1. around[1] > 0 /\ around[2] < n /\ around[2] - around[1] <= maxRun
      BY <1>4, <2>2, Zenon
    <3>2. around[1] \in 0 .. n /\ around[2] \in 0 .. n /\ around[1] <= r /\ r < around[2]
      BY <2>4, <2>5 DEF Overlap
    <3> QED
      BY <3>1, <3>2
  <2>7. own[around[1] - 1] # NoSpan /\ own[around[2]] # NoSpan
        /\ \A i \in around[1] .. around[2] - 1 : own[i] = NoSpan
    <3>1. /\ around[1] - 1 \in 0 .. n - 1 /\ around[2] \in 0 .. n - 1
          /\ \A i \in around[1] .. around[2] - 1 : i \in 0 .. n - 1
      BY <2>6
    <3> QED
      BY <2>1, <2>5, <3>1, Zenon
  <2> DEFINE above == around[1] - 1
             below == around[2]
  <2>8. /\ above \in 0 .. r - 1 /\ below \in r + 1 .. n - 1
        /\ paper[above] # {} /\ paper[below] # {}
        /\ \A i \in above + 1 .. below - 1 : own[i] = NoSpan
        /\ below - above - 1 <= maxRun
    BY <1>1, <2>6, <2>7
  <2> QED
    BY <1>2, <2>8 DEF own, maxRun, Enclosed
<1> QED
  BY <1>5, <1>6

LEMMA MultipleIs ==
  ASSUME NEW q \in Int, NEW c \in Nat \ {0}
  PROVE  (c * q) % c = 0
<1> DEFINE a == c * q
           d == a \div c
           e == a % c
<1>1. a \in Int
  OBVIOUS
<1>2. d \in Int /\ e \in 0 .. c - 1 /\ c * q = c * d + e
  BY <1>1, QuotientType
<1> HIDE DEF a, d, e
<1>3. q >= d + 1 => c * (d + 1) <= c * q
  BY <1>2, ProductGrows
<1>4. q <= d - 1 => c * q <= c * (d - 1)
  BY <1>2, ProductGrows
<1>5. c * (d + 1) = c * d + c /\ c * (d - 1) = c * d - c /\ c * d \in Int /\ c * q \in Int
  BY <1>2
<1>6. q = d
  BY <1>2, <1>3, <1>4, <1>5
<1> QED
  BY <1>2, <1>5, <1>6 DEF a, e

\* The multiples of c around what is none.
LEMMA BetweenMultiples ==
  ASSUME NEW x \in Int, NEW c \in Nat \ {0}, x % c # 0
  PROVE  LET lo == x - (x % c)
         IN  /\ lo < x /\ x < lo + c /\ lo % c = 0 /\ (lo + c) % c = 0
             /\ \A y \in Int : y % c = 0 => y <= lo \/ y >= lo + c
<1> DEFINE lo == x - (x % c)
           q == x \div c
<1>1. q \in Int /\ x % c \in 0 .. c - 1 /\ lo = c * q /\ lo + c = c * (q + 1)
  <2> DEFINE m == x % c
  <2>1. c \in Int /\ c > 0
    OBVIOUS
  <2>2. q \in Int /\ m \in 0 .. c - 1 /\ x = c * q + m
    BY <2>1, QuotientType, Zenon
  <2>3. lo = x - m
    OBVIOUS
  <2> HIDE DEF q, m, lo
  <2>4. c * (q + 1) = c * q + c
    BY <2>2
  <2>5. lo = c * q /\ lo + c = c * (q + 1)
    BY <2>2, <2>3, <2>4
  <2> QED
    BY <2>2, <2>5 DEF m
<1> HIDE DEF lo, q
<1>2. lo % c = 0 /\ (lo + c) % c = 0
  BY <1>1, MultipleIs
<1>3. ASSUME NEW y \in Int, y % c = 0 PROVE y <= lo \/ y >= lo + c
  <2> DEFINE p == y \div c
  <2>1. p \in Int /\ y = c * p
    BY <1>3, QuotientType
  <2> HIDE DEF p
  <2>2. p <= q => c * p <= c * q
    BY <1>1, <2>1, ProductGrows
  <2>3. p >= q + 1 => c * (q + 1) <= c * p
    BY <1>1, <2>1, ProductGrows
  <2> QED
    BY <1>1, <2>1, <2>2, <2>3
<1>4. lo < x /\ x < lo + c
  <2> DEFINE m == x % c
  <2>1. lo = x - m /\ m \in 0 .. c - 1 /\ m # 0
    BY <1>1 DEF lo
  <2> HIDE DEF m
  <2> QED
    BY <2>1
<1> QED
  BY <1>2, <1>3, <1>4, Zenon DEF lo

\* The best candidate exists: it is one, none scores more, and none that scores
\* as much is a smaller turn.
LEMMA SharpestIs ==
  ASSUME NEW S, S \subseteq Int, S # {}, IsFiniteSet(S),
         NEW score, \A a \in S : score[a] \in Int
  PROVE  LET g == Sharpest(S, score)
         IN  /\ g \in S
             /\ \A a \in S : score[a] <= score[g]
             /\ \A a \in S : score[a] = score[g] => Magnitude(g) <= Magnitude(a)
<1> DEFINE best == {a \in S : \A b \in S : score[a] >= score[b]}
           least == {a \in best : \A b \in best : Magnitude(a) <= Magnitude(b)}
           scores == {score[a] : a \in S}
           sizes == {Magnitude(a) : a \in best}
<1>1. \E a \in S : \A b \in S : score[a] >= score[b]
  <2>1. scores \subseteq Int /\ scores # {} /\ IsFiniteSet(scores)
    <3> DEFINE f == [a \in S |-> score[a]]
    <3>1. f \in Surjection(S, scores)
      BY DEF Surjection
    <3> HIDE DEF f
    <3>2. IsFiniteSet(scores)
      BY <3>1, FS_Surjection
    <3> QED
      BY <3>2
  <2>2. Max(scores) \in scores /\ \A y \in scores : Max(scores) >= y
    <3> HIDE DEF scores
    <3> QED
      BY <2>1, MaxIs
  <2>3. PICK a \in S : Max(scores) = score[a]
    BY <2>2
  <2>4. \A b \in S : score[b] \in scores
    OBVIOUS
  <2> HIDE DEF scores
  <2> QED
    BY <2>2, <2>3, <2>4
<1>2. best # {} /\ best \subseteq S
  BY <1>1
<1>3. \A a \in Int : Magnitude(a) \in Nat
  BY DEF Magnitude
<1>4. \E a \in best : \A b \in best : Magnitude(a) <= Magnitude(b)
  <2> HIDE DEF best
  <2>1. sizes \subseteq Nat /\ sizes # {}
    BY <1>2, <1>3
  <2>2. PICK m \in sizes : \A y \in sizes : m <= y
    <3> HIDE DEF sizes
    <3> QED
      BY <2>1, LeastNatural
  <2> QED
    BY <2>2
<1>5. least # {} /\ least \subseteq Int /\ IsFiniteSet(least)
  <2>1. least # {}
    BY <1>4
  <2>2. least \subseteq S
    OBVIOUS
  <2> HIDE DEF least
  <2> QED
    BY <2>1, <2>2, FS_Subset
<1>6. Min(least) \in least
  <2> HIDE DEF least
  <2> QED
    BY <1>5, MinIs
<1>7. Sharpest(S, score) = Min(least)
  BY DEF Sharpest
<1> DEFINE g == Min(least)
<1>8. g \in S /\ (\A b \in S : score[g] >= score[b]) /\ \A b \in best : Magnitude(g) <= Magnitude(b)
  BY <1>6
<1>9. \A a \in S : score[a] = score[g] => a \in best
  <2> HIDE DEF g
  <2> QED
    BY <1>8
<1> HIDE DEF g, best, least
<1> QED
  BY <1>7, <1>8, <1>9 DEF g

\* A sharpness that falls off on either side of a plateau, and the plateau's
\* smallest turn.
Peaked(score, first, last) ==
  LET range == -SkewRange - FineSteps .. SkewRange + FineSteps
  IN  /\ \A a \in range : score[a] \in Int
      /\ \A a, b \in range :
           a < b => /\ b <= first => score[a] < score[b]
                    /\ first <= a /\ b <= last => score[a] = score[b]
                    /\ last <= a => score[a] > score[b]
Nearest(first, last) == IF first > 0 THEN first ELSE IF last < 0 THEN last ELSE 0

\* The two-stage search finds the sharpest rotation of the whole range, the
\* smallest of the equally sharp (line_detection.py), whatever the slopes are
\* on either side of the peak, for any range that the coarse step divides and any
\* fine pass that reaches the step before the next coarse angle.
THEOREM SearchFindsSharpest ==
  ASSUME SkewRange \in Nat, CoarseStep \in Nat \ {0}, SkewRange % CoarseStep = 0,
         FineSteps \in Nat, FineSteps >= CoarseStep - 1,
         NEW first \in Int, NEW last \in Int, first <= last,
         NEW score, Peaked(score, first, last),
         Nearest(first, last) \in -SkewRange .. SkewRange
  PROVE  SkewAngle(score) = Nearest(first, last)
<1> SUFFICES ASSUME \A a \in -SkewRange - FineSteps .. SkewRange + FineSteps : score[a] \in Int,
                    \A a, b \in -SkewRange - FineSteps .. SkewRange + FineSteps :
                       a < b => /\ b <= first => score[a] < score[b]
                                /\ first <= a /\ b <= last => score[a] = score[b]
                                /\ last <= a => score[a] > score[b],
                    NEW nearest \in -SkewRange .. SkewRange,
                    nearest = IF first > 0 THEN first ELSE IF last < 0 THEN last ELSE 0
             PROVE  SkewAngle(score) = nearest
  BY DEF Peaked, Nearest
<1> DEFINE range == -SkewRange - FineSteps .. SkewRange + FineSteps
           coarse == {a \in -SkewRange .. SkewRange : (a + SkewRange) % CoarseStep = 0}
           g == Sharpest(coarse, score)
           fine == FineAngles(g)
           out == Sharpest(fine, score)
<1>1. first <= nearest /\ nearest <= last
  OBVIOUS
<1>2. \A a \in range : /\ score[a] <= score[nearest]
                       /\ score[a] = score[nearest] => first <= a /\ a <= last
  BY <1>1
<1>3. \A a \in Int : first <= a /\ a <= last =>
         Magnitude(nearest) <= Magnitude(a) /\ (Magnitude(a) = Magnitude(nearest) => a = nearest)
  BY DEF Magnitude
\* Where the peak is a candidate, it wins.
<1>4. ASSUME NEW S, S \subseteq range, nearest \in S, IsFiniteSet(S)
      PROVE  Sharpest(S, score) = nearest
  <2> DEFINE w == Sharpest(S, score)
  <2>1. /\ w \in S /\ score[nearest] <= score[w]
        /\ score[nearest] = score[w] => Magnitude(w) <= Magnitude(nearest)
    <3>1. S \subseteq Int /\ S # {} /\ \A a \in S : score[a] \in Int
      BY <1>4
    <3> HIDE DEF w
    <3> QED
      BY <1>4, <3>1, SharpestIs DEF w
  <2> HIDE DEF w
  <2>2. w \in range /\ w \in Int /\ score[w] = score[nearest]
    BY <1>2, <1>4, <2>1
  <2>3. first <= w /\ w <= last /\ Magnitude(w) <= Magnitude(nearest)
    BY <1>2, <2>1, <2>2
  <2>4. Magnitude(w) = Magnitude(nearest)
    BY <1>3, <2>2, <2>3 DEF Magnitude
  <2> QED
    BY <1>3, <2>2, <2>3, <2>4 DEF w
<1>5. coarse \subseteq range /\ IsFiniteSet(coarse) /\ coarse \subseteq Int
  <2>1. coarse \subseteq -SkewRange .. SkewRange /\ IsFiniteSet(-SkewRange .. SkewRange)
    BY FS_Interval
  <2> QED
    BY <2>1, FS_Subset
<1>6. -SkewRange \in coarse
  OBVIOUS
<1>7. /\ g \in coarse /\ \A a \in coarse : score[a] <= score[g]
      /\ \A a \in coarse : score[a] = score[g] => Magnitude(g) <= Magnitude(a)
  <2>1. coarse # {} /\ \A a \in coarse : score[a] \in Int
    BY <1>5, <1>6
  <2> HIDE DEF coarse
  <2> QED
    BY <1>5, <2>1, SharpestIs
\* The coarse winner is a coarse angle beside the peak.
<1>8. g - FineSteps <= nearest /\ nearest <= g + FineSteps
  <2>1. CASE nearest \in coarse
    <3>1. g = nearest
      <4> HIDE DEF coarse
      <4> QED
        BY <1>4, <1>5, <2>1
    <3> QED
      BY <3>1
  <2>2. CASE nearest \notin coarse
    <3> DEFINE x == nearest + SkewRange
               lo == x - (x % CoarseStep) - SkewRange
               hi == lo + CoarseStep
    <3>1. x \in Int /\ x % CoarseStep # 0
      BY <2>2
    <3>2. /\ lo \in Int /\ lo < nearest /\ nearest < hi
          /\ (lo + SkewRange) % CoarseStep = 0 /\ (hi + SkewRange) % CoarseStep = 0
          /\ \A y \in Int : y % CoarseStep = 0 => y <= lo + SkewRange \/ y >= hi + SkewRange
      <4>1. x % CoarseStep \in Int
        BY <3>1, QuotientType
      <4> HIDE DEF x
      <4>2. lo + SkewRange = x - (x % CoarseStep) /\ hi + SkewRange = x - (x % CoarseStep) + CoarseStep
        BY <3>1, <4>1
      <4>3. LET l == x - (x % CoarseStep)
            IN  /\ l < x /\ x < l + CoarseStep /\ l % CoarseStep = 0 /\ (l + CoarseStep) % CoarseStep = 0
                /\ \A y \in Int : y % CoarseStep = 0 => y <= l \/ y >= l + CoarseStep
        BY <3>1, BetweenMultiples
      <4>4. lo \in Int
        BY <3>1, <4>1
      <4>5. \A y \in Int : y % CoarseStep = 0 => y <= lo + SkewRange \/ y >= hi + SkewRange
        BY <4>2, <4>3, Zenon
      <4>6. /\ lo + SkewRange < x /\ x < hi + SkewRange
            /\ (lo + SkewRange) % CoarseStep = 0 /\ (hi + SkewRange) % CoarseStep = 0
        BY <4>2, <4>3, Zenon
      <4>7. lo < nearest /\ nearest < hi
        <5>1. hi \in Int /\ x = nearest + SkewRange
          BY <4>4 DEF x
        <5> HIDE DEF lo, hi
        <5> QED
          BY <4>4, <4>6, <5>1
      <4> HIDE DEF lo, hi
      <4> QED
        BY <4>4, <4>5, <4>6, <4>7
    <3> HIDE DEF lo, x
    <3>3. \A a \in coarse : a <= lo \/ a >= hi
      <4>1. ASSUME NEW a \in coarse PROVE a <= lo \/ a >= hi
        <5>1. a \in Int /\ a + SkewRange \in Int /\ (a + SkewRange) % CoarseStep = 0
          OBVIOUS
        <5>2. a + SkewRange <= lo + SkewRange \/ a + SkewRange >= hi + SkewRange
          BY <3>2, <5>1
        <5> QED
          BY <3>2, <5>1, <5>2
      <4> QED
        BY <4>1
    <3>4. -SkewRange <= lo
      BY <1>6, <3>2, <3>3
    <3>5. SkewRange \in coarse
      <4> DEFINE q == SkewRange \div CoarseStep
      <4>1. q \in Int /\ SkewRange = CoarseStep * q
        BY QuotientType
      <4> HIDE DEF q
      <4> DEFINE p == 2 * q
      <4>2. SkewRange + SkewRange = CoarseStep * p /\ p \in Int
        BY <4>1
      <4> HIDE DEF p
      <4>3. (CoarseStep * p) % CoarseStep = 0
        BY <4>2, MultipleIs
      <4>4. (SkewRange + SkewRange) % CoarseStep = 0
        BY <4>2, <4>3, Zenon
      <4> QED
        BY <4>4
    <3>6. hi <= SkewRange
      BY <3>2, <3>3, <3>5
    <3>7. lo \in coarse /\ hi \in coarse
      BY <3>2, <3>4, <3>6
    <3>8. 0 \in coarse
      OBVIOUS
    <3> HIDE DEF coarse, hi
    <3>9. nearest # 0
      BY <2>2, <3>8
    <3>10. lo \in Int /\ hi \in Int /\ hi = lo + CoarseStep /\ g \in Int
      <4> HIDE DEF g
      <4>1. g \in Int
        BY <1>5, <1>7
      <4> QED
        BY <3>2, <4>1 DEF hi
    <3>11. g = lo \/ g = hi
      <4>1. SUFFICES ASSUME g < lo \/ hi < g PROVE FALSE
        BY <1>7, <3>3, <3>10
      <4> HIDE DEF g
      <4>2. lo \in range /\ hi \in range /\ g \in range
        BY <1>5, <1>7, <3>7
      <4>3. score[lo] <= score[g] /\ score[hi] <= score[g]
            /\ (score[hi] = score[g] => Magnitude(g) <= Magnitude(hi))
            /\ (score[lo] = score[g] => Magnitude(g) <= Magnitude(lo))
        BY <1>7, <3>7
      <4>4. CASE nearest > 0
        <5>1. nearest = first /\ lo < first
          BY <3>2, <3>10, <4>4
        <5>2. ~ g < lo
          BY <3>10, <4>2, <4>3, <5>1
        <5>3. hi < g /\ first < hi /\ 0 < hi
          BY <3>2, <3>10, <4>1, <4>4, <5>1, <5>2
        <5>4. CASE last <= hi
          BY <3>10, <4>2, <4>3, <5>3, <5>4
        <5>5. CASE g <= last
          <6>1. score[hi] = score[g]
            BY <3>10, <4>2, <5>3, <5>5
          <6> QED
            BY <3>10, <4>3, <5>3, <6>1 DEF Magnitude
        <5>6. CASE hi < last /\ last < g
          <6>1. last \in range /\ score[hi] = score[last] /\ score[last] > score[g]
            BY <3>10, <4>2, <5>3, <5>6
          <6> QED
            BY <4>2, <4>3, <6>1
        <5> QED
          BY <3>10, <5>4, <5>5, <5>6
      <4>5. CASE nearest < 0
        <5>1. nearest = last /\ last < hi
          BY <3>2, <3>10, <4>5
        <5>2. ~ hi < g
          BY <3>10, <4>2, <4>3, <5>1
        <5>3. g < lo /\ lo < last /\ lo < 0
          BY <3>2, <3>10, <4>1, <4>5, <5>1, <5>2
        <5>4. CASE lo <= first
          BY <3>10, <4>2, <4>3, <5>3, <5>4
        <5>5. CASE first <= g
          <6>1. score[g] = score[lo]
            BY <3>10, <4>2, <5>3, <5>5
          <6> QED
            BY <3>10, <4>3, <5>3, <6>1 DEF Magnitude
        <5>6. CASE g < first /\ first < lo
          <6>1. first \in range /\ score[first] = score[lo] /\ score[g] < score[first]
            BY <3>10, <4>2, <5>3, <5>6
          <6> QED
            BY <4>2, <4>3, <6>1
        <5> QED
          BY <3>10, <5>4, <5>5, <5>6
      <4> QED
        BY <3>9, <4>4, <4>5
    <3> QED
      BY <3>2, <3>10, <3>11
  <2> QED
    BY <2>1, <2>2
<1>9. fine \subseteq range /\ nearest \in fine /\ IsFiniteSet(fine)
  <2>1. g \in -SkewRange .. SkewRange
    BY <1>7
  <2> HIDE DEF g
  <2>2. fine = g - FineSteps .. g + FineSteps
    BY DEF FineAngles
  <2>3. IsFiniteSet(g - FineSteps .. g + FineSteps)
    BY <2>1, FS_Interval
  <2> QED
    BY <1>8, <2>1, <2>2, <2>3
<1>10. out = nearest
  <2> HIDE DEF fine
  <2> QED
    BY <1>4, <1>9
<1> QED
  BY <1>10, Zenon DEF SkewAngle

--------------------------------------------------------------------------------
(* Otsu's threshold. *)

\* The variance of the whole is what the means explain and the variance within.
LEMMA WholeVariance ==
  ASSUME NEW m \in Int, NEW n \in Int, NEW a \in Int, NEW b \in Int
  PROVE  (m + n) * (a * a * n + b * b * m)
           = (a * n - b * m) * (a * n - b * m) + (m * n) * ((a + b) * (a + b))
OBVIOUS

\* The rounded mean of integers lies between the least and the largest.
LEMMA RoundEvenBetween ==
  ASSUME NEW a \in Int, NEW b \in Nat \ {0}, NEW low \in Int, NEW high \in Int,
         low * b <= a, a <= high * b
  PROVE  low <= RoundEven(a, b) /\ RoundEven(a, b) <= high
<1> DEFINE q == a \div b
           r == a % b
<1>1. q \in Int /\ r \in 0 .. b - 1 /\ a = b * q + r
  BY QuotientType
<1>2. RoundEven(a, b) = IF 2 * r > b \/ (2 * r = b /\ q % 2 = 1) THEN q + 1 ELSE q
  BY DEF RoundEven
<1> HIDE DEF q, r
<1>3. b * low <= a /\ a <= b * high
  OBVIOUS
<1>4. low <= q
  <2>1. low >= q + 1 => b * (q + 1) <= b * low
    BY <1>1, ProductGrows
  <2>2. b * (q + 1) = b * q + b /\ b * low \in Int /\ b * q \in Int
    BY <1>1
  <2> QED
    BY <1>1, <1>3, <2>1, <2>2
<1>5. q <= high /\ (q = high => r = 0)
  <2>1. q >= high + 1 => b * (high + 1) <= b * q
    BY <1>1, ProductGrows
  <2>2. b * (high + 1) = b * high + b /\ b * high \in Int /\ b * q \in Int
    BY <1>1
  <2> QED
    BY <1>1, <1>3, <2>1, <2>2
<1> QED
  BY <1>1, <1>2, <1>4, <1>5

\* The sum of a set is that of its members, each counted as itself.
LEMMA SumOfSet ==
  ASSUME NEW S
  PROVE  SumSet(S) = SumFunctionOnSet([v \in S |-> v], S)
<1> DEFINE f == [v \in S |-> v]
           Own(g) == g = [s \in SUBSET S |-> IF s = {} THEN 0 ELSE Picked(s) + g[s \ {Picked(s)}]]
<1>1. SumSet(S) = (CHOOSE g : Own(g))[S]
  BY Zenon DEF SumSet, FoldSet, MapThenFoldSet, Picked
<1>2. ASSUME NEW g PROVE Own(g) <=> Adds(f, S, g)
  <2>1. ASSUME NEW s \in SUBSET S
        PROVE  (IF s = {} THEN 0 ELSE Picked(s) + g[s \ {Picked(s)}])
                 = (IF s = {} THEN 0 ELSE f[Picked(s)] + g[s \ {Picked(s)}])
    <3>1. s # {} => Picked(s) \in S
      BY PickedIn
    <3> QED
      BY <3>1
  <2>2. [s \in SUBSET S |-> IF s = {} THEN 0 ELSE Picked(s) + g[s \ {Picked(s)}]]
          = [s \in SUBSET S |-> IF s = {} THEN 0 ELSE f[Picked(s)] + g[s \ {Picked(s)}]]
    <3> HIDE DEF f
    <3> QED
      BY <2>1, Zenon
  <2> HIDE DEF f
  <2> QED
    BY <2>2, Zenon DEF Adds
<1>3. (CHOOSE g : Own(g)) = Sums(f, S)
  <2> HIDE DEF f, Own
  <2> QED
    BY <1>2, Zenon DEF Sums
<1> QED
  BY <1>1, <1>3, SumIsRecursive

\* The two sides of a threshold make up the histogram, for any sum over it.
LEMMA SidesSum ==
  ASSUME NEW h, IsFiniteSet(DOMAIN h), DOMAIN h \subseteq Int, NEW f, \A v \in DOMAIN h : f[v] \in Int,
         NEW t \in Int
  PROVE  /\ SumFunctionOnSet(f, Darker(h, t)) \in Int
         /\ SumFunctionOnSet(f, Lighter(h, t)) \in Int
         /\ SumFunctionOnSet(f, Darker(h, t)) + SumFunctionOnSet(f, Lighter(h, t))
              = SumFunctionOnSet(f, DOMAIN h)
<1> DEFINE D == Darker(h, t)
           L == Lighter(h, t)
<1>1. D \subseteq DOMAIN h /\ L \subseteq DOMAIN h /\ D \cap L = {} /\ D \cup L = DOMAIN h
  BY DEF Darker, Lighter
<1> HIDE DEF D, L
<1>2. IsFiniteSet(D) /\ IsFiniteSet(L)
  BY <1>1, FS_Subset
<1>3. \A x \in D \cup L : f[x] \in Int
  BY <1>1
<1>4. SumFunctionOnSet(f, D) \in Int /\ SumFunctionOnSet(f, L) \in Int
  BY <1>2, <1>3, SumType
<1>5. SumFunctionOnSet(f, D \cup L) = SumFunctionOnSet(f, D) + SumFunctionOnSet(f, L)
  BY <1>1, <1>2, <1>3, SumParts, Zenon
<1> QED
  BY <1>1, <1>4, <1>5, Zenon DEF D, L

\* A stretch of levels without a pixel adds none and no weight.
LEMMA EmptyStretch ==
  ASSUME NEW h, h \in [DOMAIN h -> Nat], DOMAIN h \subseteq Nat, IsFiniteSet(DOMAIN h),
         NEW t \in Int, NEW o \in Int, NEW u \in Int, t <= o, o <= u,
         Count(h, Darker(h, t)) = Count(h, Darker(h, u))
  PROVE  /\ Count(h, Darker(h, o)) = Count(h, Darker(h, t))
         /\ Weighted(h, Darker(h, o)) = Weighted(h, Darker(h, t))
<1> DEFINE w == [v \in DOMAIN h |-> v * h[v]]
           T == Darker(h, t)
           O == Darker(h, o)
           U == Darker(h, u)
           Lo == O \ T
           Hi == U \ O
<1>1. /\ T \subseteq DOMAIN h /\ Lo \subseteq DOMAIN h /\ Hi \subseteq DOMAIN h
      /\ T \cap Lo = {} /\ O \cap Hi = {} /\ O = T \cup Lo /\ U = O \cup Hi /\ O \subseteq DOMAIN h
  BY DEF Darker
<1>2. \A v \in DOMAIN h : h[v] \in Nat /\ v * h[v] \in Int /\ w[v] = v * h[v]
  OBVIOUS
<1>3. Weighted(h, O) = SumFunctionOnSet(w, O) /\ Weighted(h, T) = SumFunctionOnSet(w, T)
  BY DEF Weighted
<1> HIDE DEF w, T, O, U, Lo, Hi
<1>4. IsFiniteSet(T) /\ IsFiniteSet(Lo) /\ IsFiniteSet(Hi) /\ IsFiniteSet(O)
  BY <1>1, FS_Subset
<1>5. /\ Count(h, O) = Count(h, T) + Count(h, Lo)
      /\ Count(h, U) = Count(h, O) + Count(h, Hi)
  <2>1. \A x \in T \cup Lo : h[x] \in Int
    BY <1>1, <1>2
  <2>2. \A x \in O \cup Hi : h[x] \in Int
    BY <1>1, <1>2
  <2>3. SumFunctionOnSet(h, T \cup Lo) = SumFunctionOnSet(h, T) + SumFunctionOnSet(h, Lo)
    BY <1>1, <1>4, <2>1, SumParts
  <2>4. SumFunctionOnSet(h, O \cup Hi) = SumFunctionOnSet(h, O) + SumFunctionOnSet(h, Hi)
    BY <1>1, <1>4, <2>2, SumParts
  <2> QED
    BY <1>1, <2>3, <2>4, Zenon DEF Count
<1>6. /\ Count(h, T) \in Nat /\ Count(h, Lo) \in Nat /\ Count(h, Hi) \in Nat
      /\ Count(h, Lo) > 0 <=> \E a \in Lo : h[a] > 0
  BY <1>1, <1>2, <1>4, SumOfNaturals DEF Count
<1>7. Count(h, T) = Count(h, U)
  BY DEF T, U
<1>8. Count(h, Lo) = 0
  BY <1>5, <1>6, <1>7
<1>9. \A a \in Lo : w[a] = 0
  <2>1. ASSUME NEW a \in Lo PROVE w[a] = 0
    <3>1. h[a] \in Nat /\ ~ (h[a] > 0) /\ w[a] = a * h[a] /\ a \in Nat
      BY <1>1, <1>2, <1>6, <1>8
    <3> QED
      BY <3>1
  <2> QED
    BY <2>1
<1>10. SumFunctionOnSet(w, Lo) = 0
  <2>1. \A a \in Lo : w[a] \in Nat
    BY <1>9
  <2>2. SumFunctionOnSet(w, Lo) \in Nat /\ (SumFunctionOnSet(w, Lo) > 0 <=> \E a \in Lo : w[a] > 0)
    BY <1>4, <2>1, SumOfNaturals
  <2> QED
    BY <1>9, <2>2
<1>11. SumFunctionOnSet(w, O) = SumFunctionOnSet(w, T) + SumFunctionOnSet(w, Lo)
       /\ SumFunctionOnSet(w, T) \in Int
  <2>1. \A x \in T \cup Lo : w[x] \in Int
    BY <1>1, <1>2
  <2>2. SumFunctionOnSet(w, T \cup Lo) = SumFunctionOnSet(w, T) + SumFunctionOnSet(w, Lo)
    BY <1>1, <1>4, <2>1, SumParts
  <2>3. SumFunctionOnSet(w, T) \in Int
    BY <1>4, <2>1, SumType
  <2> QED
    BY <1>1, <2>2, <2>3
<1>12. Count(h, O) = Count(h, T)
  BY <1>5, <1>6, <1>8
<1>13. Weighted(h, O) = Weighted(h, T)
  BY <1>3, <1>10, <1>11
<1> QED
  BY <1>12, <1>13 DEF O, T

\* What the means of the two classes explain, as a fraction over the product of
\* the class sizes.
Explained(h, t) ==
  LET dark == <<Weighted(h, Darker(h, t)), Count(h, Darker(h, t))>>
      light == <<Weighted(h, Lighter(h, t)), Count(h, Lighter(h, t))>>
  IN <<dark[1] * dark[1] * light[2] + light[1] * light[1] * dark[2], dark[2] * light[2]>>
Tightest(h) ==
  {t \in Splits(h) : \A u \in Splits(h) : AtLeast(Explained(h, t), Explained(h, u))}
Widest(h) ==
  {t \in Splits(h) : \A u \in Splits(h) : AtLeast(Variance(h, t), Variance(h, u))}

\* The variance and what is explained order the thresholds alike.
LEMMA OrdersAlike ==
  ASSUME NEW h, h \in [DOMAIN h -> Nat], DOMAIN h \subseteq Nat, IsFiniteSet(DOMAIN h),
         NEW t \in Splits(h), NEW u \in Splits(h)
  PROVE  AtLeast(Explained(h, t), Explained(h, u)) <=> AtLeast(Variance(h, t), Variance(h, u))
<1> DEFINE w == [v \in DOMAIN h |-> v * h[v]]
           N == SumFunctionOnSet(h, DOMAIN h)
           W == SumFunctionOnSet(w, DOMAIN h)
           m(x) == Count(h, Darker(h, x))
           n(x) == Count(h, Lighter(h, x))
           a(x) == Weighted(h, Darker(h, x))
           b(x) == Weighted(h, Lighter(h, x))
           E(x) == a(x) * a(x) * n(x) + b(x) * b(x) * m(x)
           V(x) == (a(x) * n(x) - b(x) * m(x)) * (a(x) * n(x) - b(x) * m(x))
           P(x) == m(x) * n(x)
<1>1. t \in Int /\ u \in Int /\ t \in DOMAIN h /\ u \in DOMAIN h
  BY DEF Splits
<1>2. \A v \in DOMAIN h : h[v] \in Int /\ w[v] \in Int
  OBVIOUS
<1>3. ASSUME NEW x \in Int
      PROVE  /\ m(x) \in Int /\ n(x) \in Int /\ m(x) + n(x) = N
             /\ a(x) \in Int /\ b(x) \in Int /\ a(x) + b(x) = W
  <2>1. /\ SumFunctionOnSet(h, Darker(h, x)) \in Int /\ SumFunctionOnSet(h, Lighter(h, x)) \in Int
        /\ SumFunctionOnSet(h, Darker(h, x)) + SumFunctionOnSet(h, Lighter(h, x)) = N
    BY <1>2, SidesSum
  <2>2. /\ SumFunctionOnSet(w, Darker(h, x)) \in Int /\ SumFunctionOnSet(w, Lighter(h, x)) \in Int
        /\ SumFunctionOnSet(w, Darker(h, x)) + SumFunctionOnSet(w, Lighter(h, x)) = W
    <3> HIDE DEF w
    <3> QED
      BY <1>2, SidesSum
  <2> QED
    BY <2>1, <2>2, Zenon DEF Count, Weighted
<1>4. m(t) > 0 /\ n(t) > 0
  BY DEF Splits
<1>5. /\ Explained(h, t) = <<E(t), P(t)>> /\ Explained(h, u) = <<E(u), P(u)>>
  BY DEF Explained
<1>6. Variance(h, t) = <<V(t), P(t)>> /\ Variance(h, u) = <<V(u), P(u)>>
  BY DEF Variance
<1> HIDE DEF m, n, a, b, N, W
<1>7. ASSUME NEW x \in Int
      PROVE  E(x) \in Int /\ V(x) \in Int /\ P(x) \in Int /\ N * E(x) = V(x) + P(x) * (W * W)
  <2>1. /\ m(x) \in Int /\ n(x) \in Int /\ m(x) + n(x) = N
        /\ a(x) \in Int /\ b(x) \in Int /\ a(x) + b(x) = W
    BY <1>3
  <2>2. E(x) \in Int /\ V(x) \in Int /\ P(x) \in Int
    BY <2>1
  <2>3. (m(x) + n(x)) * E(x) = V(x) + P(x) * ((a(x) + b(x)) * (a(x) + b(x)))
    BY <2>1, WholeVariance
  <2> QED
    BY <2>1, <2>2, <2>3
<1>8. N \in Nat \ {0} /\ W * W \in Int
  <2>1. m(t) \in Int /\ n(t) \in Int /\ N = m(t) + n(t) /\ W = a(t) + b(t) /\ a(t) \in Int /\ b(t) \in Int
    BY <1>1, <1>3
  <2> QED
    BY <1>4, <2>1
<1> DEFINE et == E(t)
           eu == E(u)
           vt == V(t)
           vu == V(u)
           pt == P(t)
           pu == P(u)
           ww == W * W
<1>9. /\ et \in Int /\ eu \in Int /\ vt \in Int /\ vu \in Int /\ pt \in Int /\ pu \in Int
      /\ N * et = vt + pt * ww /\ N * eu = vu + pu * ww /\ ww \in Int
  BY <1>1, <1>7, <1>8
<1>10. /\ Explained(h, t) = <<et, pt>> /\ Explained(h, u) = <<eu, pu>>
       /\ Variance(h, t) = <<vt, pt>> /\ Variance(h, u) = <<vu, pu>>
  BY <1>5, <1>6
<1> HIDE DEF et, eu, vt, vu, pt, pu, ww
<1>11. et * pu >= eu * pt <=> vt * pu >= vu * pt
  <2> DEFINE l == et * pu
             r == eu * pt
  <2>1. l \in Int /\ r \in Int
    BY <1>9
  <2>2. N * l = vt * pu + (pt * pu) * ww /\ N * r = vu * pt + (pt * pu) * ww
    <3>1. N * l = (N * et) * pu /\ N * r = (N * eu) * pt
      BY <1>8, <1>9
    <3>2. (vt + pt * ww) * pu = vt * pu + (pt * pu) * ww /\ (vu + pu * ww) * pt = vu * pt + (pt * pu) * ww
      BY <1>9
    <3> HIDE DEF l, r
    <3> QED
      BY <1>9, <3>1, <3>2
  <2>3. N * l \in Int /\ N * r \in Int /\ vt * pu \in Int /\ vu * pt \in Int /\ (pt * pu) * ww \in Int
    BY <1>8, <1>9
  <2>4. r <= l => N * r <= N * l
    BY <1>8, <2>1, ProductGrows
  <2>5. ASSUME ~ (r <= l) PROVE N * l < N * r
    <3> HIDE DEF l, r
    <3>1. N * (l + 1) <= N * r
      BY <1>8, <2>1, <2>5, ProductGrows
    <3>2. N * (l + 1) = N * l + N
      BY <1>8, <2>1
    <3> QED
      BY <1>8, <2>3, <3>1, <3>2
  <2> HIDE DEF l, r
  <2>6. r <= l <=> vu * pt <= vt * pu
    BY <2>1, <2>2, <2>3, <2>4, <2>5
  <2> QED
    BY <2>3, <2>6, <2>1 DEF l, r
<1> QED
  BY <1>10, <1>11 DEF AtLeast

\* Otsu's threshold (line_detection.py) leaves the classes tightest, for every
\* histogram: it lies among the best cuts, and is one when they cut alike.
THEOREM ThresholdIsTightest ==
  ASSUME NEW h, h \in [DOMAIN h -> Nat], DOMAIN h \subseteq Nat, IsFiniteSet(DOMAIN h)
  PROVE  /\ Tightest(h) = {} => OtsuThreshold(h) = NoThreshold
         /\ Tightest(h) # {} =>
              /\ Min(Tightest(h)) <= OtsuThreshold(h) /\ OtsuThreshold(h) <= Max(Tightest(h))
              /\ (\A t, u \in Tightest(h) : Count(h, Darker(h, t)) = Count(h, Darker(h, u))) =>
                   \E t \in Tightest(h) :
                      /\ Count(h, Darker(h, t)) = Count(h, Darker(h, OtsuThreshold(h)))
                      /\ Weighted(h, Darker(h, t)) = Weighted(h, Darker(h, OtsuThreshold(h)))
<1> DEFINE best == Tightest(h)
           out == OtsuThreshold(h)
           ids == [v \in best |-> v]
<1>1. best = Widest(h)
  BY OrdersAlike, Zenon DEF Tightest, Widest
<1>2. out = IF best = {} THEN NoThreshold ELSE RoundEven(SumSet(best), Cardinality(best))
  BY <1>1, Zenon DEF OtsuThreshold, Widest
<1>3. best \in SUBSET Int /\ IsFiniteSet(best)
  <2>1. best \subseteq DOMAIN h
    BY DEF Tightest, Splits
  <2> HIDE DEF best
  <2> QED
    BY <2>1, FS_Subset
<1> HIDE DEF best, out
<1>4. ASSUME best # {}
      PROVE  Min(best) \in best /\ Max(best) \in best /\ Min(best) <= out /\ out <= Max(best) /\ out \in Int
  <2> DEFINE low == Min(best)
             high == Max(best)
             c == Cardinality(best)
             s == SumSet(best)
  <2>1. low \in best /\ (\A y \in best : low <= y) /\ high \in best /\ \A y \in best : high >= y
    BY <1>3, <1>4, MaxIs, MinIs
  <2>2. c \in Nat \ {0}
    BY <1>3, <1>4, FS_CardinalityType, FS_EmptySet
  <2>3. s = SumFunctionOnSet(ids, best)
    BY SumOfSet
  <2> HIDE DEF low, high, c, s
  <2>4. low \in Int /\ high \in Int
    BY <1>3, <2>1
  <2>5. \A x \in best : ids[x] \in Int /\ low <= ids[x] /\ ids[x] <= high
    BY <1>3, <2>1, <2>4
  <2> HIDE DEF ids
  <2>6. low * c <= s /\ s <= high * c /\ s \in Int
    <3>1. low * Cardinality(best) <= SumFunctionOnSet(ids, best) /\ SumFunctionOnSet(ids, best) <= high * Cardinality(best)
      BY <1>3, <2>4, <2>5, SumBounds
    <3>2. SumFunctionOnSet(ids, best) \in Int
      BY <1>3, <2>5, SumType
    <3> QED
      BY <2>3, <3>1, <3>2 DEF c
  <2>7. low <= RoundEven(s, c) /\ RoundEven(s, c) <= high /\ RoundEven(s, c) \in Int
    BY <2>2, <2>4, <2>6, RoundEvenBetween, RoundEvenType
  <2>8. out = RoundEven(s, c)
    BY <1>2, <1>4 DEF s, c
  <2> QED
    BY <2>1, <2>7, <2>8 DEF low, high
<1>5. ASSUME best # {}, \A t, u \in best : Count(h, Darker(h, t)) = Count(h, Darker(h, u))
      PROVE  \E t \in best : /\ Count(h, Darker(h, t)) = Count(h, Darker(h, out))
                             /\ Weighted(h, Darker(h, t)) = Weighted(h, Darker(h, out))
  <2> DEFINE low == Min(best)
             high == Max(best)
  <2>1. /\ low \in best /\ high \in best /\ low <= out /\ out <= high
        /\ low \in Int /\ high \in Int /\ out \in Int
    BY <1>3, <1>4, <1>5
  <2> HIDE DEF low, high
  <2>2. Count(h, Darker(h, low)) = Count(h, Darker(h, high))
    BY <1>5, <2>1
  <2>3. /\ Count(h, Darker(h, out)) = Count(h, Darker(h, low))
        /\ Weighted(h, Darker(h, out)) = Weighted(h, Darker(h, low))
    BY <2>1, <2>2, EmptyStretch
  <2> QED
    BY <2>1, <2>3
<1> QED
  BY <1>2, <1>4, <1>5, Zenon DEF best, out

--------------------------------------------------------------------------------
(* The stroke mask. *)

\* One doubling of a row's windows, and all of them up to a length.
Widened(row, sign, direction, before, shift) ==
  [x \in DOMAIN row |-> sign * Max({sign * before[x],
                                    sign * before[(x - direction * shift) % Cardinality(DOMAIN row)]})]
Widens(row, sign, direction, m, g) ==
  g = [n \in 1 .. m |-> IF n = 1 THEN row
                        ELSE Widened(row, sign, direction, g[n \div 2], n \div 2)]
Widenings(row, sign, direction, m) == CHOOSE g : Widens(row, sign, direction, m, g)

LEMMA DoubledIsRecursive ==
  ASSUME NEW row, NEW sign, NEW direction
  PROVE  Doubled(row, sign, direction)
           = Widenings(row, sign, direction, StrokeWindow)[StrokeWindow]
BY Zenon DEF Doubled, Widenings, Widens, Widened

\* The doublings exist for every length: the next one needs only those before.
LEMMA WideningsExist ==
  ASSUME NEW row, NEW sign, NEW direction, NEW m \in Nat
  PROVE  Widens(row, sign, direction, m, Widenings(row, sign, direction, m))
<1> DEFINE Bad(n) == ~ \E g : Widens(row, sign, direction, n, g)
           bad == {n \in Nat : Bad(n)}
           Turned(before, shift) == Widened(row, sign, direction, before, shift)
<1>1. ASSUME bad # {} PROVE FALSE
  <2>1. PICK k \in bad : \A j \in bad : k <= j
    <3>1. bad \subseteq Nat
      OBVIOUS
    <3> HIDE DEF bad
    <3> QED
      BY <1>1, <3>1, LeastNatural
  <2>2. k # 0
    <3>1. ASSUME k = 0 PROVE FALSE
      <4> DEFINE g == [n \in 1 .. 0 |-> row]
      <4>1. 1 .. 0 = {}
        OBVIOUS
      <4>2. g = [n \in 1 .. 0 |-> IF n = 1 THEN row ELSE Turned(g[n \div 2], n \div 2)]
        BY <4>1, Zenon
      <4>3. Widens(row, sign, direction, 0, g)
        BY <4>2, Zenon DEF Widens
      <4> QED
        BY <3>1, <4>3
    <3> QED
      BY <3>1
  <2>3. k - 1 \in Nat /\ ~ (k <= k - 1) /\ k \in Nat /\ k >= 1
    BY <2>2
  <2>4. PICK g : Widens(row, sign, direction, k - 1, g)
    BY <2>1, <2>3
  <2> DEFINE h == [n \in 1 .. k |-> IF n = 1 THEN row ELSE Turned(g[n \div 2], n \div 2)]
             r == [n \in 1 .. k |-> IF n = 1 THEN row ELSE Turned(h[n \div 2], n \div 2)]
  <2>5. ASSUME NEW n \in 1 .. k, n # 1
        PROVE  h[n \div 2] = g[n \div 2]
    <3> DEFINE i == n \div 2
    <3>1. i \in 1 .. k - 1 /\ i \in 1 .. k
      BY <2>3, <2>5
    <3> HIDE DEF i
    <3>2. h[i] = IF i = 1 THEN row ELSE Turned(g[i \div 2], i \div 2)
      BY <3>1
    <3>3. g[i] = IF i = 1 THEN row ELSE Turned(g[i \div 2], i \div 2)
      <4> DEFINE f == [j \in 1 .. k - 1 |-> IF j = 1 THEN row ELSE Turned(g[j \div 2], j \div 2)]
      <4>1. g = f
        BY <2>4, Zenon DEF Widens
      <4>2. f[i] = IF i = 1 THEN row ELSE Turned(g[i \div 2], i \div 2)
        BY <3>1
      <4> QED
        BY <4>1, <4>2, Zenon
    <3> HIDE DEF h, Turned
    <3>4. h[i] = g[i]
      BY <3>2, <3>3
    <3> QED
      BY <3>4 DEF i
  <2>6. h = r
    <3>1. \A n \in 1 .. k :
            (IF n = 1 THEN row ELSE Turned(g[n \div 2], n \div 2))
              = (IF n = 1 THEN row ELSE Turned(h[n \div 2], n \div 2))
      <4> HIDE DEF h, Turned
      <4> QED
        BY <2>5
    <3> QED
      BY <3>1, Zenon
  <2>7. Widens(row, sign, direction, k, h)
    <3> HIDE DEF h
    <3> QED
      BY <2>6, Zenon DEF Widens
  <2> QED
    BY <2>1, <2>7, Zenon
<1>2. \E g : Widens(row, sign, direction, m, g)
  BY <1>1
<1> QED
  BY <1>2, Zenon DEF Widenings

\* Turning twice is turning by both.
LEMMA TurnTwice ==
  ASSUME NEW a \in Int, NEW b \in Int
  PROVE  ((a % 8) + b) % 8 = (a + b) % 8 /\ a % 8 \in 0 .. 7
OBVIOUS

\* A row whose every pixel is the extreme one of the n pixels that a turn of
\* another reaches.
Extremes(row, sign, direction, n, wide) ==
  /\ wide \in [0 .. 7 -> Int]
  /\ \A x \in 0 .. 7 :
       /\ \E d \in 0 .. n - 1 : wide[x] = row[(x - direction * d) % 8]
       /\ \A d \in 0 .. n - 1 : sign * row[(x - direction * d) % 8] <= sign * wide[x]

\* The larger of two by its sign.
LEMMA SignedMax ==
  ASSUME NEW sign \in {-1, 1}, NEW a \in Int, NEW b \in Int
  PROVE  LET m == sign * Max({sign * a, sign * b})
         IN  m \in {a, b} /\ sign * a <= sign * m /\ sign * b <= sign * m
<1>1. sign * a \in Int /\ sign * b \in Int
  OBVIOUS
<1>2. Max({sign * a, sign * b}) = IF sign * a >= sign * b THEN sign * a ELSE sign * b
  BY <1>1, GreatestOfTwo
<1>3. CASE sign = 1
  BY <1>2, <1>3
<1>4. CASE sign = -1
  BY <1>2, <1>4
<1> QED
  BY <1>3, <1>4

LEMMA WidenedExtremes ==
  ASSUME NEW row \in [0 .. 7 -> Int], NEW sign \in {-1, 1}, NEW direction \in {-1, 1},
         NEW m \in Nat \ {0}, NEW before, Extremes(row, sign, direction, m, before)
  PROVE  Extremes(row, sign, direction, 2 * m, Widened(row, sign, direction, before, m))
<1> DEFINE wide == Widened(row, sign, direction, before, m)
           Turn(x, d) == (x - direction * d) % 8
<1>1. Cardinality(DOMAIN row) = 8
  <2>1. DOMAIN row = 0 .. 7
    OBVIOUS
  <2>2. \A n \in Nat : Cardinality(0 .. n) = n + 1
    BY FS_Interval
  <2>3. Cardinality(0 .. 7) = 7 + 1 /\ 7 + 1 = 8
    <3>1. 7 \in Nat /\ 7 + 1 = 8
      OBVIOUS
    <3> QED
      BY <2>2, <3>1, Zenon
  <2> QED
    BY <2>1, <2>3, Zenon
<1>2. ASSUME NEW x \in 0 .. 7
      PROVE  wide[x] = sign * Max({sign * before[x], sign * before[Turn(x, m)]})
  BY <1>1 DEF Widened
<1>3. ASSUME NEW x \in Int, NEW d \in Int
      PROVE  /\ Turn(x, d) \in 0 .. 7
             /\ \A e \in Int : Turn(Turn(x, d), e) = Turn(x, d + e)
  <2>1. ASSUME NEW e \in Int PROVE Turn(Turn(x, d), e) = Turn(x, d + e)
    <3>1. CASE direction = 1
      <4>1. (x - d) \in Int /\ -e \in Int
        OBVIOUS
      <4>2. (((x - d) % 8) + (-e)) % 8 = ((x - d) + (-e)) % 8
        BY <4>1, TurnTwice
      <4> QED
        BY <3>1, <4>2
    <3>2. CASE direction = -1
      <4>1. x + d \in Int
        OBVIOUS
      <4>2. (((x + d) % 8) + e) % 8 = ((x + d) + e) % 8
        BY <4>1, TurnTwice
      <4> QED
        BY <3>2, <4>2
    <3> QED
      BY <3>1, <3>2
  <2> QED
    BY <2>1
<1>4. before \in [0 .. 7 -> Int]
  BY DEF Extremes
<1>5. ASSUME NEW x \in 0 .. 7
      PROVE  /\ wide[x] \in {before[x], before[Turn(x, m)]}
             /\ sign * before[x] <= sign * wide[x]
             /\ sign * before[Turn(x, m)] <= sign * wide[x]
             /\ Turn(x, m) \in 0 .. 7 /\ before[x] \in Int /\ before[Turn(x, m)] \in Int
  <2> DEFINE y == Turn(x, m)
  <2>1. y \in 0 .. 7
    BY <1>3
  <2>2. before[x] \in Int /\ before[y] \in Int
    <3> HIDE DEF y
    <3> QED
      BY <1>4, <2>1
  <2>3. wide[x] = sign * Max({sign * before[x], sign * before[y]})
    BY <1>2
  <2> HIDE DEF y, wide
  <2>4. /\ wide[x] \in {before[x], before[y]}
        /\ sign * before[x] <= sign * wide[x] /\ sign * before[y] <= sign * wide[x]
    <3> DEFINE a == before[x]
               b == before[y]
               m0 == sign * Max({sign * a, sign * b})
    <3>1. a \in Int /\ b \in Int
      BY <2>2
    <3> HIDE DEF a, b
    <3>2. m0 \in {a, b} /\ sign * a <= sign * m0 /\ sign * b <= sign * m0
      BY <3>1, SignedMax
    <3> HIDE DEF m0
    <3>3. wide[x] = m0
      BY <2>3 DEF m0, a, b
    <3> QED
      BY <3>2, <3>3, Zenon DEF a, b
  <2> QED
    BY <2>1, <2>2, <2>4, Zenon DEF y
<1>6. wide \in [0 .. 7 -> Int]
  <2>1. wide = [x \in 0 .. 7 |-> wide[x]]
    BY DEF Widened
  <2>2. \A x \in 0 .. 7 : wide[x] \in Int
    <3> HIDE DEF wide, Turn
    <3> QED
      BY <1>5
  <2> HIDE DEF wide
  <2> QED
    BY <2>1, <2>2
<1> HIDE DEF wide
<1>7. ASSUME NEW x \in 0 .. 7
      PROVE  \E d \in 0 .. 2 * m - 1 : wide[x] = row[Turn(x, d)]
  <2>1. CASE wide[x] = before[x]
    <3>1. PICK d \in 0 .. m - 1 : before[x] = row[Turn(x, d)]
      BY DEF Extremes
    <3>2. d \in 0 .. 2 * m - 1
      OBVIOUS
    <3> HIDE DEF Turn
    <3> QED
      BY <2>1, <3>1, <3>2
  <2>2. CASE wide[x] = before[Turn(x, m)]
    <3> DEFINE y == Turn(x, m)
    <3>1. y \in 0 .. 7
      BY <1>3
    <3> HIDE DEF y
    <3>2. PICK d \in 0 .. m - 1 : before[y] = row[Turn(y, d)]
      BY <3>1 DEF Extremes
    <3>3. Turn(y, d) = Turn(x, m + d)
      BY <1>3 DEF y
    <3>4. m + d \in 0 .. 2 * m - 1
      OBVIOUS
    <3>5. wide[x] = before[y]
      BY <2>2 DEF y
    <3> HIDE DEF Turn
    <3> QED
      BY <3>2, <3>3, <3>4, <3>5
  <2> HIDE DEF Turn
  <2> QED
    BY <1>5, <2>1, <2>2
<1>8. ASSUME NEW x \in 0 .. 7, NEW d \in 0 .. 2 * m - 1
      PROVE  sign * row[Turn(x, d)] <= sign * wide[x]
  <2>0. /\ sign * before[x] \in Int /\ sign * before[Turn(x, m)] \in Int /\ sign * wide[x] \in Int
    <3>1. wide[x] \in Int
      BY <1>6
    <3> HIDE DEF Turn
    <3> QED
      BY <1>5, <3>1
  <2>1. CASE d < m
    <3>1. d \in 0 .. m - 1
      BY <2>1
    <3>2. sign * row[Turn(x, d)] <= sign * before[x]
      BY <3>1 DEF Extremes
    <3>3. sign * row[Turn(x, d)] \in Int
      <4> DEFINE y == Turn(x, d)
      <4>1. y \in 0 .. 7
        BY <1>3
      <4> HIDE DEF y
      <4> QED
        BY <4>1 DEF y
    <3> HIDE DEF Turn
    <3> QED
      BY <1>5, <2>0, <3>2, <3>3
  <2>2. CASE d >= m
    <3> DEFINE y == Turn(x, m)
               e == d - m
    <3>1. y \in 0 .. 7
      BY <1>3
    <3>2. e \in 0 .. m - 1 /\ m + e = d
      BY <2>2
    <3>3. Turn(y, e) = Turn(x, d)
      <4>1. Turn(Turn(x, m), e) = Turn(x, m + e)
        <5> HIDE DEF Turn, e
        <5> QED
          BY <1>3, <3>2
      <4> HIDE DEF Turn, e
      <4> QED
        BY <3>2, <4>1 DEF y
    <3> HIDE DEF y, e
    <3>4. sign * row[Turn(y, e)] <= sign * before[y]
      BY <3>1, <3>2 DEF Extremes
    <3>5. sign * before[y] <= sign * wide[x]
      BY <1>5 DEF y
    <3>6. sign * row[Turn(x, d)] \in Int
      <4> DEFINE z == Turn(x, d)
      <4>1. z \in 0 .. 7
        BY <1>3
      <4> HIDE DEF z
      <4> QED
        BY <4>1 DEF z
    <3> HIDE DEF Turn
    <3> QED
      BY <2>0, <3>3, <3>4, <3>5, <3>6 DEF y
  <2> QED
    BY <2>1, <2>2
<1> QED
  BY <1>6, <1>7, <1>8 DEF Extremes, wide

\* One doubling.
LEMMA WidensOne ==
  ASSUME NEW row, NEW sign, NEW direction, NEW m \in Nat, NEW g,
         Widens(row, sign, direction, m, g), NEW n \in 1 .. m
  PROVE  g[n] = IF n = 1 THEN row ELSE Widened(row, sign, direction, g[n \div 2], n \div 2)
<1> DEFINE f == [j \in 1 .. m |-> IF j = 1 THEN row
                                  ELSE Widened(row, sign, direction, g[j \div 2], j \div 2)]
<1>1. g = f
  BY Zenon DEF Widens
<1>2. f[n] = IF n = 1 THEN row ELSE Widened(row, sign, direction, g[n \div 2], n \div 2)
  OBVIOUS
<1> QED
  BY <1>1, <1>2, Zenon

\* Doubling reaches the whole window, of any length that is a power of two.
LEMMA DoubledExtremes ==
  ASSUME NEW row \in [0 .. 7 -> Int], NEW sign \in {-1, 1}, NEW direction \in {-1, 1}
  PROVE  Extremes(row, sign, direction, StrokeWindow, Doubled(row, sign, direction))
<1> DEFINE w == StrokeWindow
           g == Widenings(row, sign, direction, w)
<1>1. w \in Nat \ {0} /\ PowerOfTwo(w)
  BY WindowAssumption
<1>2. PICK P \in SUBSET (1 .. w) : w \in P /\ \A m \in P \ {1} : m % 2 = 0 /\ m \div 2 \in P
  BY <1>1 DEF PowerOfTwo
<1>3. Widens(row, sign, direction, w, g)
  BY <1>1, WideningsExist
<1> HIDE DEF g, w
<1> DEFINE bad == {n \in P : ~Extremes(row, sign, direction, n, g[n])}
<1>4. ASSUME bad # {} PROVE FALSE
  <2>1. PICK n \in bad : \A m \in bad : n <= m
    <3>1. bad \subseteq P /\ P \subseteq Nat
      <4>1. 1 .. w \subseteq Nat
        BY <1>1
      <4> HIDE DEF w
      <4> QED
        BY <4>1
    <3> HIDE DEF bad
    <3> QED
      BY <1>4, <3>1, LeastNatural
  <2>2. n \in P /\ n \in 1 .. w /\ ~Extremes(row, sign, direction, n, g[n])
    OBVIOUS
  <2>3. g[n] = IF n = 1 THEN row ELSE Widened(row, sign, direction, g[n \div 2], n \div 2)
    BY <1>1, <1>3, <2>2, WidensOne
  <2>4. CASE n = 1
    <3>1. ASSUME NEW x \in 0 .. 7, NEW d \in 0 .. 0 PROVE (x - direction * d) % 8 = x
      <4>1. d = 0 /\ direction * d = 0
        OBVIOUS
      <4>2. x - direction * d = x
        BY <4>1
      <4> QED
        BY <4>2
    <3>2. g[n] = row /\ row \in [0 .. 7 -> Int] /\ n - 1 = 0
      BY <2>3, <2>4
    <3>3. ASSUME NEW x \in 0 .. 7
          PROVE  /\ \E d \in 0 .. 0 : row[x] = row[(x - direction * d) % 8]
                 /\ \A d \in 0 .. 0 : sign * row[(x - direction * d) % 8] <= sign * row[x]
      <4>1. 0 \in 0 .. 0 /\ row[x] \in Int
        OBVIOUS
      <4>2. sign * row[x] <= sign * row[x]
        BY <4>1
      <4> QED
        BY <3>1, <4>1, <4>2, Zenon
    <3>4. Extremes(row, sign, direction, n, g[n])
      BY <3>2, <3>3, Zenon DEF Extremes
    <3> QED
      BY <2>2, <3>4
  <2>5. CASE n # 1
    <3> DEFINE m == n \div 2
    <3>1. n % 2 = 0 /\ m \in P
      BY <1>2, <2>2, <2>5
    <3>2. m \in Nat \ {0} /\ 2 * m = n /\ ~ (n <= m)
      BY <2>2, <3>1
    <3> HIDE DEF m
    <3>3. m \notin bad
      BY <2>1, <3>2
    <3>4. Extremes(row, sign, direction, m, g[m])
      BY <3>1, <3>3
    <3>5. Extremes(row, sign, direction, n, Widened(row, sign, direction, g[m], m))
      <4>1. Extremes(row, sign, direction, 2 * m, Widened(row, sign, direction, g[m], m))
        BY <3>2, <3>4, WidenedExtremes
      <4> QED
        BY <3>2, <4>1, Zenon
    <3>6. g[n] = Widened(row, sign, direction, g[m], m)
      BY <2>3, <2>5 DEF m
    <3> QED
      BY <2>2, <3>5, <3>6, Zenon
  <2> QED
    BY <2>4, <2>5
<1>5. Extremes(row, sign, direction, w, g[w])
  BY <1>2, <1>4
<1>6. Doubled(row, sign, direction) = g[w]
  BY DoubledIsRecursive, Zenon DEF g, w
<1> QED
  BY <1>5, <1>6, Zenon DEF w

\* A turn by a window and one back by part of it is a turn by the rest.
LEMMA TurnBack ==
  ASSUME NEW x \in Int, NEW a \in Int, NEW b \in Int
  PROVE  /\ (((x - a) % 8) + b) % 8 = (x - (a - b)) % 8
         /\ (((x + a) % 8) - b) % 8 = (x - (b - a)) % 8
OBVIOUS

\* The lightest pixel of the window that starts at a pixel.
Lightest(row, from) == Max({row[(from + d) % 8] : d \in 0 .. StrokeWindow - 1})

\* The dilation is the lightest pixel of the window that ends at each.
LEMMA MaxIsLightest ==
  ASSUME NEW row \in [0 .. 7 -> Int], NEW y \in 0 .. 7
  PROVE  HorizontalMax(row)[y] = Lightest(row, (y - (StrokeWindow - 1)) % 8)
<1> DEFINE w == StrokeWindow
           from == (y - (w - 1)) % 8
           top == HorizontalMax(row)[y]
           S == {row[(from + d) % 8] : d \in 0 .. w - 1}
<1>1. w \in Nat \ {0}
  BY WindowAssumption
<1>2. /\ HorizontalMax(row) \in [0 .. 7 -> Int]
      /\ \E d \in 0 .. w - 1 : top = row[(y - 1 * d) % 8]
      /\ \A d \in 0 .. w - 1 : 1 * row[(y - 1 * d) % 8] <= 1 * top
  <2>1. Extremes(row, 1, 1, w, HorizontalMax(row))
    BY DoubledExtremes DEF HorizontalMax
  <2> HIDE DEF w, top
  <2> QED
    BY <2>1 DEF Extremes, top
<1>3. ASSUME NEW d \in 0 .. w - 1
      PROVE  (from + d) % 8 = (y - 1 * (w - 1 - d)) % 8 /\ w - 1 - d \in 0 .. w - 1
             /\ (from + d) % 8 \in 0 .. 7
  <2>1. (from + d) % 8 = (y - ((w - 1) - d)) % 8
    <3> HIDE DEF w
    <3> QED
      BY <1>1, TurnBack
  <2>2. 1 * (w - 1 - d) = (w - 1) - d /\ w - 1 - d \in 0 .. w - 1
    BY <1>1
  <2>3. from \in Int /\ (from + d) % 8 \in 0 .. 7
    <3> HIDE DEF w
    <3> QED
      BY <1>1
  <2> HIDE DEF w, from
  <2> QED
    BY <2>1, <2>2, <2>3
<1> HIDE DEF w, from, top
<1>4. \A d \in 0 .. w - 1 : row[(from + d) % 8] <= top /\ row[(from + d) % 8] \in Int
  <2>1. ASSUME NEW d \in 0 .. w - 1 PROVE row[(from + d) % 8] <= top /\ row[(from + d) % 8] \in Int
    <3> DEFINE e == w - 1 - d
               z == (from + d) % 8
    <3>1. e \in 0 .. w - 1 /\ z = (y - 1 * e) % 8 /\ z \in 0 .. 7
      BY <1>3
    <3>2. 1 * row[(y - 1 * e) % 8] <= 1 * top
      BY <1>2, <3>1
    <3> HIDE DEF e, z
    <3>3. row[z] \in Int /\ 1 * row[z] <= 1 * top /\ top \in Int
      BY <1>2, <3>1, <3>2 DEF top
    <3>4. row[z] <= top /\ row[z] \in Int
      BY <3>3
    <3> QED
      BY <3>4 DEF z
  <2> QED
    BY <2>1
<1>5. \E d \in 0 .. w - 1 : top = row[(from + d) % 8]
  <2>1. PICK e \in 0 .. w - 1 : top = row[(y - 1 * e) % 8]
    BY <1>2
  <2> DEFINE d == w - 1 - e
  <2>2. d \in 0 .. w - 1 /\ w - 1 - d = e
    BY <1>1
  <2> HIDE DEF d
  <2>3. (from + d) % 8 = (y - 1 * (w - 1 - d)) % 8
    BY <1>3, <2>2
  <2>4. (from + d) % 8 = (y - 1 * e) % 8
    BY <2>2, <2>3
  <2> QED
    BY <2>1, <2>2, <2>4
<1>6. S \in SUBSET Int /\ S # {} /\ IsFiniteSet(S)
  <2> DEFINE f == [d \in 0 .. w - 1 |-> row[(from + d) % 8]]
  <2>1. f \in Surjection(0 .. w - 1, S)
    BY DEF Surjection
  <2>2. IsFiniteSet(0 .. w - 1)
    BY <1>1, FS_Interval
  <2>3. S \in SUBSET Int /\ S # {}
    BY <1>4, <1>5
  <2> HIDE DEF f, S
  <2>4. IsFiniteSet(S)
    BY <2>1, <2>2, FS_Surjection
  <2> QED
    BY <2>3, <2>4
<1>7. top \in S /\ \A v \in S : v <= top
  BY <1>4, <1>5
<1>8. Lightest(row, from) = Max(S)
  BY Zenon DEF Lightest, w
<1> HIDE DEF S
<1>9. Max(S) = top
  <2>1. Max(S) \in S /\ Max(S) >= top
    BY <1>6, <1>7, MaxIs
  <2>2. Max(S) <= top /\ Max(S) \in Int /\ top \in Int
    BY <1>6, <1>7, <2>1
  <2> QED
    BY <2>1, <2>2
<1> QED
  BY <1>8, <1>9, Zenon DEF top, from, w

\* The stroke mask (line_detection.py) is local, for every row of pixels, every
\* window that is a power of two and any drop: a pixel is ink when every stretch
\* of the window's length through it holds a pixel enough lighter.
THEOREM StrokesAreDarkerThanNear ==
  ASSUME NEW row \in [0 .. 7 -> Int], InkDrop \in Int
  PROVE  StrokeMask(row) =
           {x \in 0 .. 7 : \A back \in 0 .. StrokeWindow - 1 :
              Lightest(row, (x - back) % 8) - row[x] >= InkDrop}
<1> DEFINE w == StrokeWindow
           m == HorizontalMax(row)
           c == HorizontalMin(m)
<1>1. w \in Nat \ {0}
  BY WindowAssumption
<1>2. m \in [0 .. 7 -> Int]
  BY DoubledExtremes DEF HorizontalMax, Extremes
<1>3. ASSUME NEW y \in 0 .. 7 PROVE m[y] = Lightest(row, (y - (w - 1)) % 8)
  BY MaxIsLightest
<1>4. StrokeMask(row) = {x \in 0 .. 7 : c[x] - row[x] >= InkDrop}
  BY DEF StrokeMask
<1>5. Extremes(m, -1, -1, w, c)
  <2> HIDE DEF m
  <2> QED
    BY <1>2, DoubledExtremes DEF HorizontalMin
<1> HIDE DEF w, m, c
<1>6. ASSUME NEW x \in 0 .. 7
      PROVE  c[x] - row[x] >= InkDrop <=>
               \A back \in 0 .. w - 1 : Lightest(row, (x - back) % 8) - row[x] >= InkDrop
  <2> DEFINE Near(back) == Lightest(row, (x - back) % 8)
             Turn(d) == (x + d) % 8
  <2>1. ASSUME NEW d \in 0 .. w - 1
        PROVE  m[Turn(d)] = Near((w - 1) - d) /\ m[Turn(d)] \in Int
    <3> DEFINE y == Turn(d)
    <3>1. y \in 0 .. 7
      OBVIOUS
    <3>2. (y - (w - 1)) % 8 = (x - ((w - 1) - d)) % 8
      BY <1>1, TurnBack
    <3> HIDE DEF y
    <3>3. m[y] = Lightest(row, (y - (w - 1)) % 8) /\ m[y] \in Int
      BY <1>2, <1>3, <3>1
    <3>4. m[y] = Near((w - 1) - d) /\ m[y] \in Int
      BY <3>2, <3>3, Zenon
    <3> HIDE DEF Near, Turn
    <3> QED
      BY <3>4, Zenon DEF y
  <2>2. /\ \E d \in 0 .. w - 1 : c[x] = m[Turn(d)]
        /\ \A d \in 0 .. w - 1 : c[x] <= m[Turn(d)]
        /\ c[x] \in Int
    <3>1. ASSUME NEW d \in 0 .. w - 1 PROVE (x - (-1) * d) % 8 = Turn(d)
      <4>1. x - (-1) * d = x + d
        OBVIOUS
      <4> QED
        BY <4>1
    <3>2. /\ \E d \in 0 .. w - 1 : c[x] = m[(x - (-1) * d) % 8]
          /\ \A d \in 0 .. w - 1 : (-1) * m[(x - (-1) * d) % 8] <= (-1) * c[x]
          /\ c[x] \in Int
      BY <1>5 DEF Extremes
    <3> HIDE DEF Turn
    <3>3. ASSUME NEW d \in 0 .. w - 1 PROVE c[x] <= m[Turn(d)]
      <4> DEFINE v == m[Turn(d)]
      <4>1. (-1) * v <= (-1) * c[x] /\ v \in Int /\ c[x] \in Int
        BY <2>1, <3>1, <3>2
      <4> HIDE DEF v
      <4>2. c[x] <= v
        BY <4>1
      <4> QED
        BY <4>2 DEF v
    <3>4. \E d \in 0 .. w - 1 : c[x] = m[Turn(d)]
      BY <3>1, <3>2
    <3> QED
      BY <3>2, <3>3, <3>4
  <2> HIDE DEF Near, Turn
  <2>3. row[x] \in Int
    OBVIOUS
  <2>4. ASSUME c[x] - row[x] >= InkDrop, NEW back \in 0 .. w - 1
        PROVE  Near(back) - row[x] >= InkDrop
    <3> DEFINE d == (w - 1) - back
    <3>1. d \in 0 .. w - 1 /\ (w - 1) - d = back
      BY <1>1
    <3> HIDE DEF d
    <3>2. m[Turn(d)] = Near(back) /\ m[Turn(d)] \in Int /\ c[x] <= m[Turn(d)]
      BY <2>1, <2>2, <3>1
    <3> QED
      BY <2>2, <2>3, <2>4, <3>2
  <2>5. ASSUME \A back \in 0 .. w - 1 : Near(back) - row[x] >= InkDrop
        PROVE  c[x] - row[x] >= InkDrop
    <3>1. PICK d \in 0 .. w - 1 : c[x] = m[Turn(d)]
      BY <2>2
    <3>2. (w - 1) - d \in 0 .. w - 1
      BY <1>1
    <3>3. c[x] = Near((w - 1) - d)
      BY <2>1, <3>1
    <3> QED
      BY <2>5, <3>2, <3>3
  <2> QED
    BY <2>4, <2>5 DEF Near
<1> QED
  BY <1>4, <1>6, Zenon DEF w

--------------------------------------------------------------------------------
(* The ink, as an invariant. *)

\* What the rows are found in is right (line_detection.py), for every histogram,
\* row of pixels and tilt: the threshold leaves the classes tightest, the mask
\* holds the local strokes, and the rotation is the sharpest of its range.
THEOREM InkIsAlwaysFound == Spec => []InkIsFound
<1> SUFFICES ASSUME CallsRan PROVE InkIsFound
  BY CallsRun, PTL
<1>1. OtsuIsTightest
  <2> SUFFICES ASSUME Ran("otsu") PROVE OtsuIsTightest
    BY DEF OtsuIsTightest
  <2> DEFINE h == call.in
             out == call.out
  <2>1. h \in Inputs["otsu"] /\ out = OtsuThreshold(h)
    BY RanIs DEF Answer
  <2>2. h \in [DOMAIN h -> Nat] /\ DOMAIN h \subseteq Nat /\ IsFiniteSet(DOMAIN h)
    BY <2>1, HistogramAssumption, Zenon
  <2> DEFINE Part(levels) == <<Weighted(h, levels), Count(h, levels)>>
             Means(t) ==
               LET dark == Part(Darker(h, t))
                   light == Part(Lighter(h, t))
               IN <<dark[1] * dark[1] * light[2] + light[1] * light[1] * dark[2],
                    dark[2] * light[2]>>
             best == {t \in Splits(h) : \A u \in Splits(h) : AtLeast(Means(t), Means(u))}
             Same(t, u) == Part(Darker(h, t)) = Part(Darker(h, u))
  <2>3. best = Tightest(h)
    BY Zenon DEF Tightest, Explained
  <2>4. /\ best = {} => out = NoThreshold
        /\ best # {} =>
             /\ Min(best) <= out /\ out <= Max(best)
             /\ (\A t, u \in best : Count(h, Darker(h, t)) = Count(h, Darker(h, u))) =>
                  \E t \in best : /\ Count(h, Darker(h, t)) = Count(h, Darker(h, out))
                                  /\ Weighted(h, Darker(h, t)) = Weighted(h, Darker(h, out))
    <3> HIDE DEF best, out, h
    <3>1. /\ Tightest(h) = {} => OtsuThreshold(h) = NoThreshold
          /\ Tightest(h) # {} =>
               /\ Min(Tightest(h)) <= OtsuThreshold(h) /\ OtsuThreshold(h) <= Max(Tightest(h))
               /\ (\A t, u \in Tightest(h) : Count(h, Darker(h, t)) = Count(h, Darker(h, u))) =>
                    \E t \in Tightest(h) :
                       /\ Count(h, Darker(h, t)) = Count(h, Darker(h, OtsuThreshold(h)))
                       /\ Weighted(h, Darker(h, t)) = Weighted(h, Darker(h, OtsuThreshold(h)))
      BY <2>2, ThresholdIsTightest
    <3> QED
      BY <2>1, <2>3, <3>1, Zenon
  <2>5. \A t, u : Same(t, u) <=> /\ Weighted(h, Darker(h, t)) = Weighted(h, Darker(h, u))
                                 /\ Count(h, Darker(h, t)) = Count(h, Darker(h, u))
    OBVIOUS
  <2>6. IF best = {} THEN out = NoThreshold
        ELSE /\ Min(best) <= out /\ out <= Max(best)
             /\ (\A t, u \in best : Same(t, u)) => \E t \in best : Same(t, out)
    <3> HIDE DEF best, out, h, Same
    <3> QED
      BY <2>4, <2>5
  <2> QED
    BY <2>6, Zenon DEF OtsuIsTightest
<1>2. StrokesAreLocal
  <2> SUFFICES ASSUME Ran("strokes") PROVE StrokesAreLocal
    BY DEF StrokesAreLocal
  <2> DEFINE row == call.in
             Near(from) == Max({row[(from + d) % 8] : d \in 0 .. StrokeWindow - 1})
  <2>1. row \in Inputs["strokes"] /\ call.out = StrokeMask(row)
    BY RanIs DEF Answer
  <2>2. row \in [0 .. 7 -> Nat] /\ InkDrop \in Int
    BY <2>1, StrokeAssumption, Zenon
  <2>3. row \in [0 .. 7 -> Int]
    <3> HIDE DEF row
    <3> QED
      BY <2>2
  <2>4. StrokeMask(row) = {x \in 0 .. 7 : \A back \in 0 .. StrokeWindow - 1 :
                             Lightest(row, (x - back) % 8) - row[x] >= InkDrop}
    <3> HIDE DEF row
    <3> QED
      BY <2>2, <2>3, StrokesAreDarkerThanNear
  <2>5. call.out = {x \in 0 .. 7 : \A back \in 0 .. StrokeWindow - 1 :
                      Near((x - back) % 8) - row[x] >= InkDrop}
    BY <2>1, <2>4, Zenon DEF Lightest
  <2> QED
    BY <2>5, Zenon DEF StrokesAreLocal
<1>3. SkewIsSharpest
  <2> SUFFICES ASSUME Ran("skew") PROVE SkewIsSharpest
    BY DEF SkewIsSharpest
  <2> DEFINE first == call.in.from
             last == call.in.to
             nearest == IF first > 0 THEN first ELSE IF last < 0 THEN last ELSE 0
             score == Sharpness(call.in)
             range == -SkewRange - FineSteps .. SkewRange + FineSteps
             left == call.in.left
             right == call.in.right
  <2>1. call.in \in Inputs["skew"] /\ call.out = SkewAngle(score)
    BY RanIs DEF Answer
  <2>2. /\ SkewRange \in Nat /\ CoarseStep \in Nat \ {0} /\ SkewRange % CoarseStep = 0
        /\ FineSteps \in Nat /\ FineSteps >= CoarseStep - 1
        /\ first \in Int /\ last \in Int /\ first <= last
        /\ left \in Nat \ {0} /\ right \in Nat \ {0}
    BY <2>1, TiltAssumption, Zenon
  <2>3. \A a \in range : score[a] = IF a < first THEN (a - first) * left
                                    ELSE IF a > last THEN (last - a) * right ELSE 0
    BY DEF Sharpness
  <2> HIDE DEF first, last, left, right, score
  <2>4. \A a \in range : score[a] \in Int
    <3>1. ASSUME NEW a \in range PROVE score[a] \in Int
      <4>1. a \in Int /\ (a - first) * left \in Int /\ (last - a) * right \in Int
        BY <2>2
      <4> HIDE DEF range
      <4> QED
        BY <2>3, <4>1
    <3> QED
      BY <3>1
  <2>5. ASSUME NEW a \in range, NEW b \in range, a < b
        PROVE  /\ b <= first => score[a] < score[b]
               /\ first <= a /\ b <= last => score[a] = score[b]
               /\ last <= a => score[a] > score[b]
    <3>1. a \in Int /\ b \in Int
      BY <2>2
    <3>2. /\ score[a] = IF a < first THEN (a - first) * left
                        ELSE IF a > last THEN (last - a) * right ELSE 0
          /\ score[b] = IF b < first THEN (b - first) * left
                        ELSE IF b > last THEN (last - b) * right ELSE 0
      BY <2>3
    <3> HIDE DEF range
    <3>3. /\ (a - first) * left + left <= (b - first) * left
          /\ (last - b) * right + right <= (last - a) * right
      <4>1. left * (a - first + 1) <= left * (b - first)
        BY <2>2, <2>5, <3>1, ProductGrows
      <4>2. right * (last - b + 1) <= right * (last - a)
        BY <2>2, <2>5, <3>1, ProductGrows
      <4>3. left * (a - first + 1) = (a - first) * left + left /\ left * (b - first) = (b - first) * left
        BY <2>2, <3>1
      <4>4. right * (last - b + 1) = (last - b) * right + right /\ right * (last - a) = (last - a) * right
        BY <2>2, <3>1
      <4> QED
        BY <4>1, <4>2, <4>3, <4>4
    <3>4. /\ (a - first) * left \in Int /\ (b - first) * left \in Int
          /\ (last - a) * right \in Int /\ (last - b) * right \in Int
          /\ (first - first) * left = 0 /\ (last - last) * right = 0
      BY <2>2, <3>1
    <3>5. /\ b = first => (b - first) * left = 0
          /\ a = last => (last - a) * right = 0
      BY <3>4
    <3> DEFINE al == (a - first) * left
               bl == (b - first) * left
               ar == (last - a) * right
               br == (last - b) * right
    <3>6. /\ score[a] = IF a < first THEN al ELSE IF a > last THEN ar ELSE 0
          /\ score[b] = IF b < first THEN bl ELSE IF b > last THEN br ELSE 0
          /\ al + left <= bl /\ br + right <= ar
          /\ al \in Int /\ bl \in Int /\ ar \in Int /\ br \in Int
          /\ b = first => bl = 0
          /\ a = last => ar = 0
      BY <3>2, <3>3, <3>4, <3>5
    <3> HIDE DEF al, bl, ar, br
    <3> QED
      BY <2>2, <2>5, <3>1, <3>6
  <2>6. nearest \in -SkewRange .. SkewRange => SkewAngle(score) = nearest
    <3>1. ASSUME nearest \in -SkewRange .. SkewRange PROVE SkewAngle(score) = nearest
      <4>1. Peaked(score, first, last)
        BY <2>4, <2>5 DEF Peaked
      <4>2. nearest = Nearest(first, last)
        BY DEF Nearest
      <4> HIDE DEF nearest
      <4> QED
        BY <2>2, <3>1, <4>1, <4>2, SearchFindsSharpest
    <3> QED
      BY <3>1
  <2> QED
    BY <2>1, <2>6, Zenon DEF SkewIsSharpest, first, last
<1> QED
  BY <1>1, <1>2, <1>3, Zenon DEF InkIsFound

--------------------------------------------------------------------------------
(* The alignment of two texts. *)

\* There is a first longest block when no block is longer than some length.
LEMMA LongestIs ==
  ASSUME NEW S \in SUBSET (Nat \X Nat \X Nat), S # {}, NEW k \in Nat, \A x \in S : x[3] <= k
  PROVE  /\ LongestBlock(S) \in S
         /\ \A y \in S : \/ LongestBlock(S)[3] > y[3]
                         \/ /\ LongestBlock(S)[3] = y[3]
                            /\ \/ LongestBlock(S)[1] < y[1]
                               \/ LongestBlock(S)[1] = y[1] /\ LongestBlock(S)[2] <= y[2]
<1> DEFINE lacks == {k - x[3] : x \in S}
<1>0. \A x \in S : x[1] \in Nat /\ x[2] \in Nat /\ x[3] \in Nat /\ k - x[3] \in Nat
  OBVIOUS
<1>1. PICK x \in S : \A y \in S : k - x[3] <= k - y[3]
  <2>1. lacks \subseteq Nat /\ lacks # {}
    BY <1>0
  <2>2. PICK l \in lacks : \A z \in lacks : l <= z
    <3> HIDE DEF lacks
    <3> QED
      BY <2>1, LeastNatural
  <2> QED
    BY <2>2
<1> DEFINE tall == {y \in S : y[3] = x[3]}
           firsts == {y[1] : y \in tall}
<1>2. PICK f \in firsts : \A z \in firsts : f <= z
  <2>1. firsts \subseteq Nat /\ firsts # {}
    BY <1>0
  <2> HIDE DEF firsts
  <2> QED
    BY <2>1, LeastNatural
<1> DEFINE first == {y \in tall : y[1] = f}
           seconds == {y[2] : y \in first}
<1>3. PICK s \in seconds : \A z \in seconds : s <= z
  <2>1. seconds \subseteq Nat /\ seconds # {}
    BY <1>0, <1>2
  <2> HIDE DEF seconds
  <2> QED
    BY <2>1, LeastNatural
<1>4. PICK m \in first : m[2] = s
  BY <1>3
<1>5. m \in S /\ m[3] = x[3] /\ m[1] = f
  OBVIOUS
<1>6. ASSUME NEW y \in S
      PROVE  \/ m[3] > y[3]
             \/ m[3] = y[3] /\ (m[1] < y[1] \/ (m[1] = y[1] /\ m[2] <= y[2]))
  <2>1. y[3] <= m[3]
    BY <1>0, <1>1, <1>5
  <2>2. CASE y[3] = m[3]
    <3>1. y \in tall /\ f <= y[1]
      BY <1>2, <1>5, <2>2
    <3>2. y[1] = f => y \in first /\ s <= y[2]
      BY <1>3, <3>1
    <3> QED
      BY <1>0, <1>4, <1>5, <2>2, <3>1, <3>2
  <2> QED
    BY <1>0, <1>5, <2>1, <2>2
<1> HIDE DEF first, firsts, seconds, tall
<1> DEFINE Best(z) == \A y \in S : \/ z[3] > y[3]
                                   \/ z[3] = y[3] /\ (z[1] < y[1] \/ (z[1] = y[1] /\ z[2] <= y[2]))
<1>7. m \in S /\ Best(m)
  BY <1>5, <1>6
<1>8. LongestBlock(S) = CHOOSE z \in S : Best(z)
  BY DEF LongestBlock
<1> HIDE DEF Best
<1>9. LongestBlock(S) \in S /\ Best(LongestBlock(S))
  BY <1>7, <1>8
<1> QED
  BY <1>9 DEF Best

\* The parts of two texts, from one place in both to another, and the recursion
\* of the alignment over them.
Places(a, b) == (0 .. Len(a)) \X (0 .. Len(b))
Parts(a, b) == Places(a, b) \X Places(a, b)

\* The pairs of a block, the parts on either side of it, and what is matched in
\* a part, given the alignments of the parts.
Diagonal(m) == {<<m[1] + d, m[2] + d>> : d \in 0 .. m[3] - 1}
Left(part, m) == <<part[1], <<m[1] - 1, m[2] - 1>>>>
Right(part, m) == <<<<m[1] + m[3] - 1, m[2] + m[3] - 1>>, part[2]>>
MatchedIn(a, b, g, part) ==
  LET blocks == CommonBlocks(a, b, part[1], part[2])
      m == LongestBlock(blocks)
  IN IF blocks = {} THEN {} ELSE Diagonal(m) \cup g[Left(part, m)] \cup g[Right(part, m)]
Aligns(a, b, parts, g) == g = [part \in parts |-> MatchedIn(a, b, g, part)]
Aligned(a, b) == CHOOSE g : Aligns(a, b, Parts(a, b), g)

\* The matched pairs are the alignment of the two whole texts.
LEMMA MatchingIsRecursive ==
  ASSUME NEW a, NEW b
  PROVE  MatchedPairs(a, b) = Aligned(a, b)[<<<<0, 0>>, <<Len(a), Len(b)>>>>]
BY Zenon DEF MatchedPairs, Aligned, Aligns, MatchedIn, Parts, Places, Diagonal, Left, Right

\* The alignment of a part is what is matched in it.
LEMMA AlignsOne ==
  ASSUME NEW a, NEW b, NEW parts, NEW g, Aligns(a, b, parts, g), NEW part \in parts
  PROVE  g[part] = MatchedIn(a, b, g, part)
<1> DEFINE h == [p \in parts |-> MatchedIn(a, b, g, p)]
<1>1. g = h
  BY Zenon DEF Aligns
<1>2. h[part] = MatchedIn(a, b, g, part)
  OBVIOUS
<1> QED
  BY <1>1, <1>2, Zenon

\* A block is one stretch of tokens in both texts.
IsCommon(a, b, m) == \A d \in 0 .. m[3] - 1 : a[m[1] + d] = b[m[2] + d]

\* A part's longest block lies in it, and what is left on either side is shorter.
LEMMA BlockIs ==
  ASSUME NEW A, NEW B, NEW a \in Seq(A), NEW b \in Seq(B), NEW part \in Parts(a, b),
         CommonBlocks(a, b, part[1], part[2]) # {}
  PROVE  LET m == LongestBlock(CommonBlocks(a, b, part[1], part[2]))
         IN  /\ m \in Nat \X Nat \X Nat
             /\ m[1] \in part[1][1] + 1 .. part[2][1] /\ m[2] \in part[1][2] + 1 .. part[2][2]
             /\ m[3] \in Nat \ {0}
             /\ m[1] + m[3] - 1 <= part[2][1] /\ m[2] + m[3] - 1 <= part[2][2]
             /\ IsCommon(a, b, m)
             /\ \A y \in CommonBlocks(a, b, part[1], part[2]) :
                  m[3] > y[3] \/ (m[3] = y[3] /\ m[1] <= y[1])
             /\ Left(part, m) \in Parts(a, b) /\ Right(part, m) \in Parts(a, b)
             /\ (m[1] - 1) - part[1][1] < part[2][1] - part[1][1]
             /\ part[2][1] - (m[1] + m[3] - 1) < part[2][1] - part[1][1]
<1> DEFINE S == CommonBlocks(a, b, part[1], part[2])
           m == LongestBlock(S)
           from == part[1]
           to == part[2]
<1>1. /\ from[1] \in 0 .. Len(a) /\ from[2] \in 0 .. Len(b) /\ to[1] \in 0 .. Len(a) /\ to[2] \in 0 .. Len(b)
      /\ Len(a) \in Nat /\ Len(b) \in Nat
      /\ part = <<from, to>> /\ from \in Places(a, b) /\ to \in Places(a, b)
  BY DEF Parts, Places
<1> HIDE DEF from, to
<1>2. S = {x \in (from[1] + 1 .. to[1]) \X (from[2] + 1 .. to[2]) \X (1 .. to[1] - from[1]) :
             /\ x[1] + x[3] - 1 <= to[1] /\ x[2] + x[3] - 1 <= to[2]
             /\ \A d \in 0 .. x[3] - 1 : a[x[1] + d] = b[x[2] + d]}
  BY DEF CommonBlocks, from, to
<1> HIDE DEF S, m
<1>3. S \in SUBSET (Nat \X Nat \X Nat) /\ \A x \in S : x[3] <= Len(a)
  <2>1. ASSUME NEW x \in S
        PROVE  x \in Nat \X Nat \X Nat /\ x[3] <= Len(a)
    <3>1. x \in (from[1] + 1 .. to[1]) \X (from[2] + 1 .. to[2]) \X (1 .. to[1] - from[1])
      BY <1>2
    <3>2. /\ from[1] + 1 .. to[1] \subseteq Nat /\ from[2] + 1 .. to[2] \subseteq Nat
          /\ 1 .. to[1] - from[1] \subseteq 0 .. Len(a) /\ 0 .. Len(a) \subseteq Nat
      BY <1>1
    <3>3. x[3] \in 0 .. Len(a)
      BY <3>1, <3>2
    <3> QED
      BY <1>1, <3>1, <3>2, <3>3
  <2> QED
    BY <2>1
<1>4. /\ m \in S
      /\ \A y \in S : \/ m[3] > y[3]
                      \/ m[3] = y[3] /\ (m[1] < y[1] \/ (m[1] = y[1] /\ m[2] <= y[2]))
  BY <1>1, <1>3, LongestIs DEF S, m
<1>5. /\ m[1] \in from[1] + 1 .. to[1] /\ m[2] \in from[2] + 1 .. to[2] /\ m[3] \in Nat \ {0}
      /\ m[1] + m[3] - 1 <= to[1] /\ m[2] + m[3] - 1 <= to[2]
      /\ \A d \in 0 .. m[3] - 1 : a[m[1] + d] = b[m[2] + d]
  BY <1>1, <1>2, <1>4
<1>6. \A y \in S : m[3] > y[3] \/ (m[3] = y[3] /\ m[1] <= y[1])
  BY <1>3, <1>4, <1>5
<1>7. /\ m[1] - 1 \in 0 .. Len(a) /\ m[2] - 1 \in 0 .. Len(b)
      /\ m[1] + m[3] - 1 \in 0 .. Len(a) /\ m[2] + m[3] - 1 \in 0 .. Len(b)
      /\ (m[1] - 1) - from[1] < to[1] - from[1]
      /\ to[1] - (m[1] + m[3] - 1) < to[1] - from[1]
  <2> DEFINE m1 == m[1]
             m2 == m[2]
             m3 == m[3]
             f1 == from[1]
             f2 == from[2]
             t1 == to[1]
             t2 == to[2]
             n == Len(a)
             k == Len(b)
  <2>1. /\ m1 \in Int /\ m2 \in Int /\ m3 \in Int /\ m3 >= 1
        /\ f1 + 1 <= m1 /\ f2 + 1 <= m2 /\ m1 + m3 - 1 <= t1 /\ m2 + m3 - 1 <= t2
        /\ f1 \in 0 .. n /\ f2 \in 0 .. k /\ t1 \in 0 .. n /\ t2 \in 0 .. k /\ n \in Nat /\ k \in Nat
    BY <1>1, <1>5
  <2> HIDE DEF m1, m2, m3, f1, f2, t1, t2, n, k
  <2>2. m1 - 1 \in 0 .. n /\ m2 - 1 \in 0 .. k
    BY <2>1
  <2>3. m1 + m3 - 1 \in 0 .. n /\ m2 + m3 - 1 \in 0 .. k
    BY <2>1
  <2>4. (m1 - 1) - f1 < t1 - f1 /\ t1 - (m1 + m3 - 1) < t1 - f1
    BY <2>1
  <2> QED
    BY <2>2, <2>3, <2>4 DEF m1, m2, m3, f1, t1, n, k
<1>9. m \in Nat \X Nat \X Nat
  BY <1>3, <1>4
<1>8. Left(part, m) \in Parts(a, b) /\ Right(part, m) \in Parts(a, b)
  BY <1>1, <1>7 DEF Left, Right, Parts, Places, from, to
<1> QED
  BY <1>5, <1>6, <1>7, <1>8, <1>9 DEF from, to, S, m, IsCommon

\* The tokens of the first text a part spans.
Depth(part) == part[2][1] - part[1][1]

\* A part spans at most the whole text.
LEMMA DepthIs ==
  ASSUME NEW A, NEW B, NEW a \in Seq(A), NEW b \in Seq(B), NEW part \in Parts(a, b)
  PROVE  Depth(part) \in Int /\ Depth(part) <= Len(a)
<1>1. part[2][1] \in 0 .. Len(a) /\ part[1][1] \in 0 .. Len(a) /\ Len(a) \in Nat
  BY DEF Parts, Places
<1> QED
  BY <1>1 DEF Depth

\* What is matched in a part depends on the shorter parts only.
LEMMA MatchedInSame ==
  ASSUME NEW A, NEW B, NEW a \in Seq(A), NEW b \in Seq(B), NEW part \in Parts(a, b),
         NEW g, NEW h, \A q \in Parts(a, b) : Depth(q) < Depth(part) => g[q] = h[q]
  PROVE  MatchedIn(a, b, g, part) = MatchedIn(a, b, h, part)
<1> DEFINE S == CommonBlocks(a, b, part[1], part[2])
           m == LongestBlock(S)
<1>1. CASE S = {}
  BY <1>1 DEF MatchedIn
<1>2. CASE S # {}
  <2>1. /\ Left(part, m) \in Parts(a, b) /\ Right(part, m) \in Parts(a, b)
        /\ (m[1] - 1) - part[1][1] < part[2][1] - part[1][1]
        /\ part[2][1] - (m[1] + m[3] - 1) < part[2][1] - part[1][1]
    BY <1>2, BlockIs, Zenon
  <2> HIDE DEF m
  <2>2. Depth(Left(part, m)) < Depth(part) /\ Depth(Right(part, m)) < Depth(part)
    <3>1. Left(part, m)[2][1] = m[1] - 1 /\ Left(part, m)[1] = part[1]
      BY DEF Left
    <3>2. Right(part, m)[1][1] = m[1] + m[3] - 1 /\ Right(part, m)[2] = part[2]
      BY DEF Right
    <3> QED
      BY <2>1, <3>1, <3>2, Zenon DEF Depth
  <2>3. g[Left(part, m)] = h[Left(part, m)] /\ g[Right(part, m)] = h[Right(part, m)]
    BY <2>1, <2>2
  <2> QED
    BY <1>2, <2>3, Zenon DEF MatchedIn, m
<1> QED
  BY <1>1, <1>2

\* The recursion has a solution over the parts of up to every length.
LEMMA AlignsExist ==
  ASSUME NEW A, NEW B, NEW a \in Seq(A), NEW b \in Seq(B)
  PROVE  Aligns(a, b, Parts(a, b), Aligned(a, b))
<1> DEFINE Upto(k) == {part \in Parts(a, b) : Depth(part) < k}
           Solved(k) == \E g : Aligns(a, b, Upto(k), g)
           bad == {k \in Nat : ~Solved(k)}
<1>1. ASSUME bad # {} PROVE FALSE
  <2>1. PICK k \in bad : \A j \in bad : k <= j
    <3>1. bad \subseteq Nat
      OBVIOUS
    <3> HIDE DEF bad
    <3> QED
      BY <1>1, <3>1, LeastNatural
  <2>2. \E g : k > 0 => Aligns(a, b, Upto(k - 1), g)
    <3>1. CASE k = 0
      BY <3>1
    <3>2. CASE k # 0
      <4>1. k - 1 \in Nat /\ ~ (k <= k - 1)
        BY <3>2
      <4> HIDE DEF Upto
      <4> QED
        BY <2>1, <4>1
    <3> QED
      BY <3>1, <3>2
  <2>3. PICK g : k > 0 => Aligns(a, b, Upto(k - 1), g)
    BY <2>2
  <2> DEFINE h == [part \in Upto(k) |-> MatchedIn(a, b, g, part)]
  <2>4. ASSUME NEW part \in Upto(k)
        PROVE  MatchedIn(a, b, g, part) = MatchedIn(a, b, h, part)
    <3>0. part \in Parts(a, b) /\ Depth(part) \in Int /\ Depth(part) < k /\ k \in Nat
      BY DepthIs
    <3> DEFINE S == CommonBlocks(a, b, part[1], part[2])
               m == LongestBlock(S)
    <3>1. CASE S = {}
      <4> HIDE DEF h
      <4> QED
        BY <3>1 DEF MatchedIn
    <3>2. CASE S # {}
      <4>1. Depth(part) > 0
        <5>1. m[1] \in part[1][1] + 1 .. part[2][1]
          BY <3>0, <3>2, BlockIs, Zenon
        <5> HIDE DEF m
        <5>2. part[2][1] \in Int /\ part[1][1] \in Int
          BY <3>0 DEF Parts, Places
        <5> QED
          BY <5>1, <5>2 DEF Depth
      <4>2. k > 0 /\ Aligns(a, b, Upto(k - 1), g)
        <5> HIDE DEF Upto
        <5>1. k > 0
          BY <3>0, <4>1
        <5> QED
          BY <2>3, <5>1
      <4>3. ASSUME NEW q \in Parts(a, b), Depth(q) < Depth(part) PROVE g[q] = h[q]
        <5>1. q \in Upto(k - 1) /\ q \in Upto(k)
          <6>1. Depth(q) \in Int
            BY DepthIs
          <6>2. Depth(q) < k - 1 /\ Depth(q) < k
            BY <3>0, <4>3, <6>1
          <6> QED
            BY <6>2
        <5>2. g[q] = MatchedIn(a, b, g, q)
          <6> HIDE DEF Upto
          <6> QED
            BY <4>2, <5>1, AlignsOne
        <5>3. h[q] = MatchedIn(a, b, g, q)
          <6> HIDE DEF Upto
          <6> QED
            BY <5>1
        <5> QED
          BY <5>2, <5>3, Zenon
      <4> HIDE DEF h, Upto
      <4> QED
        BY <3>0, <4>3, MatchedInSame
    <3> QED
      BY <3>1, <3>2
  <2>5. h = [part \in Upto(k) |-> MatchedIn(a, b, h, part)]
    <3>1. \A part \in Upto(k) : MatchedIn(a, b, g, part) = MatchedIn(a, b, h, part)
      <4> HIDE DEF h, Upto
      <4> QED
        BY <2>4
    <3>2. [part \in Upto(k) |-> MatchedIn(a, b, g, part)] = [part \in Upto(k) |-> MatchedIn(a, b, h, part)]
      <4> HIDE DEF h, Upto
      <4> QED
        BY <3>1, Zenon
    <3> QED
      BY <3>2, Zenon
  <2>6. Solved(k)
    <3> HIDE DEF h, Upto
    <3> QED
      BY <2>5, Zenon DEF Aligns
  <2> HIDE DEF Upto
  <2> QED
    BY <2>6
<1>2. Solved(Len(a) + 1)
  <2>1. Len(a) + 1 \in Nat
    OBVIOUS
  <2> HIDE DEF Solved
  <2> QED
    BY <1>1, <2>1
<1>3. Upto(Len(a) + 1) = Parts(a, b)
  <2>1. ASSUME NEW part \in Parts(a, b) PROVE Depth(part) < Len(a) + 1
    <3>1. Depth(part) \in Int /\ Depth(part) <= Len(a) /\ Len(a) \in Nat
      BY DepthIs
    <3> QED
      BY <3>1
  <2> QED
    BY <2>1
<1> HIDE DEF Upto
<1>4. \E g : Aligns(a, b, Parts(a, b), g)
  BY <1>2, <1>3
<1> QED
  BY <1>4, Zenon DEF Aligned

\* What an alignment of two texts after one place and up to another is: pairs of
\* equal tokens, in the same order in both, and as many as fit: two equal tokens
\* are a pair or cross one.
IsAlignment(a, b, from, to, M) ==
  /\ \A p \in M : /\ p \in (from[1] + 1 .. to[1]) \X (from[2] + 1 .. to[2])
                  /\ a[p[1]] = b[p[2]]
  /\ \A p, q \in M : p[1] < q[1] <=> p[2] < q[2]
  /\ \A i \in from[1] + 1 .. to[1], j \in from[2] + 1 .. to[2] :
       a[i] = b[j] => \E p \in M : \/ p[1] <= i /\ p[2] >= j
                                   \/ p[1] >= i /\ p[2] <= j

\* A block and the alignments on either side of it are one alignment.
LEMMA AlignmentsJoin ==
  ASSUME NEW a, NEW b, NEW from \in Int \X Int, NEW to \in Int \X Int, NEW m \in Int \X Int \X Int,
         m[3] >= 1, from[1] + 1 <= m[1], from[2] + 1 <= m[2],
         m[1] + m[3] - 1 <= to[1], m[2] + m[3] - 1 <= to[2],
         IsCommon(a, b, m)
  PROVE  \A L, R : /\ IsAlignment(a, b, from, <<m[1] - 1, m[2] - 1>>, L)
                   /\ IsAlignment(a, b, <<m[1] + m[3] - 1, m[2] + m[3] - 1>>, to, R)
                   => IsAlignment(a, b, from, to, Diagonal(m) \cup L \cup R)
<1> DEFINE f1 == from[1]
           f2 == from[2]
           t1 == to[1]
           t2 == to[2]
           m1 == m[1]
           m2 == m[2]
           m3 == m[3]
<1> SUFFICES ASSUME NEW L, IsAlignment(a, b, <<f1, f2>>, <<m1 - 1, m2 - 1>>, L),
                    NEW R, IsAlignment(a, b, <<m1 + m3 - 1, m2 + m3 - 1>>, <<t1, t2>>, R)
             PROVE  IsAlignment(a, b, <<f1, f2>>, <<t1, t2>>,
                                {<<m1 + d, m2 + d>> : d \in 0 .. m3 - 1} \cup L \cup R)
  <2>1. from = <<f1, f2>> /\ to = <<t1, t2>>
    OBVIOUS
  <2>2. Diagonal(m) = {<<m1 + d, m2 + d>> : d \in 0 .. m3 - 1}
    BY DEF Diagonal
  <2> HIDE DEF f1, f2, t1, t2, m1, m2, m3
  <2> QED
    BY <2>1, <2>2 DEF m1, m2, m3
<1>0. /\ f1 \in Int /\ f2 \in Int /\ t1 \in Int /\ t2 \in Int /\ m1 \in Int /\ m2 \in Int /\ m3 \in Int
      /\ m3 >= 1 /\ f1 + 1 <= m1 /\ f2 + 1 <= m2 /\ m1 + m3 - 1 <= t1 /\ m2 + m3 - 1 <= t2
      /\ \A d \in 0 .. m3 - 1 : a[m1 + d] = b[m2 + d]
  BY DEF IsCommon
<1> HIDE DEF f1, f2, t1, t2, m1, m2, m3
<1> USE <1>0
<1> DEFINE D == {<<m1 + d, m2 + d>> : d \in 0 .. m3 - 1}
           M == D \cup L \cup R
<1>1. /\ \A p \in L : /\ p \in (f1 + 1 .. m1 - 1) \X (f2 + 1 .. m2 - 1)
                      /\ a[p[1]] = b[p[2]]
      /\ \A p, q \in L : p[1] < q[1] <=> p[2] < q[2]
      /\ \A i \in f1 + 1 .. m1 - 1, j \in f2 + 1 .. m2 - 1 :
           a[i] = b[j] => \E p \in L : \/ p[1] <= i /\ p[2] >= j
                                       \/ p[1] >= i /\ p[2] <= j
  BY DEF IsAlignment
<1>2. /\ \A p \in R : /\ p \in (m1 + m3 - 1 + 1 .. t1) \X (m2 + m3 - 1 + 1 .. t2)
                      /\ a[p[1]] = b[p[2]]
      /\ \A p, q \in R : p[1] < q[1] <=> p[2] < q[2]
      /\ \A i \in m1 + m3 - 1 + 1 .. t1, j \in m2 + m3 - 1 + 1 .. t2 :
           a[i] = b[j] => \E p \in R : \/ p[1] <= i /\ p[2] >= j
                                       \/ p[1] >= i /\ p[2] <= j
  BY DEF IsAlignment
<1>3. ASSUME NEW p \in D
      PROVE  /\ p[1] \in Int /\ p[2] \in Int /\ p = <<p[1], p[2]>>
             /\ m1 <= p[1] /\ p[1] <= m1 + m3 - 1 /\ p[2] - m2 = p[1] - m1
             /\ a[p[1]] = b[p[2]]
  <2>1. PICK d \in 0 .. m3 - 1 : p = <<m1 + d, m2 + d>>
    OBVIOUS
  <2>2. p[1] = m1 + d /\ p[2] = m2 + d /\ a[m1 + d] = b[m2 + d] /\ d \in Int
    BY <2>1
  <2> QED
    BY <2>1, <2>2
<1>4. ASSUME NEW p \in L
      PROVE  /\ p[1] \in Int /\ p[2] \in Int /\ p = <<p[1], p[2]>>
             /\ f1 + 1 <= p[1] /\ p[1] <= m1 - 1 /\ f2 + 1 <= p[2] /\ p[2] <= m2 - 1
             /\ a[p[1]] = b[p[2]]
  BY <1>1
<1>5. ASSUME NEW p \in R
      PROVE  /\ p[1] \in Int /\ p[2] \in Int /\ p = <<p[1], p[2]>>
             /\ m1 + m3 <= p[1] /\ p[1] <= t1 /\ m2 + m3 <= p[2] /\ p[2] <= t2
             /\ a[p[1]] = b[p[2]]
  BY <1>2
<1> HIDE DEF D
<1>6. ASSUME NEW p \in M
      PROVE  p \in (f1 + 1 .. t1) \X (f2 + 1 .. t2) /\ a[p[1]] = b[p[2]]
  <2>1. /\ p = <<p[1], p[2]>> /\ p[1] \in Int /\ p[2] \in Int /\ a[p[1]] = b[p[2]]
        /\ f1 + 1 <= p[1] /\ p[1] <= t1 /\ f2 + 1 <= p[2] /\ p[2] <= t2
    BY <1>3, <1>4, <1>5
  <2>2. p[1] \in f1 + 1 .. t1 /\ p[2] \in f2 + 1 .. t2
    BY <2>1
  <2> QED
    BY <2>1, <2>2
<1>7. ASSUME NEW p \in M, NEW q \in M
      PROVE  p[1] < q[1] <=> p[2] < q[2]
  <2>1. CASE p \in L /\ q \in L
    BY <1>1, <2>1
  <2>2. CASE p \in R /\ q \in R
    BY <1>2, <2>2
  <2>3. CASE p \in D /\ q \in D
    BY <1>3, <2>3
  <2>4. CASE (p \in L /\ q \in D) \/ (p \in D /\ q \in L)
    BY <1>3, <1>4, <2>4
  <2>5. CASE (p \in R /\ q \in D) \/ (p \in D /\ q \in R)
    BY <1>3, <1>5, <2>5
  <2>6. CASE (p \in R /\ q \in L) \/ (p \in L /\ q \in R)
    BY <1>4, <1>5, <2>6
  <2>7. (p \in D \/ p \in L \/ p \in R) /\ (q \in D \/ q \in L \/ q \in R)
    OBVIOUS
  <2>8. CASE p \in D
    BY <2>3, <2>4, <2>5, <2>7, <2>8
  <2>9. CASE p \in L
    BY <2>1, <2>4, <2>6, <2>7, <2>9, Zenon
  <2>10. CASE p \in R
    BY <2>2, <2>5, <2>6, <2>7, <2>10, Zenon
  <2> QED
    BY <2>7, <2>8, <2>9, <2>10
<1>8. ASSUME NEW i \in f1 + 1 .. t1, NEW j \in f2 + 1 .. t2, a[i] = b[j]
      PROVE  \E p \in M : \/ p[1] <= i /\ p[2] >= j
                          \/ p[1] >= i /\ p[2] <= j
  <2>0. i \in Int /\ j \in Int
    OBVIOUS
  <2>1. ASSUME NEW d \in 0 .. m3 - 1, (m1 + d <= i /\ m2 + d >= j) \/ (m1 + d >= i /\ m2 + d <= j)
        PROVE  \E p \in D : \/ p[1] <= i /\ p[2] >= j
                            \/ p[1] >= i /\ p[2] <= j
    <3>1. <<m1 + d, m2 + d>> \in D
      BY DEF D
    <3>2. <<m1 + d, m2 + d>>[1] = m1 + d /\ <<m1 + d, m2 + d>>[2] = m2 + d
      OBVIOUS
    <3> QED
      BY <2>1, <3>1, <3>2
  <2>2. CASE i < m1 /\ j < m2
    <3>1. i \in f1 + 1 .. m1 - 1 /\ j \in f2 + 1 .. m2 - 1
      BY <2>2
    <3> QED
      BY <1>1, <1>8, <3>1
  <2>3. CASE i >= m1 + m3 /\ j >= m2 + m3
    <3>1. i \in m1 + m3 - 1 + 1 .. t1 /\ j \in m2 + m3 - 1 + 1 .. t2
      BY <2>3
    <3> QED
      BY <1>2, <1>8, <3>1
  <2>4. CASE i < m1 /\ j >= m2
    <3>1. 0 \in 0 .. m3 - 1 /\ m1 + 0 >= i /\ m2 + 0 <= j
      BY <2>4
    <3> QED
      BY <2>1, <3>1
  <2>5. CASE m1 <= i /\ i < m1 + m3
    <3>1. i - m1 \in 0 .. m3 - 1 /\ m1 + (i - m1) = i
      BY <2>0, <2>5
    <3>2. m2 + (i - m1) >= j \/ m2 + (i - m1) <= j
      BY <2>0
    <3>3. \/ m1 + (i - m1) <= i /\ m2 + (i - m1) >= j
          \/ m1 + (i - m1) >= i /\ m2 + (i - m1) <= j
      BY <2>0, <3>1, <3>2
    <3> QED
      BY <2>1, <3>1, <3>3
  <2>6. CASE i >= m1 + m3 /\ j < m2 + m3
    <3> DEFINE d == m3 - 1
    <3>1. d \in 0 .. m3 - 1 /\ m1 + d <= i /\ m2 + d >= j
      BY <2>0, <2>6
    <3> HIDE DEF d
    <3> QED
      BY <2>1, <3>1
  <2> QED
    BY <2>0, <2>2, <2>3, <2>4, <2>5, <2>6
<1> QED
  BY <1>6, <1>7, <1>8, Zenon DEF IsAlignment, D

\* Of some parts one is the shortest, and the parts beside its longest block are
\* not among them.
LEMMA ShortestPart ==
  ASSUME NEW A, NEW B, NEW a \in Seq(A), NEW b \in Seq(B), NEW bad \in SUBSET Parts(a, b), bad # {}
  PROVE  \E part \in bad :
           LET S == CommonBlocks(a, b, part[1], part[2])
               m == LongestBlock(S)
           IN  S # {} => Left(part, m) \notin bad /\ Right(part, m) \notin bad
<1> DEFINE depths == {Len(a) + Depth(part) : part \in bad}
<1>1. \A part \in Parts(a, b) : Len(a) + Depth(part) \in Nat
  <2>1. ASSUME NEW part \in Parts(a, b) PROVE Len(a) + Depth(part) \in Nat
    <3>1. part[2][1] \in 0 .. Len(a) /\ part[1][1] \in 0 .. Len(a) /\ Len(a) \in Nat
      BY DEF Parts, Places
    <3> QED
      BY <3>1 DEF Depth
  <2> QED
    BY <2>1
<1>2. PICK k \in depths : \A j \in depths : k <= j
  <2>1. depths \subseteq Nat /\ depths # {}
    BY <1>1
  <2> HIDE DEF depths
  <2> QED
    BY <2>1, LeastNatural
<1>3. PICK part \in bad : \A q \in bad : Len(a) + Depth(part) <= Len(a) + Depth(q)
  BY <1>2
<1> DEFINE S == CommonBlocks(a, b, part[1], part[2])
           m == LongestBlock(S)
<1>4. CASE S = {}
  BY <1>4
<1>5. CASE S # {}
  <2>0. part \in Parts(a, b)
    OBVIOUS
  <2>1. /\ Left(part, m) \in Parts(a, b) /\ Right(part, m) \in Parts(a, b)
        /\ (m[1] - 1) - part[1][1] < part[2][1] - part[1][1]
        /\ part[2][1] - (m[1] + m[3] - 1) < part[2][1] - part[1][1]
    BY <1>5, <2>0, BlockIs, Zenon
  <2> HIDE DEF m
  <2>2. Depth(Left(part, m)) < Depth(part) /\ Depth(Right(part, m)) < Depth(part)
    <3>1. Left(part, m)[2][1] = m[1] - 1 /\ Left(part, m)[1] = part[1]
      BY DEF Left
    <3>2. Right(part, m)[1][1] = m[1] + m[3] - 1 /\ Right(part, m)[2] = part[2]
      BY DEF Right
    <3> QED
      BY <2>1, <3>1, <3>2, Zenon DEF Depth
  <2>3. ASSUME NEW q \in Parts(a, b), Depth(q) < Depth(part) PROVE q \notin bad
    <3>1. Depth(q) \in Int /\ Depth(part) \in Int /\ Len(a) \in Nat
      BY <2>0, DepthIs
    <3>2. ~ (Len(a) + Depth(part) <= Len(a) + Depth(q))
      BY <2>3, <3>1
    <3> QED
      BY <1>3, <3>2
  <2>4. Left(part, m) \notin bad /\ Right(part, m) \notin bad
    BY <2>1, <2>2, <2>3
  <2> QED
    BY <2>4 DEF m
<1> QED
  BY <1>4, <1>5

\* The matched pairs of every part are an alignment of it.
LEMMA AlignmentIs ==
  ASSUME NEW A, NEW B, NEW a \in Seq(A), NEW b \in Seq(B)
  PROVE  \A part \in Parts(a, b) : IsAlignment(a, b, part[1], part[2], Aligned(a, b)[part])
<1> DEFINE g == Aligned(a, b)
           bad == {part \in Parts(a, b) : ~IsAlignment(a, b, part[1], part[2], g[part])}
<1>1. \A part \in Parts(a, b) : g[part] = MatchedIn(a, b, g, part)
  BY AlignsExist, AlignsOne
<1> HIDE DEF g
<1>2. ASSUME bad # {} PROVE FALSE
  <2>1. PICK part \in bad :
           LET S == CommonBlocks(a, b, part[1], part[2])
               m == LongestBlock(S)
           IN  S # {} => Left(part, m) \notin bad /\ Right(part, m) \notin bad
    <3>1. bad \in SUBSET Parts(a, b)
      OBVIOUS
    <3> HIDE DEF bad
    <3> QED
      BY <1>2, <3>1, ShortestPart
  <2> DEFINE S == CommonBlocks(a, b, part[1], part[2])
             m == LongestBlock(S)
             from == part[1]
             to == part[2]
  <2>2. part \in Parts(a, b) /\ g[part] = MatchedIn(a, b, g, part)
    BY <1>1
  <2>3. /\ from[1] \in Nat /\ from[2] \in Nat /\ to[1] \in Nat /\ to[2] \in Nat
        /\ from = <<from[1], from[2]>> /\ to = <<to[1], to[2]>>
    BY <2>2 DEF Parts, Places
  <2>4. CASE S = {}
    <3>1. g[part] = {}
      BY <2>2, <2>4 DEF MatchedIn
    <3>2. ASSUME NEW i \in from[1] + 1 .. to[1], NEW j \in from[2] + 1 .. to[2], a[i] = b[j]
          PROVE  FALSE
      <4>1. 1 \in 1 .. to[1] - from[1] /\ i + 1 - 1 <= to[1] /\ j + 1 - 1 <= to[2]
        BY <2>3
      <4>2. \A d \in 0 .. 1 - 1 : a[i + d] = b[j + d]
        BY <3>2
      <4>3. <<i, j, 1>> \in S
        BY <4>1, <4>2 DEF CommonBlocks
      <4> QED
        BY <2>4, <4>3
    <3>3. IsAlignment(a, b, from, to, {})
      BY <3>2 DEF IsAlignment
    <3> QED
      BY <3>1, <3>3
  <2>5. CASE S # {}
    <3>0. /\ m \in Nat \X Nat \X Nat
          /\ m[1] \in part[1][1] + 1 .. part[2][1] /\ m[2] \in part[1][2] + 1 .. part[2][2]
          /\ m[3] \in Nat \ {0}
          /\ m[1] + m[3] - 1 <= part[2][1] /\ m[2] + m[3] - 1 <= part[2][2]
          /\ IsCommon(a, b, m)
          /\ Left(part, m) \in Parts(a, b) /\ Right(part, m) \in Parts(a, b)
      <4> HIDE DEF bad
      <4> QED
        BY <2>2, <2>5, BlockIs, Zenon
    <3>1. /\ m \in Nat \X Nat \X Nat
          /\ m[1] \in from[1] + 1 .. to[1] /\ m[2] \in from[2] + 1 .. to[2]
          /\ m[3] \in Nat \ {0}
          /\ m[1] + m[3] - 1 <= to[1] /\ m[2] + m[3] - 1 <= to[2]
          /\ IsCommon(a, b, m)
          /\ Left(part, m) \in Parts(a, b) /\ Right(part, m) \in Parts(a, b)
      BY <3>0, Zenon DEF from, to
    <3>2. Left(part, m) \notin bad /\ Right(part, m) \notin bad
      BY <2>1, <2>5
    <3> HIDE DEF m
    <3> DEFINE L == g[Left(part, m)]
               R == g[Right(part, m)]
    <3>3. IsAlignment(a, b, Left(part, m)[1], Left(part, m)[2], L) /\ IsAlignment(a, b, Right(part, m)[1], Right(part, m)[2], R)
      <4> HIDE DEF L, R
      <4> QED
        BY <3>1, <3>2 DEF L, R
    <3>4. /\ Left(part, m)[1] = from /\ Left(part, m)[2] = <<m[1] - 1, m[2] - 1>>
          /\ Right(part, m)[1] = <<m[1] + m[3] - 1, m[2] + m[3] - 1>> /\ Right(part, m)[2] = to
      BY DEF Left, Right
    <3> HIDE DEF L, R, from, to
    <3>5. IsAlignment(a, b, from, <<m[1] - 1, m[2] - 1>>, L) /\ IsAlignment(a, b, <<m[1] + m[3] - 1, m[2] + m[3] - 1>>, to, R)
      BY <3>3, <3>4, Zenon
    <3>6. IsAlignment(a, b, from, to, Diagonal(m) \cup L \cup R)
      <4>1. /\ from \in Int \X Int /\ to \in Int \X Int /\ m[3] >= 1 /\ m[1] \in Int /\ m[2] \in Int /\ m[3] \in Int
            /\ from[1] + 1 <= m[1] /\ from[2] + 1 <= m[2]
        BY <2>3, <3>1
      <4>2. m \in Int \X Int \X Int
        BY <3>1, <4>1
      <4> QED
        BY <3>1, <3>5, <4>1, <4>2, AlignmentsJoin
    <3>7. g[part] = Diagonal(m) \cup L \cup R
      BY <2>2, <2>5, Zenon DEF MatchedIn, m, L, R
    <3> QED
      BY <3>6, <3>7 DEF from, to
  <2> QED
    BY <2>4, <2>5
<1> QED
  BY <1>2 DEF g

\* Two texts with the same tokens after a head whose tokens occur at no other
\* place of either text are aligned place by place after it.
SameAfter(a, b, h) ==
  /\ Len(a) = Len(b) /\ h \in 0 .. Len(a)
  /\ \A i, j \in 1 .. Len(a) : (i <= h \/ j <= h) /\ a[i] = b[j] => i = j
  /\ \A i \in h + 1 .. Len(a) : a[i] = b[i]
Straight(M, from, to, h) ==
  /\ \A p \in M : p[1] = p[2]
  /\ \A i \in from + 1 .. to : i > h => <<i, i>> \in M

\* The longest blocks of the parts between two like places.
BlocksAreStraight(a, b) ==
  \A f, k \in 0 .. Len(a) :
    LET S == CommonBlocks(a, b, <<f, f>>, <<k, k>>)
    IN  S # {} => LongestBlock(S)[1] = LongestBlock(S)[2]

\* In two texts that are the same after a head, a longest block stands at the
\* same place of both.
LEMMA LongestIsStraight ==
  ASSUME NEW A, NEW B, NEW a \in Seq(A), NEW b \in Seq(B), NEW h, SameAfter(a, b, h)
  PROVE  BlocksAreStraight(a, b)
<1> SUFFICES ASSUME NEW f \in 0 .. Len(a), NEW k \in 0 .. Len(a), CommonBlocks(a, b, <<f, f>>, <<k, k>>) # {}
             PROVE  LET m == LongestBlock(CommonBlocks(a, b, <<f, f>>, <<k, k>>))
                    IN  m[1] = m[2]
  BY DEF BlocksAreStraight
<1> DEFINE part == <<<<f, f>>, <<k, k>>>>
           S == CommonBlocks(a, b, part[1], part[2])
           m == LongestBlock(S)
<1>0. Len(a) \in Nat /\ Len(b) = Len(a) /\ h \in 0 .. Len(a) /\ f \in Nat /\ k \in Nat /\ k <= Len(a)
  BY DEF SameAfter
<1>1. part \in Parts(a, b) /\ S # {}
  BY <1>0 DEF Parts, Places
<1>2. /\ m \in Nat \X Nat \X Nat
      /\ m[1] \in part[1][1] + 1 .. part[2][1] /\ m[2] \in part[1][2] + 1 .. part[2][2]
      /\ m[3] \in Nat \ {0}
      /\ m[1] + m[3] - 1 <= part[2][1] /\ m[2] + m[3] - 1 <= part[2][2]
      /\ IsCommon(a, b, m)
      /\ \A y \in S : m[3] > y[3] \/ (m[3] = y[3] /\ m[1] <= y[1])
  <2> HIDE DEF part
  <2> QED
    BY <1>1, BlockIs, Zenon
<1> DEFINE m1 == m[1]
           m2 == m[2]
           m3 == m[3]
<1>3. /\ m1 \in Int /\ m2 \in Int /\ m3 \in Int /\ m3 >= 1
      /\ f + 1 <= m1 /\ m1 + m3 - 1 <= k /\ f + 1 <= m2 /\ m2 + m3 - 1 <= k
  <2>1. part[1][1] = f /\ part[1][2] = f /\ part[2][1] = k /\ part[2][2] = k
    OBVIOUS
  <2> HIDE DEF m, part
  <2> QED
    BY <1>0, <1>2, <2>1
<1>4. a[m1] = b[m2]
  <2> HIDE DEF m
  <2>1. 0 \in 0 .. m[3] - 1 /\ m[1] + 0 = m[1] /\ m[2] + 0 = m[2]
    BY <1>2
  <2> QED
    BY <1>2, <2>1 DEF IsCommon
<1>5. \A y \in S : m3 > y[3] \/ (m3 = y[3] /\ m1 <= y[1])
  BY <1>2
<1> HIDE DEF m, m1, m2, m3
<1>6. ASSUME m1 <= h \/ m2 <= h PROVE m1 = m2
  <2>1. m1 \in 1 .. Len(a) /\ m2 \in 1 .. Len(a)
    BY <1>0, <1>3
  <2> QED
    BY <1>4, <1>6, <2>1 DEF SameAfter
<1>7. ASSUME m1 > h, m2 > h PROVE m1 = m2
  <2> DEFINE c == (IF f > h THEN f ELSE h) + 1
  <2>1. c \in Int /\ c > h /\ c > f /\ c <= m1 /\ c <= m2 /\ c <= k
    BY <1>0, <1>3, <1>7
  <2>2. <<c, c, k - c + 1>> \in S
    <3> HIDE DEF c
    <3>1. /\ c \in f + 1 .. k /\ k - c + 1 \in 1 .. k - f /\ c + (k - c + 1) - 1 <= k
      BY <1>0, <2>1
    <3>2. ASSUME NEW d \in 0 .. (k - c + 1) - 1 PROVE a[c + d] = b[c + d]
      <4>1. c + d \in h + 1 .. Len(a)
        BY <1>0, <2>1
      <4> QED
        BY <4>1 DEF SameAfter
    <3> QED
      BY <3>1, <3>2 DEF CommonBlocks
  <2> HIDE DEF S, c
  <2>3. m3 > k - c + 1 \/ (m3 = k - c + 1 /\ m1 <= c)
    BY <1>5, <2>2
  <2> QED
    BY <1>0, <1>3, <2>1, <2>3
<1>8. m1 = m2
  BY <1>0, <1>3, <1>6, <1>7
<1> QED
  BY <1>8 DEF m, m1, m2

\* Such texts are aligned place by place after the head.
LEMMA TailIsAligned ==
  ASSUME NEW A, NEW B, NEW a \in Seq(A), NEW b \in Seq(B), NEW h, SameAfter(a, b, h)
  PROVE  Straight(MatchedPairs(a, b), 0, Len(a), h)
<1> DEFINE g == Aligned(a, b)
           bad == {part \in Parts(a, b) : /\ part[1][1] = part[1][2] /\ part[2][1] = part[2][2]
                                          /\ ~Straight(g[part], part[1][1], part[2][1], h)}
<1>0. Len(a) \in Nat /\ Len(b) = Len(a) /\ h \in 0 .. Len(a)
  BY DEF SameAfter
<1>1. \A part \in Parts(a, b) : g[part] = MatchedIn(a, b, g, part)
  BY AlignsExist, AlignsOne
<1> HIDE DEF g
<1>2. ASSUME bad # {} PROVE FALSE
  <2>1. PICK part \in bad :
           LET S == CommonBlocks(a, b, part[1], part[2])
               m == LongestBlock(S)
           IN  S # {} => Left(part, m) \notin bad /\ Right(part, m) \notin bad
    <3>1. bad \in SUBSET Parts(a, b)
      OBVIOUS
    <3> HIDE DEF bad
    <3> QED
      BY <1>2, <3>1, ShortestPart
  <2> DEFINE S == CommonBlocks(a, b, part[1], part[2])
             m == LongestBlock(S)
             f == part[1][1]
             k == part[2][1]
  <2>2. part \in Parts(a, b) /\ g[part] = MatchedIn(a, b, g, part)
    BY <1>1
  <2>3. f \in 0 .. Len(a) /\ k \in 0 .. Len(a) /\ part[1] = <<f, f>> /\ part[2] = <<k, k>>
    BY <2>2 DEF Parts, Places
  <2>4. CASE S = {}
    <3>1. g[part] = {}
      BY <2>2, <2>4 DEF MatchedIn
    <3>2. ASSUME NEW i \in f + 1 .. k, i > h PROVE FALSE
      <4>1. 1 \in 1 .. k - f /\ i + 1 - 1 <= k /\ i \in h + 1 .. Len(a)
        BY <1>0, <2>3, <3>2
      <4>2. \A d \in 0 .. 1 - 1 : a[i + d] = b[i + d]
        BY <4>1 DEF SameAfter
      <4>3. <<i, i, 1>> \in CommonBlocks(a, b, <<f, f>>, <<k, k>>)
        BY <4>1, <4>2 DEF CommonBlocks
      <4> QED
        BY <2>3, <2>4, <4>3
    <3> QED
      BY <3>1, <3>2 DEF Straight
  <2>5. CASE S # {}
    <3>0. /\ m \in Nat \X Nat \X Nat
          /\ m[1] \in part[1][1] + 1 .. part[2][1]
          /\ m[3] \in Nat \ {0}
          /\ m[1] + m[3] - 1 <= part[2][1]
          /\ Left(part, m) \in Parts(a, b) /\ Right(part, m) \in Parts(a, b)
      <4> HIDE DEF bad
      <4> QED
        BY <2>2, <2>5, BlockIs, Zenon
    <3>1. m[1] = m[2]
      <4>1. CommonBlocks(a, b, <<f, f>>, <<k, k>>) # {} /\ m = LongestBlock(CommonBlocks(a, b, <<f, f>>, <<k, k>>))
        BY <2>3, <2>5
      <4>2. BlocksAreStraight(a, b)
        BY LongestIsStraight
      <4> HIDE DEF f, k
      <4>3. LongestBlock(CommonBlocks(a, b, <<f, f>>, <<k, k>>))[1] = LongestBlock(CommonBlocks(a, b, <<f, f>>, <<k, k>>))[2]
        BY <2>3, <4>1, <4>2, Zenon DEF BlocksAreStraight
      <4> QED
        BY <4>1, <4>3
    <3>2. Left(part, m) \notin bad /\ Right(part, m) \notin bad
      BY <2>1, <2>5
    <3> DEFINE m1 == m[1]
               m3 == m[3]
    <3>3. /\ m1 \in Int /\ m3 \in Int /\ m3 >= 1 /\ f + 1 <= m1 /\ m1 + m3 - 1 <= k
          /\ Diagonal(m) = {<<m1 + d, m1 + d>> : d \in 0 .. m3 - 1}
          /\ Left(part, m) = <<<<f, f>>, <<m1 - 1, m1 - 1>>>>
          /\ Right(part, m) = <<<<m1 + m3 - 1, m1 + m3 - 1>>, <<k, k>>>>
      <4>1. m1 \in Int /\ m3 \in Int /\ m3 >= 1 /\ f + 1 <= m1 /\ m1 + m3 - 1 <= k
        BY <2>3, <3>0
      <4> HIDE DEF m
      <4> QED
        BY <2>3, <3>1, <4>1 DEF Diagonal, Left, Right
    <3> DEFINE L == g[Left(part, m)]
               R == g[Right(part, m)]
    <3>4. Straight(L, f, m1 - 1, h) /\ Straight(R, m1 + m3 - 1, k, h)
      <4> HIDE DEF m, m1, m3, f, k
      <4>1. /\ Left(part, m)[1][1] = f /\ Left(part, m)[1][2] = f
            /\ Left(part, m)[2][1] = m1 - 1 /\ Left(part, m)[2][2] = m1 - 1
            /\ Right(part, m)[1][1] = m1 + m3 - 1 /\ Right(part, m)[1][2] = m1 + m3 - 1
            /\ Right(part, m)[2][1] = k /\ Right(part, m)[2][2] = k
        BY <3>3
      <4> HIDE DEF L, R
      <4>2. Straight(L, Left(part, m)[1][1], Left(part, m)[2][1], h) /\ Straight(R, Right(part, m)[1][1], Right(part, m)[2][1], h)
        BY <3>0, <3>2, <4>1 DEF L, R
      <4> QED
        BY <4>1, <4>2
    <3>5. g[part] = Diagonal(m) \cup L \cup R
      BY <2>2, <2>5, Zenon DEF MatchedIn, m, L, R
    <3> HIDE DEF m, L, R, m1, m3, f, k
    <3>6. \A p \in g[part] : p[1] = p[2]
      <4>1. \A p \in Diagonal(m) : p[1] = p[2]
        BY <3>3
      <4> QED
        BY <3>4, <3>5, <4>1 DEF Straight
    <3>7. ASSUME NEW i \in f + 1 .. k, i > h PROVE <<i, i>> \in g[part]
      <4>0. f \in Int /\ k \in Int
        BY <2>3
      <4>1. CASE i < m1
        <5>1. i \in f + 1 .. m1 - 1
          BY <3>3, <4>0, <4>1
        <5> QED
          BY <3>4, <3>5, <3>7, <5>1 DEF Straight
      <4>2. CASE i > m1 + m3 - 1
        <5>1. i \in m1 + m3 - 1 + 1 .. k
          BY <3>3, <4>0, <4>2
        <5> QED
          BY <3>4, <3>5, <3>7, <5>1 DEF Straight
      <4>3. CASE m1 <= i /\ i <= m1 + m3 - 1
        <5>1. i - m1 \in 0 .. m3 - 1 /\ m1 + (i - m1) = i
          BY <3>3, <4>0, <4>3
        <5>2. <<m1 + (i - m1), m1 + (i - m1)>> \in Diagonal(m)
          BY <3>3, <5>1
        <5> QED
          BY <3>5, <5>1, <5>2
      <4> QED
        BY <3>3, <4>0, <4>1, <4>2, <4>3
    <3> QED
      BY <3>6, <3>7 DEF Straight, f, k
  <2> QED
    BY <2>4, <2>5
<1>3. <<<<0, 0>>, <<Len(a), Len(b)>>>> \in Parts(a, b)
  BY <1>0 DEF Parts, Places
<1>4. Straight(g[<<<<0, 0>>, <<Len(a), Len(b)>>>>], 0, Len(a), h)
  BY <1>0, <1>2, <1>3
<1> QED
  BY <1>4, MatchingIsRecursive DEF g

--------------------------------------------------------------------------------
(* Charges counted twice. *)

\* Of some finite sets one is among them with no one-element-smaller one.
LEMMA SmallestSet ==
  ASSUME NEW S, IsFiniteSet(S), NEW bad \in SUBSET (SUBSET S), bad # {}
  PROVE  \E U \in bad : \A x \in U : U \ {x} \notin bad
<1> DEFINE sizes == {Cardinality(U) : U \in bad}
<1>1. \A U \in bad : IsFiniteSet(U) /\ Cardinality(U) \in Nat
  BY FS_Subset, FS_CardinalityType
<1>2. PICK n \in sizes : \A m \in sizes : n <= m
  <2>1. sizes \subseteq Nat /\ sizes # {}
    BY <1>1
  <2> HIDE DEF sizes
  <2> QED
    BY <2>1, LeastNatural
<1>3. PICK U \in bad : Cardinality(U) = n
  OBVIOUS
<1>4. ASSUME NEW x \in U, U \ {x} \in bad PROVE FALSE
  <2>1. Cardinality(U \ {x}) = Cardinality(U) - 1 /\ Cardinality(U) \in Nat
    BY <1>1, FS_RemoveElement
  <2>2. n <= Cardinality(U \ {x})
    BY <1>2, <1>4
  <2> QED
    BY <1>3, <2>1, <2>2
<1> QED
  BY <1>4

\* A sum of sums.
LEMMA SumPlus ==
  ASSUME NEW f, NEW g, NEW h, NEW S, IsFiniteSet(S),
         \A x \in S : f[x] \in Int /\ g[x] \in Int /\ h[x] = f[x] + g[x]
  PROVE  SumFunctionOnSet(h, S) = SumFunctionOnSet(f, S) + SumFunctionOnSet(g, S)
<1> DEFINE Sum(e, U) == SumFunctionOnSet(e, U)
           bad == {U \in SUBSET S : Sum(h, U) # Sum(f, U) + Sum(g, U)}
<1>1. ASSUME bad # {} PROVE FALSE
  <2>1. PICK U \in bad : \A x \in U : U \ {x} \notin bad
    <3>1. bad \in SUBSET (SUBSET S)
      OBVIOUS
    <3> HIDE DEF bad
    <3> QED
      BY <1>1, <3>1, SmallestSet
  <2>2. U \in SUBSET S /\ IsFiniteSet(U) /\ Sum(h, U) # Sum(f, U) + Sum(g, U)
    BY FS_Subset
  <2>3. CASE U = {}
    <3>1. Sum(h, U) = 0 /\ Sum(f, U) = 0 /\ Sum(g, U) = 0
      BY <2>2, <2>3, SumNext
    <3> HIDE DEF Sum
    <3> QED
      BY <2>2, <3>1
  <2>4. CASE U # {}
    <3>1. PICK x \in U : TRUE
      BY <2>4
    <3> DEFINE V == U \ {x}
    <3>2. V \in SUBSET S /\ V \notin bad /\ IsFiniteSet(V)
      BY <2>1, <2>2, FS_Subset
    <3>3. Sum(h, V) = Sum(f, V) + Sum(g, V)
      BY <3>2
    <3>4. f[x] \in Int /\ g[x] \in Int /\ h[x] \in Int /\ h[x] = f[x] + g[x]
      BY <2>2
    <3>5. \A y \in U : f[y] \in Int /\ g[y] \in Int /\ h[y] \in Int
      BY <2>2
    <3>6. Sum(h, U) = h[x] + Sum(h, V) /\ Sum(f, U) = f[x] + Sum(f, V) /\ Sum(g, U) = g[x] + Sum(g, V)
      BY <2>2, <3>5, SumTakes
    <3>7. Sum(f, V) \in Int /\ Sum(g, V) \in Int
      BY <3>2, <3>5, SumType
    <3> HIDE DEF Sum, V
    <3> QED
      BY <2>2, <3>3, <3>4, <3>6, <3>7
  <2> QED
    BY <2>3, <2>4
<1>2. S \notin bad
  BY <1>1
<1> QED
  BY <1>2

\* A sum grows with its terms.
LEMMA SumGrows ==
  ASSUME NEW f, NEW g, NEW S, IsFiniteSet(S),
         \A x \in S : f[x] \in Int /\ g[x] \in Int /\ f[x] <= g[x]
  PROVE  SumFunctionOnSet(f, S) <= SumFunctionOnSet(g, S)
<1> DEFINE d == [x \in S |-> g[x] - f[x]]
<1>1. \A x \in S : f[x] \in Int /\ d[x] \in Int /\ g[x] = f[x] + d[x]
  OBVIOUS
<1>2. \A x \in S : d[x] \in Nat
  OBVIOUS
<1> HIDE DEF d
<1>3. SumFunctionOnSet(g, S) = SumFunctionOnSet(f, S) + SumFunctionOnSet(d, S)
  BY <1>1, SumPlus
<1>4. SumFunctionOnSet(d, S) \in Nat /\ SumFunctionOnSet(f, S) \in Int
  BY <1>1, <1>2, SumOfNaturals, SumType
<1> QED
  BY <1>3, <1>4

\* Ones and noughts add up to the number of ones.
LEMMA SumCounts ==
  ASSUME NEW f, NEW S, IsFiniteSet(S), NEW P \in SUBSET S,
         \A x \in S : f[x] = IF x \in P THEN 1 ELSE 0
  PROVE  SumFunctionOnSet(f, S) = Cardinality(P)
<1> DEFINE Q == S \ P
<1>1. IsFiniteSet(P) /\ IsFiniteSet(Q) /\ P \cap Q = {} /\ P \cup Q = S
  BY FS_Subset
<1>2. Cardinality(P) \in Nat /\ Cardinality(Q) \in Nat
  BY <1>1, FS_CardinalityType
<1>3. \A x \in P \cup Q : f[x] \in Int
  OBVIOUS
<1>4. \A x \in P : f[x] \in Int /\ 1 <= f[x] /\ f[x] <= 1
  OBVIOUS
<1>5. \A x \in Q : f[x] \in Int /\ 0 <= f[x] /\ f[x] <= 0
  OBVIOUS
<1> HIDE DEF Q
<1>6. SumFunctionOnSet(f, P \cup Q) = SumFunctionOnSet(f, P) + SumFunctionOnSet(f, Q)
  BY <1>1, <1>3, SumParts
<1>7. SumFunctionOnSet(f, P) \in Int /\ SumFunctionOnSet(f, Q) \in Int
  BY <1>1, <1>3, SumType
<1>8. 1 * Cardinality(P) <= SumFunctionOnSet(f, P) /\ SumFunctionOnSet(f, P) <= 1 * Cardinality(P)
  BY <1>1, <1>4, SumBounds
<1>9. 0 * Cardinality(Q) <= SumFunctionOnSet(f, Q) /\ SumFunctionOnSet(f, Q) <= 0 * Cardinality(Q)
  BY <1>1, <1>5, SumBounds
<1>10. SumFunctionOnSet(f, S) = SumFunctionOnSet(f, P) + SumFunctionOnSet(f, Q)
  BY <1>1, <1>6
<1> QED
  BY <1>2, <1>7, <1>8, <1>9, <1>10

\* What is charged, counted by class and by edit.
ByClass(C, E, g) == [c \in C |-> Cardinality({e \in E : c \in g[e]})]
ByEdit(E, g) == [e \in E |-> Cardinality(g[e])]
\* Charges add up to the same by class and by edit.
LEMMA CountedTwice ==
  ASSUME NEW E, IsFiniteSet(E), NEW C, IsFiniteSet(C), NEW g, \A e \in E : g[e] \in SUBSET C
  PROVE  SumFunctionOnSet(ByClass(C, E, g), C) = SumFunctionOnSet(ByEdit(E, g), E)
<1> DEFINE Of(U) == [c \in C |-> Cardinality({e \in U : c \in g[e]})]
           each == [e \in E |-> Cardinality(g[e])]
           bad == {U \in SUBSET E : SumFunctionOnSet(Of(U), C) # SumFunctionOnSet(each, U)}
<1>1. ASSUME bad # {} PROVE FALSE
  <2>1. PICK U \in bad : \A x \in U : U \ {x} \notin bad
    <3>1. bad \in SUBSET (SUBSET E)
      OBVIOUS
    <3> HIDE DEF bad
    <3> QED
      BY <1>1, <3>1, SmallestSet
  <2>2. U \in SUBSET E /\ IsFiniteSet(U) /\ SumFunctionOnSet(Of(U), C) # SumFunctionOnSet(each, U)
    BY FS_Subset
  <2>3. CASE U = {}
    <3> DEFINE f == Of(U)
    <3>1. \A c \in C : f[c] \in Int /\ 0 <= f[c] /\ f[c] <= 0
      <4>1. Cardinality({}) = 0
        BY FS_EmptySet
      <4>2. \A c \in C : {e \in U : c \in g[e]} = {}
        BY <2>3
      <4> QED
        BY <4>1, <4>2
    <3>2. 0 * Cardinality(C) <= SumFunctionOnSet(f, C) /\ SumFunctionOnSet(f, C) <= 0 * Cardinality(C)
      <4> HIDE DEF f
      <4> QED
        BY <3>1, SumBounds
    <3>3. SumFunctionOnSet(each, U) = 0
      BY <2>2, <2>3, SumNext
    <3>4. SumFunctionOnSet(f, C) \in Int /\ Cardinality(C) \in Nat
      <4> HIDE DEF f
      <4> QED
        BY <3>1, SumType, FS_CardinalityType
    <3>5. SumFunctionOnSet(f, C) = 0
      <4> HIDE DEF f
      <4> QED
        BY <3>2, <3>4
    <3> QED
      BY <2>2, <3>3, <3>5
  <2>4. CASE U # {}
    <3>1. PICK x \in U : TRUE
      BY <2>4
    <3> DEFINE V == U \ {x}
               mark == [c \in C |-> IF c \in g[x] THEN 1 ELSE 0]
    <3>2. V \in SUBSET E /\ V \notin bad /\ IsFiniteSet(V)
      BY <2>1, <2>2, FS_Subset
    <3>3. SumFunctionOnSet(Of(V), C) = SumFunctionOnSet(each, V)
      BY <3>2
    <3>4. ASSUME NEW c \in C
          PROVE  Of(V)[c] \in Int /\ mark[c] \in Int /\ Of(U)[c] = Of(V)[c] + mark[c]
      <4> DEFINE T == {e \in V : c \in g[e]}
      <4>1. IsFiniteSet(T) /\ Cardinality(T) \in Nat /\ x \notin T
        BY <3>2, FS_Subset, FS_CardinalityType
      <4>2. {e \in U : c \in g[e]} = IF c \in g[x] THEN T \cup {x} ELSE T
        OBVIOUS
      <4>3. Cardinality(T \cup {x}) = Cardinality(T) + 1
        BY <4>1, FS_AddElement
      <4> QED
        BY <4>1, <4>2, <4>3
    <3>5. SumFunctionOnSet(mark, C) = Cardinality(g[x])
      <4>1. g[x] \in SUBSET C /\ \A c \in C : mark[c] = IF c \in g[x] THEN 1 ELSE 0
        BY <2>2
      <4> HIDE DEF mark
      <4> QED
        BY <4>1, SumCounts
    <3>6. SumFunctionOnSet(Of(U), C) = SumFunctionOnSet(Of(V), C) + SumFunctionOnSet(mark, C)
      <4> HIDE DEF Of, mark, V
      <4> QED
        BY <3>4, SumPlus
    <3>7. /\ \A e \in U : each[e] \in Int
          /\ each[x] = Cardinality(g[x]) /\ Cardinality(g[x]) \in Nat
      <4>1. \A e \in E : Cardinality(g[e]) \in Nat
        BY FS_Subset, FS_CardinalityType
      <4> QED
        BY <2>2, <4>1
    <3>8. SumFunctionOnSet(each, U) = each[x] + SumFunctionOnSet(each, V)
      <4> HIDE DEF each
      <4> QED
        BY <2>2, <3>7, SumTakes
    <3>9. SumFunctionOnSet(each, V) \in Int
      <4> HIDE DEF each
      <4> QED
        BY <3>2, <3>7, SumType
    <3> HIDE DEF each, mark, Of, V
    <3> QED
      BY <2>2, <3>3, <3>5, <3>6, <3>7, <3>8, <3>9
  <2> QED
    BY <2>3, <2>4
<1>2. E \notin bad
  BY <1>1
<1> HIDE DEF Of, each
<1>3. SumFunctionOnSet(Of(E), C) = SumFunctionOnSet(each, E)
  BY <1>2
<1> QED
  BY <1>3, Zenon DEF Of, each, ByClass, ByEdit

--------------------------------------------------------------------------------
(* The edits of two texts. *)

\* The edits of two texts: by the match before them and their place after it,
\* with what the token there, or the pair of tokens, is charged to.
LastPlace(a, b) == <<Len(a) + 1, Len(b) + 1>>
Ends(a, b) == MatchedPairs(a, b) \cup {<<0, 0>>, LastPlace(a, b)}
After(P, p) == CHOOSE q \in P : q[1] > p[1] /\ \A r \in P : r[1] > p[1] => q[1] <= r[1]
InGap(p, q, i) == i < q[1] - p[1] \/ i < q[2] - p[2]
Charge(a, b, p, q, i) ==
  IF i < q[1] - p[1] /\ i < q[2] - p[2] THEN AttributeReplacement(a[p[1] + i], b[p[2] + i])
  ELSE {Category(IF i < q[1] - p[1] THEN a[p[1] + i] ELSE b[p[2] + i])}

\* Where gaps may end: in order in both texts, at equal tokens, and with no two
\* equal tokens inside one gap.
LEMMA PlacesAre ==
  ASSUME NEW A, NEW B, NEW a \in Seq(A), NEW b \in Seq(B)
  PROVE  /\ \A p \in Ends(a, b) : p \in (0 .. Len(a) + 1) \X (0 .. Len(b) + 1)
         /\ \A p, q \in Ends(a, b) : p[1] < q[1] <=> p[2] < q[2]
         /\ \A p \in Ends(a, b) : p # <<0, 0>> /\ p # LastPlace(a, b)
              => p \in (1 .. Len(a)) \X (1 .. Len(b)) /\ a[p[1]] = b[p[2]]
         /\ \A i \in 1 .. Len(a), j \in 1 .. Len(b) :
              a[i] = b[j] => \E p \in Ends(a, b) : \/ p[1] <= i /\ p[2] >= j
                                                   \/ p[1] >= i /\ p[2] <= j
         /\ <<0, 0>> \in Ends(a, b) /\ LastPlace(a, b) \in Ends(a, b)
<1> DEFINE M == MatchedPairs(a, b)
           n == Len(a)
           k == Len(b)
<1>0. n \in Nat /\ k \in Nat
  OBVIOUS
<1>1. IsAlignment(a, b, <<0, 0>>, <<n, k>>, M)
  <2>1. <<<<0, 0>>, <<n, k>>>> \in Parts(a, b)
    BY <1>0 DEF Parts, Places
  <2>2. \A part \in Parts(a, b) : IsAlignment(a, b, part[1], part[2], Aligned(a, b)[part])
    BY AlignmentIs
  <2>3. <<<<0, 0>>, <<n, k>>>>[1] = <<0, 0>> /\ <<<<0, 0>>, <<n, k>>>>[2] = <<n, k>>
    OBVIOUS
  <2> QED
    BY <2>1, <2>2, <2>3, MatchingIsRecursive
<1> HIDE DEF M, n, k
<1>2. /\ \A p \in M : p \in (1 .. n) \X (1 .. k) /\ a[p[1]] = b[p[2]]
      /\ \A p, q \in M : p[1] < q[1] <=> p[2] < q[2]
      /\ \A i \in 1 .. n, j \in 1 .. k :
           a[i] = b[j] => \E p \in M : \/ p[1] <= i /\ p[2] >= j
                                       \/ p[1] >= i /\ p[2] <= j
  <2>1. 0 + 1 = 1 /\ <<0, 0>>[1] = 0 /\ <<0, 0>>[2] = 0 /\ <<n, k>>[1] = n /\ <<n, k>>[2] = k
    OBVIOUS
  <2> QED
    BY <1>1, <2>1 DEF IsAlignment
<1>3. Ends(a, b) = M \cup {<<0, 0>>, <<n + 1, k + 1>>} /\ LastPlace(a, b) = <<n + 1, k + 1>>
  BY DEF Ends, LastPlace, M, n, k
<1>4. /\ <<0, 0>>[1] = 0 /\ <<0, 0>>[2] = 0 /\ <<n + 1, k + 1>>[1] = n + 1 /\ <<n + 1, k + 1>>[2] = k + 1
      /\ \A p \in M : p[1] \in Int /\ p[2] \in Int /\ 1 <= p[1] /\ p[1] <= n /\ 1 <= p[2] /\ p[2] <= k
  BY <1>2
<1>5. \A p \in Ends(a, b) : p \in (0 .. n + 1) \X (0 .. k + 1)
  <2>1. <<0, 0>> \in (0 .. n + 1) \X (0 .. k + 1) /\ <<n + 1, k + 1>> \in (0 .. n + 1) \X (0 .. k + 1)
    BY <1>0
  <2>2. 1 .. n \subseteq 0 .. n + 1 /\ 1 .. k \subseteq 0 .. k + 1
    BY <1>0
  <2> QED
    BY <1>2, <1>3, <2>1, <2>2
<1>6. ASSUME NEW p \in Ends(a, b), NEW q \in Ends(a, b) PROVE p[1] < q[1] <=> p[2] < q[2]
  <2> DEFINE Z(r) == r[1] = 0 /\ r[2] = 0
             L(r) == r[1] = n + 1 /\ r[2] = k + 1
             I(r) == r[1] \in Int /\ r[2] \in Int /\ 1 <= r[1] /\ r[1] <= n /\ 1 <= r[2] /\ r[2] <= k
  <2>1. \A r \in Ends(a, b) : Z(r) \/ L(r) \/ (r \in M /\ I(r))
    BY <1>3, <1>4
  <2>2. CASE p \in M /\ q \in M
    BY <1>2, <2>2
  <2>3. (Z(p) \/ L(p) \/ (p \in M /\ I(p))) /\ (Z(q) \/ L(q) \/ (q \in M /\ I(q)))
    BY <2>1
  <2> QED
    BY <1>0, <2>2, <2>3
<1>7. \A p \in Ends(a, b) : p # <<0, 0>> /\ p # LastPlace(a, b) => p \in M
  BY <1>3
<1> QED
  BY <1>2, <1>3, <1>5, <1>6, <1>7 DEF n, k

\* Every place but the last is followed by the next one.
LEMMA AfterIs ==
  ASSUME NEW A, NEW B, NEW a \in Seq(A), NEW b \in Seq(B),
         NEW p \in Ends(a, b), p # LastPlace(a, b)
  PROVE  /\ After(Ends(a, b), p) \in Ends(a, b)
         /\ After(Ends(a, b), p)[1] > p[1] /\ After(Ends(a, b), p)[2] > p[2]
         /\ \A r \in Ends(a, b) : /\ r[1] > p[1] => After(Ends(a, b), p)[1] <= r[1] /\ After(Ends(a, b), p)[2] <= r[2]
                                  /\ r[1] <= p[1] => r[2] <= p[2]
<1> DEFINE P == Ends(a, b)
           later == {r[1] : r \in {s \in P : s[1] > p[1]}}
           n == Len(a)
           k == Len(b)
<1>0. /\ n \in Nat /\ k \in Nat
      /\ \A r \in P : r[1] \in Nat /\ r[2] \in Nat /\ r[1] <= n + 1 /\ r[2] <= k + 1 /\ r = <<r[1], r[2]>>
      /\ \A r, s \in P : r[1] < s[1] <=> r[2] < s[2]
      /\ LastPlace(a, b) \in P /\ LastPlace(a, b)[1] = n + 1 /\ LastPlace(a, b)[2] = k + 1
  <2>1. /\ \A r \in P : r \in (0 .. n + 1) \X (0 .. k + 1)
        /\ \A r, s \in P : r[1] < s[1] <=> r[2] < s[2]
        /\ LastPlace(a, b) \in P
    BY PlacesAre, Zenon
  <2>2. LastPlace(a, b)[1] = n + 1 /\ LastPlace(a, b)[2] = k + 1
    BY DEF LastPlace
  <2> HIDE DEF P
  <2> QED
    BY <2>1, <2>2
<1> HIDE DEF P, n, k
<1>1. LastPlace(a, b)[1] > p[1]
  <2>1. p \in P
    BY DEF P
  <2>2. p[1] <= n + 1 /\ p[2] <= k + 1 /\ p[1] \in Nat /\ p[2] \in Nat /\ p = <<p[1], p[2]>>
    BY <1>0, <2>1
  <2>3. CASE p[1] = n + 1
    <3>1. ~ (p[2] < k + 1)
      BY <1>0, <2>1, <2>3
    <3>2. p[2] = k + 1
      BY <1>0, <2>2, <3>1
    <3> QED
      BY <2>2, <2>3, <3>2 DEF LastPlace, n, k
  <2> QED
    BY <1>0, <2>2, <2>3
<1>2. PICK l \in later : \A x \in later : l <= x
  <2>1. later \subseteq Nat /\ later # {}
    BY <1>0, <1>1
  <2> HIDE DEF later
  <2> QED
    BY <2>1, LeastNatural
<1>3. \E q \in P : q[1] > p[1] /\ \A r \in P : r[1] > p[1] => q[1] <= r[1]
  BY <1>2
<1>4. /\ After(P, p) \in P /\ After(P, p)[1] > p[1]
      /\ \A r \in P : r[1] > p[1] => After(P, p)[1] <= r[1]
  BY <1>3 DEF After
<1> DEFINE q == After(P, p)
<1> HIDE DEF q
<1>5. q \in P /\ p \in P /\ q[1] > p[1] /\ \A r \in P : r[1] > p[1] => q[1] <= r[1]
  BY <1>4 DEF q, P
<1>6. q[2] > p[2]
  BY <1>0, <1>5
<1>7. ASSUME NEW r \in P
      PROVE  /\ r[1] > p[1] => q[1] <= r[1] /\ q[2] <= r[2]
             /\ r[1] <= p[1] => r[2] <= p[2]
  BY <1>0, <1>5
<1> QED
  BY <1>5, <1>6, <1>7 DEF q, P

\* What an edit in a gap is charged to.
GapIsCharged(a, b, p, q) ==
  /\ DOMAIN GapEdits(a, b, p, q) = {i \in 1 .. Len(a) + Len(b) : InGap(p, q, i)}
  /\ \A i \in DOMAIN GapEdits(a, b, p, q) : GapEdits(a, b, p, q)[i] = Charge(a, b, p, q, i)
\* The edits of a gap are those of its places.
LEMMA GapIs ==
  ASSUME NEW A, NEW B, NEW a \in Seq(A), NEW b \in Seq(B),
         NEW p \in (0 .. Len(a) + 1) \X (0 .. Len(b) + 1), NEW q \in (0 .. Len(a) + 1) \X (0 .. Len(b) + 1),
         q[1] > p[1] /\ q[2] > p[2]
  PROVE  GapIsCharged(a, b, p, q)
<1> DEFINE p1 == p[1]
           p2 == p[2]
           q1 == q[1]
           q2 == q[2]
           before == SubSeq(a, p1 + 1, q1 - 1)
           after == SubSeq(b, p2 + 1, q2 - 1)
           x == q1 - p1 - 1
           y == q2 - p2 - 1
<1>1. /\ p1 \in Nat /\ p2 \in Nat /\ q1 \in Nat /\ q2 \in Nat
      /\ q1 <= Len(a) + 1 /\ q2 <= Len(b) + 1 /\ Len(a) \in Nat /\ Len(b) \in Nat
      /\ x \in Nat /\ y \in Nat
  OBVIOUS
<1> HIDE DEF p1, p2, q1, q2
<1>2. Len(before) = x /\ \A i \in 1 .. x : before[i] = a[p1 + i]
  <2>1. p1 + 1 \in Int /\ q1 - 1 \in Int /\ \A i \in p1 + 1 .. q1 - 1 : a[i] \in A
    BY <1>1
  <2>2. /\ before \in Seq(A)
        /\ Len(before) = IF p1 + 1 <= q1 - 1 THEN (q1 - 1) - (p1 + 1) + 1 ELSE 0
        /\ \A i \in 1 .. (q1 - 1) - (p1 + 1) + 1 : before[i] = a[(p1 + 1) + i - 1]
    BY <2>1, SubSeqProperties
  <2>3. (q1 - 1) - (p1 + 1) + 1 = x /\ \A i \in Int : (p1 + 1) + i - 1 = p1 + i
    BY <1>1
  <2>4. p1 + 1 <= q1 - 1 <=> x > 0
    BY <1>1
  <2> HIDE DEF before, x
  <2> QED
    BY <1>1, <2>2, <2>3, <2>4
<1>3. Len(after) = y /\ \A i \in 1 .. y : after[i] = b[p2 + i]
  <2>1. p2 + 1 \in Int /\ q2 - 1 \in Int /\ \A i \in p2 + 1 .. q2 - 1 : b[i] \in B
    BY <1>1
  <2>2. /\ after \in Seq(B)
        /\ Len(after) = IF p2 + 1 <= q2 - 1 THEN (q2 - 1) - (p2 + 1) + 1 ELSE 0
        /\ \A i \in 1 .. (q2 - 1) - (p2 + 1) + 1 : after[i] = b[(p2 + 1) + i - 1]
    BY <2>1, SubSeqProperties
  <2>3. (q2 - 1) - (p2 + 1) + 1 = y /\ \A i \in Int : (p2 + 1) + i - 1 = p2 + i
    BY <1>1
  <2>4. p2 + 1 <= q2 - 1 <=> y > 0
    BY <1>1
  <2> HIDE DEF after, y
  <2> QED
    BY <1>1, <2>2, <2>3, <2>4
<1> DEFINE top == Max({Len(before), Len(after)})
           both == Min({Len(before), Len(after)})
           Of(i) == IF i <= both THEN AttributeReplacement(before[i], after[i])
                    ELSE {Category(IF i <= Len(before) THEN before[i] ELSE after[i])}
<1>4. GapEdits(a, b, p, q) = [i \in 1 .. top |-> Of(i)]
  BY DEF GapEdits, p1, p2, q1, q2
<1> HIDE DEF before, after
<1>5. top = (IF x >= y THEN x ELSE y) /\ both = (IF x <= y THEN x ELSE y)
  <2> HIDE DEF x, y
  <2> QED
    BY <1>1, <1>2, <1>3, LeastOfTwo, GreatestOfTwo
<1>6. ASSUME NEW i \in Int PROVE (i < q1 - p1 <=> i <= x) /\ (i < q2 - p2 <=> i <= y)
  BY <1>1
<1> HIDE DEF top, both
<1>7. 1 .. top = {i \in 1 .. Len(a) + Len(b) : InGap(p, q, i)}
  <2>1. x <= Len(a) /\ y <= Len(b)
    BY <1>1 DEF x, y
  <2>2. ASSUME NEW i \in Int PROVE InGap(p, q, i) <=> i <= x \/ i <= y
    BY <1>6 DEF InGap, p1, p2, q1, q2
  <2> HIDE DEF x, y
  <2> QED
    BY <1>1, <1>5, <2>1, <2>2
<1> HIDE DEF x, y
<1>8. ASSUME NEW i \in 1 .. top PROVE Of(i) = Charge(a, b, p, q, i)
  <2>1. i <= both <=> i <= x /\ i <= y
    BY <1>1, <1>5
  <2>2. i <= x => before[i] = a[p1 + i]
    BY <1>2
  <2>3. i <= y => after[i] = b[p2 + i]
    BY <1>3
  <2>4. i <= x \/ i <= y
    BY <1>1, <1>5
  <2>5. (i < q1 - p1 <=> i <= x) /\ (i < q2 - p2 <=> i <= y)
    BY <1>6
  <2>7. Charge(a, b, p, q, i) =
          IF i <= x /\ i <= y THEN AttributeReplacement(a[p1 + i], b[p2 + i])
          ELSE {Category(IF i <= x THEN a[p1 + i] ELSE b[p2 + i])}
    BY <2>5, Zenon DEF Charge, p1, p2, q1, q2
  <2>8. Len(before) = x
    BY <1>2
  <2> QED
    BY <2>1, <2>2, <2>3, <2>4, <2>7, <2>8, Zenon
<1> HIDE DEF Of
<1> QED
  BY <1>4, <1>7, <1>8 DEF GapIsCharged

\* The places of all edits: a gap and a place in it.
EditPlaces(a, b) ==
  {e \in (Ends(a, b) \ {LastPlace(a, b)}) \X (1 .. Len(a) + Len(b)) :
     InGap(e[1], After(Ends(a, b), e[1]), e[2])}

\* The edits of two texts, and what each is charged to.
LEMMA EditsAre ==
  ASSUME NEW A, NEW B, NEW a \in Seq(A), NEW b \in Seq(B)
  PROVE  /\ DOMAIN Edits(a, b) = EditPlaces(a, b) /\ IsFiniteSet(EditPlaces(a, b))
         /\ \A e \in EditPlaces(a, b) : Edits(a, b)[e] = Charge(a, b, e[1], After(Ends(a, b), e[1]), e[2])
<1> DEFINE P == Ends(a, b)
           last == LastPlace(a, b)
           gaps == [p \in P \ {last} |-> GapEdits(a, b, p, After(P, p))]
           E == {e \in (P \ {last}) \X (1 .. Len(a) + Len(b)) : InGap(e[1], After(P, e[1]), e[2])}
           all == UNION {{p} \X (DOMAIN gaps[p]) : p \in DOMAIN gaps}
<1>1. Edits(a, b) = [e \in all |-> gaps[e[1]][e[2]]]
  BY Zenon DEF Edits, Ends, LastPlace, After
<1>2. ASSUME NEW p \in P \ {last}
      PROVE  /\ p \in DOMAIN gaps /\ gaps[p] = GapEdits(a, b, p, After(P, p))
             /\ DOMAIN gaps[p] = {i \in 1 .. Len(a) + Len(b) : InGap(p, After(P, p), i)}
             /\ \A i \in DOMAIN gaps[p] : gaps[p][i] = Charge(a, b, p, After(P, p), i)
  <2>1. gaps[p] = GapEdits(a, b, p, After(P, p)) /\ p \in DOMAIN gaps
    OBVIOUS
  <2>2. \A r \in P : r \in (0 .. Len(a) + 1) \X (0 .. Len(b) + 1)
    BY PlacesAre, Zenon
  <2>3. After(P, p) \in P /\ After(P, p)[1] > p[1] /\ After(P, p)[2] > p[2]
    BY AfterIs
  <2> HIDE DEF gaps, P
  <2>5. PICK q \in P : q = After(P, p) /\ q[1] > p[1] /\ q[2] > p[2]
    BY <2>3
  <2>6. GapIsCharged(a, b, p, q)
    <3>1. p \in (0 .. Len(a) + 1) \X (0 .. Len(b) + 1) /\ q \in (0 .. Len(a) + 1) \X (0 .. Len(b) + 1)
      BY <2>2
    <3> QED
      BY <2>5, <3>1, GapIs
  <2>4. /\ DOMAIN GapEdits(a, b, p, After(P, p)) = {i \in 1 .. Len(a) + Len(b) : InGap(p, After(P, p), i)}
        /\ \A i \in DOMAIN GapEdits(a, b, p, After(P, p)) :
             GapEdits(a, b, p, After(P, p))[i] = Charge(a, b, p, After(P, p), i)
    BY <2>5, <2>6 DEF GapIsCharged
  <2> QED
    BY <2>1, <2>4
<1>3. all = E
  <2>1. DOMAIN gaps = P \ {last}
    OBVIOUS
  <2> HIDE DEF gaps, P, last
  <2>2. ASSUME NEW e \in all PROVE e \in E
    <3>1. PICK p \in P \ {last} : e \in {p} \X (DOMAIN gaps[p])
      BY <2>1
    <3>2. e[1] = p /\ e[2] \in DOMAIN gaps[p] /\ e = <<e[1], e[2]>>
      BY <3>1
    <3>3. e[2] \in 1 .. Len(a) + Len(b) /\ InGap(p, After(P, p), e[2])
      BY <1>2, <3>2
    <3> QED
      BY <3>2, <3>3
  <2>3. ASSUME NEW e \in E PROVE e \in all
    <3>1. e[1] \in P \ {last} /\ e[2] \in 1 .. Len(a) + Len(b) /\ InGap(e[1], After(P, e[1]), e[2]) /\ e = <<e[1], e[2]>>
      OBVIOUS
    <3>2. e[2] \in DOMAIN gaps[e[1]]
      BY <1>2, <3>1
    <3>3. e \in {e[1]} \X (DOMAIN gaps[e[1]])
      BY <3>1, <3>2
    <3> QED
      BY <2>1, <3>1, <3>3
  <2> HIDE DEF all, E
  <2> QED
    BY <2>2, <2>3
<1>4. ASSUME NEW e \in E PROVE Edits(a, b)[e] = Charge(a, b, e[1], After(P, e[1]), e[2])
  <2> HIDE DEF gaps, P, last
  <2>1. e[1] \in P \ {last} /\ e[2] \in 1 .. Len(a) + Len(b) /\ InGap(e[1], After(P, e[1]), e[2])
    OBVIOUS
  <2>2. e[2] \in DOMAIN gaps[e[1]] /\ gaps[e[1]][e[2]] = Charge(a, b, e[1], After(P, e[1]), e[2])
    BY <1>2, <2>1
  <2> HIDE DEF all, E
  <2> QED
    BY <1>1, <1>3, <2>2
<1>5. IsFiniteSet(E)
  <2> DEFINE grid == (0 .. Len(a) + 1) \X (0 .. Len(b) + 1)
  <2>1. IsFiniteSet(0 .. Len(a) + 1) /\ IsFiniteSet(0 .. Len(b) + 1) /\ IsFiniteSet(1 .. Len(a) + Len(b))
    BY FS_Interval
  <2>2. IsFiniteSet(grid)
    BY <2>1, FS_Product
  <2>3. IsFiniteSet(grid \X (1 .. Len(a) + Len(b)))
    BY <2>1, <2>2, FS_Product
  <2>4. P \subseteq grid
    BY PlacesAre, Zenon
  <2>5. E \subseteq grid \X (1 .. Len(a) + Len(b))
    <3> HIDE DEF P, last, grid
    <3> QED
      BY <2>4
  <2> QED
    BY <2>3, <2>5, FS_Subset
<1> HIDE DEF all, gaps
<1>6. DOMAIN Edits(a, b) = all
  BY <1>1, Zenon
<1>7. E = EditPlaces(a, b)
  BY DEF EditPlaces
<1> HIDE DEF E
<1> QED
  BY <1>3, <1>4, <1>5, <1>6, <1>7 DEF P

\* Where two texts are the same after a head, only the head is edited, place by
\* place.
LEMMA EditsInHead ==
  ASSUME NEW A, NEW B, NEW a \in Seq(A), NEW b \in Seq(B), NEW h, SameAfter(a, b, h),
         NEW e \in DOMAIN Edits(a, b)
  PROVE  LET p == e[1]
             q == After(Ends(a, b), p)
         IN  /\ p[1] = p[2] /\ q[1] = q[2] /\ p[1] \in Nat /\ e[2] \in Nat \ {0}
             /\ e[2] < q[1] - p[1] /\ p[1] + e[2] <= h
<1> DEFINE P == Ends(a, b)
           n == Len(a)
           p == e[1]
           q == After(P, p)
           i == e[2]
<1>0. n \in Nat /\ Len(b) = n /\ h \in 0 .. n
  BY DEF SameAfter
<1>1. Straight(MatchedPairs(a, b), 0, n, h)
  BY TailIsAligned
<1>2. p \in P /\ p # LastPlace(a, b) /\ i \in 1 .. Len(a) + Len(b) /\ InGap(p, q, i)
  <2>1. e \in {x \in (P \ {LastPlace(a, b)}) \X (1 .. Len(a) + Len(b)) : InGap(x[1], After(P, x[1]), x[2])}
    <3>1. DOMAIN Edits(a, b) = EditPlaces(a, b)
      BY EditsAre
    <3> QED
      BY <3>1 DEF EditPlaces
  <2> HIDE DEF P
  <2> QED
    BY <2>1
<1>3. /\ q \in P /\ q[1] > p[1] /\ q[2] > p[2]
      /\ \A r \in P : r[1] > p[1] => q[1] <= r[1]
  <2>1. /\ After(P, p) \in P
        /\ After(P, p)[1] > p[1] /\ After(P, p)[2] > p[2]
        /\ \A r \in P : /\ r[1] > p[1] => After(P, p)[1] <= r[1] /\ After(P, p)[2] <= r[2]
                        /\ r[1] <= p[1] => r[2] <= p[2]
    BY <1>2, AfterIs
  <2> QED
    BY <2>1
<1>4. \A r \in P : r \in (0 .. n + 1) \X (0 .. n + 1)
  BY <1>0, PlacesAre, Zenon
<1>5. \A r \in P : r[1] = r[2]
  <2>1. <<0, 0>>[1] = <<0, 0>>[2] /\ LastPlace(a, b)[1] = LastPlace(a, b)[2]
    BY <1>0 DEF LastPlace
  <2> QED
    BY <1>1, <2>1 DEF Straight, Ends
<1>6. \A j \in 1 .. n : j > h => <<j, j>> \in P
  BY <1>0, <1>1 DEF Straight, Ends
<1> HIDE DEF P, n, p, q, i
<1>7. /\ p[1] = p[2] /\ q[1] = q[2] /\ p[1] \in Nat /\ q[1] \in Nat /\ q[1] <= n + 1 /\ i \in Nat \ {0}
      /\ i < q[1] - p[1]
  BY <1>0, <1>2, <1>3, <1>4, <1>5 DEF InGap
<1>8. ASSUME p[1] + i > h PROVE FALSE
  <2>1. p[1] + i \in 1 .. n
    BY <1>0, <1>7
  <2>2. <<p[1] + i, p[1] + i>> \in P
    BY <1>6, <1>8, <2>1
  <2>3. q[1] <= <<p[1] + i, p[1] + i>>[1]
    BY <1>3, <1>7, <2>2
  <2> QED
    BY <1>7, <2>3
<1>9. p[1] + i <= h
  BY <1>0, <1>7, <1>8
<1> QED
  BY <1>7, <1>9 DEF p, q, i, P

\* No edit is left exactly when the texts are the same.
LEMMA EditsTellTexts ==
  ASSUME NEW A, NEW B, NEW a \in Seq(A), NEW b \in Seq(B)
  PROVE  DOMAIN Edits(a, b) = {} <=> a = b
<1> DEFINE P == Ends(a, b)
           n == Len(a)
           k == Len(b)
<1>0. n \in Nat /\ k \in Nat
  OBVIOUS
<1>1. ASSUME a = b PROVE DOMAIN Edits(a, b) = {}
  <2>1. SameAfter(a, b, 0)
    BY <1>1 DEF SameAfter
  <2>2. ASSUME NEW e \in DOMAIN Edits(a, b) PROVE FALSE
    <3>1. e[1][1] \in Nat /\ e[2] \in Nat \ {0} /\ e[1][1] + e[2] <= 0
      BY <2>1, EditsInHead, Zenon
    <3> QED
      BY <3>1
  <2> QED
    BY <2>2
<1>2. ASSUME DOMAIN Edits(a, b) = {} PROVE a = b
  <2>0. /\ \A r \in P : r \in (0 .. n + 1) \X (0 .. k + 1)
        /\ \A r, s \in P : r[1] < s[1] <=> r[2] < s[2]
        /\ <<0, 0>> \in P /\ LastPlace(a, b) \in P
    BY PlacesAre, Zenon
  <2>9. \A r \in P : r # <<0, 0>> /\ r # LastPlace(a, b)
             => r \in (1 .. n) \X (1 .. k) /\ a[r[1]] = b[r[2]]
    BY PlacesAre
  <2>1. /\ \A r \in P : r \in (0 .. n + 1) \X (0 .. k + 1)
        /\ \A r, s \in P : r[1] < s[1] <=> r[2] < s[2]
        /\ \A r \in P : r # <<0, 0>> /\ r # LastPlace(a, b) => a[r[1]] = b[r[2]]
        /\ <<0, 0>> \in P /\ LastPlace(a, b) \in P
    BY <2>0, <2>9, Zenon
  <2>2. LastPlace(a, b) = <<n + 1, k + 1>>
    BY DEF LastPlace
  <2>3. ASSUME NEW p \in P, p # LastPlace(a, b) PROVE <<p[1] + 1, p[2] + 1>> \in P
    <3> DEFINE q == After(P, p)
    <3>1. q \in P /\ q[1] > p[1] /\ q[2] > p[2]
      BY <2>3, AfterIs
    <3>2. DOMAIN Edits(a, b) = {x \in (P \ {LastPlace(a, b)}) \X (1 .. n + k) : InGap(x[1], After(P, x[1]), x[2])}
      <4>1. DOMAIN Edits(a, b) = EditPlaces(a, b)
        BY EditsAre
      <4> QED
        BY <4>1, Zenon DEF EditPlaces
    <3>3. 1 \in 1 .. n + k => ~InGap(p, q, 1)
      <4>1. ASSUME 1 \in 1 .. n + k, InGap(p, q, 1) PROVE FALSE
        <5>1. <<p, 1>> \in (P \ {LastPlace(a, b)}) \X (1 .. n + k) /\ <<p, 1>>[1] = p /\ <<p, 1>>[2] = 1
          BY <2>3, <4>1
        <5> HIDE DEF P, n, k
        <5>2. <<p, 1>> \in DOMAIN Edits(a, b)
          BY <3>2, <4>1, <5>1
        <5> QED
          BY <1>2, <5>2
      <4> QED
        BY <4>1
    <3> HIDE DEF q, P, n, k
    <3>4. /\ p[1] \in Nat /\ p[2] \in Nat /\ q[1] \in Nat /\ q[2] \in Nat /\ q = <<q[1], q[2]>>
          /\ q[1] <= n + 1 /\ q[2] <= k + 1
      BY <1>0, <2>1, <3>1
    <3>5. q[1] = p[1] + 1 /\ q[2] = p[2] + 1
      <4>1. CASE 1 \in 1 .. n + k
        BY <3>1, <3>3, <3>4, <4>1 DEF InGap
      <4>2. CASE 1 \notin 1 .. n + k
        <5>1. n = 0 /\ k = 0
          BY <1>0, <4>2
        <5> QED
          BY <3>1, <3>4, <5>1
      <4> QED
        BY <4>1, <4>2
    <3> QED
      BY <3>1, <3>4, <3>5
  <2> HIDE DEF P, n, k
  <2> DEFINE bad == {i \in 0 .. n + 1 : <<i, i>> \notin P}
  <2>4. ASSUME bad # {} PROVE FALSE
    <3>1. PICK i \in bad : \A j \in bad : i <= j
      <4>1. bad \subseteq Nat
        BY <1>0
      <4> HIDE DEF bad
      <4> QED
        BY <2>4, <4>1, LeastNatural
    <3>2. i \in Nat /\ i <= n + 1 /\ <<i, i>> \notin P /\ i # 0
      BY <1>0, <2>1
    <3>3. i - 1 \in 0 .. n + 1 /\ i - 1 # n + 1 /\ ~ (i <= i - 1)
      BY <1>0, <3>2
    <3>4. <<i - 1, i - 1>> \in P
      BY <3>1, <3>3
    <3>5. <<i - 1, i - 1>> # LastPlace(a, b)
      BY <2>2, <3>3
    <3>6. <<(i - 1) + 1, (i - 1) + 1>> \in P
      <4>1. <<i - 1, i - 1>>[1] = i - 1 /\ <<i - 1, i - 1>>[2] = i - 1
        OBVIOUS
      <4> QED
        BY <2>3, <3>4, <3>5, <4>1
    <3>7. (i - 1) + 1 = i
      BY <3>2
    <3> QED
      BY <3>2, <3>6, <3>7
  <2>5. \A i \in 0 .. n + 1 : <<i, i>> \in P
    BY <2>4
  <2>6. k = n
    <3>1. <<n + 1, n + 1>> \in P /\ <<n + 1, k + 1>> \in P
      BY <1>0, <2>1, <2>2, <2>5
    <3>2. <<n + 1, n + 1>>[1] < <<n + 1, k + 1>>[1] <=> <<n + 1, n + 1>>[2] < <<n + 1, k + 1>>[2]
      BY <2>1, <3>1
    <3>3. <<n + 1, k + 1>>[1] < <<n + 1, n + 1>>[1] <=> <<n + 1, k + 1>>[2] < <<n + 1, n + 1>>[2]
      BY <2>1, <3>1
    <3> QED
      BY <1>0, <3>2, <3>3
  <2>7. ASSUME NEW i \in 1 .. n PROVE a[i] = b[i]
    <3>1. <<i, i>> \in P
      BY <1>0, <2>5
    <3>2. <<i, i>> # <<0, 0>> /\ <<i, i>> # <<n + 1, k + 1>>
      BY <1>0
    <3>3. a[<<i, i>>[1]] = b[<<i, i>>[2]]
      BY <2>1, <2>2, <3>1, <3>2
    <3> QED
      BY <3>3
  <2> QED
    BY <2>6, <2>7, SeqEqual DEF n, k
<1> QED
  BY <1>1, <1>2

--------------------------------------------------------------------------------
(* The classes an edit is charged to. *)

\* What a token may be.
TokenKinds == {"header", "line", "eol", "sym", "note"}

\* The class of a token.
LEMMA CategoryIs ==
  ASSUME NEW t, t.k \in TokenKinds
  PROVE  /\ Category(t) \in Categories
         /\ IsNote(t) => /\ Category(t) \in {"accidental", "octave", "letter"}
                         /\ Category(t) = "accidental" <=> MarksOf(t, Accidentals) # NoMarks(Accidentals)
         /\ t.k = "header" => Category(t) = "header"
<1>1. \A s : SymbolCategory(s) \in Categories
  BY DEF SymbolCategory, Categories
<1>2. CASE t.k = "note"
  BY <1>2 DEF Category, Categories, IsNote
<1>3. CASE t.k = "header"
  BY <1>3 DEF Category, Categories, IsNote
<1>4. CASE t.k \in {"line", "eol"}
  BY <1>4 DEF Category, Categories, IsNote
<1>5. CASE t.k = "sym"
  BY <1>1, <1>5 DEF Category, Categories, IsNote
<1> QED
  BY <1>2, <1>3, <1>4, <1>5 DEF TokenKinds

\* What a replaced token is charged to: to at least one class, unless a note only
\* has its marks in another order.
LEMMA ReplacementIs ==
  ASSUME NEW x, NEW y, x.k \in TokenKinds, y.k \in TokenKinds
  PROVE  /\ AttributeReplacement(x, y) \in SUBSET Categories
         /\ Cardinality(AttributeReplacement(x, y)) <= 3
         /\ x # y => AttributeReplacement(x, y) # {} \/ OnlyReordered(x, y)
<1>1. CASE IsNote(x) /\ IsNote(y)
  <2> DEFINE aspects == {"letter", "accidental", "octave"}
             Differs(c) == CASE c = "letter"     -> x.letter # y.letter
                             [] c = "accidental" -> MarksOf(x, Accidentals) # MarksOf(y, Accidentals)
                             [] c = "octave"     -> MarksOf(x, OctaveDots) # MarksOf(y, OctaveDots)
  <2>1. AttributeReplacement(x, y) = {c \in aspects : Differs(c)}
    BY <1>1 DEF AttributeReplacement
  <2>2. IsFiniteSet(aspects) /\ Cardinality(aspects) <= 3
    <3>1. IsFiniteSet({"letter"}) /\ Cardinality({"letter"}) = 1
      BY FS_Singleton
    <3>2. /\ IsFiniteSet({"letter"} \cup {"accidental"})
          /\ Cardinality({"letter"} \cup {"accidental"}) = 2
      BY <3>1, FS_AddElement
    <3>3. /\ IsFiniteSet({"letter"} \cup {"accidental"} \cup {"octave"})
          /\ Cardinality({"letter"} \cup {"accidental"} \cup {"octave"}) = 3
      <4> DEFINE two == {"letter"} \cup {"accidental"}
      <4>1. "octave" \notin two /\ IsFiniteSet(two) /\ Cardinality(two) = 2
        BY <3>2
      <4> HIDE DEF two
      <4>2. IsFiniteSet(two \cup {"octave"}) /\ Cardinality(two \cup {"octave"}) = 3
        BY <4>1, FS_AddElement
      <4> QED
        BY <4>2 DEF two
    <3>4. aspects = {"letter"} \cup {"accidental"} \cup {"octave"}
      OBVIOUS
    <3> QED
      BY <3>3, <3>4
  <2>3. aspects \subseteq Categories
    BY DEF Categories
  <2>4. Cardinality({c \in aspects : Differs(c)}) <= 3
    <3>1. /\ IsFiniteSet({c \in aspects : Differs(c)})
          /\ Cardinality({c \in aspects : Differs(c)}) <= Cardinality(aspects)
      BY <2>2, FS_Subset
    <3> HIDE DEF aspects, Differs
    <3>2. Cardinality({c \in aspects : Differs(c)}) \in Nat /\ Cardinality(aspects) \in Nat
      BY <2>2, <3>1, FS_CardinalityType
    <3> QED
      BY <2>2, <3>1, <3>2
  <2>5. x # y /\ {c \in aspects : Differs(c)} = {} => OnlyReordered(x, y)
    <3>1. ASSUME {c \in aspects : Differs(c)} = {} PROVE ~Differs("letter") /\ ~Differs("accidental") /\ ~Differs("octave")
      BY <3>1
    <3> QED
      BY <1>1, <3>1 DEF OnlyReordered
  <2> QED
    BY <2>1, <2>3, <2>4, <2>5
<1>2. CASE ~(IsNote(x) /\ IsNote(y))
  <2>1. AttributeReplacement(x, y) = {Category(x), Category(y)}
    BY <1>2 DEF AttributeReplacement
  <2>2. Category(x) \in Categories /\ Category(y) \in Categories
    BY CategoryIs
  <2>3. Cardinality({Category(x), Category(y)}) <= 3
    <3>1. IsFiniteSet({Category(x)}) /\ Cardinality({Category(x)}) = 1
      BY FS_Singleton
    <3>2. Cardinality({Category(x)} \cup {Category(y)}) \in {1, 2}
      <4>1. CASE Category(y) \in {Category(x)}
        <5>1. {Category(x)} \cup {Category(y)} = {Category(x)}
          BY <4>1
        <5> QED
          BY <3>1, <5>1
      <4>2. CASE Category(y) \notin {Category(x)}
        BY <3>1, <4>2, FS_AddElement
      <4> QED
        BY <4>1, <4>2
    <3>3. {Category(x)} \cup {Category(y)} = {Category(x), Category(y)}
      OBVIOUS
    <3> QED
      BY <3>2, <3>3
  <2> QED
    BY <2>1, <2>2, <2>3
<1> QED
  BY <1>1, <1>2

\* Within a gap no token of the one text is one of the other.
LEMMA GapDiffers ==
  ASSUME NEW A, NEW B, NEW a \in Seq(A), NEW b \in Seq(B),
         NEW p \in Ends(a, b), p # LastPlace(a, b),
         NEW i \in Nat \ {0}, i < After(Ends(a, b), p)[1] - p[1], i < After(Ends(a, b), p)[2] - p[2]
  PROVE  /\ p[1] + i \in 1 .. Len(a) /\ p[2] + i \in 1 .. Len(b)
         /\ a[p[1] + i] # b[p[2] + i]
<1> DEFINE P == Ends(a, b)
           q == After(P, p)
<1>1. /\ q \in P /\ q[1] > p[1] /\ q[2] > p[2]
      /\ \A r \in P : /\ r[1] > p[1] => q[1] <= r[1] /\ q[2] <= r[2]
                      /\ r[1] <= p[1] => r[2] <= p[2]
  BY AfterIs
<1>2. \A r \in P : r \in (0 .. Len(a) + 1) \X (0 .. Len(b) + 1)
  BY PlacesAre, Zenon
<1>3. \A x \in 1 .. Len(a), y \in 1 .. Len(b) :
        a[x] = b[y] => \E r \in P : \/ r[1] <= x /\ r[2] >= y
                                    \/ r[1] >= x /\ r[2] <= y
  BY PlacesAre, Zenon
<1>4. i < q[1] - p[1] /\ i < q[2] - p[2]
  OBVIOUS
<1> HIDE DEF P, q
<1>5. p \in P
  BY DEF P
<1> DEFINE p1 == p[1]
           p2 == p[2]
           q1 == q[1]
           q2 == q[2]
<1>6. /\ p1 \in Nat /\ p2 \in Nat /\ q1 \in Nat /\ q2 \in Nat /\ q1 <= Len(a) + 1 /\ q2 <= Len(b) + 1
      /\ Len(a) \in Nat /\ Len(b) \in Nat
  BY <1>1, <1>2, <1>5
<1>7. p1 + i \in 1 .. Len(a) /\ p2 + i \in 1 .. Len(b)
  <2> HIDE DEF p1, p2, q1, q2
  <2>1. i < q1 - p1 /\ i < q2 - p2
    BY <1>4 DEF p1, p2, q1, q2
  <2> QED
    BY <1>6, <2>1
<1>8. ASSUME a[p1 + i] = b[p2 + i] PROVE FALSE
  <2>1. PICK r \in P : \/ r[1] <= p1 + i /\ r[2] >= p2 + i
                       \/ r[1] >= p1 + i /\ r[2] <= p2 + i
    <3> HIDE DEF p1, p2, q1, q2
    <3> QED
      BY <1>3, <1>7, <1>8
  <2> DEFINE r1 == r[1]
             r2 == r[2]
  <2>2. /\ r1 \in Nat /\ r2 \in Nat
        /\ r1 > p1 => q1 <= r1 /\ q2 <= r2
        /\ r1 <= p1 => r2 <= p2
    BY <1>1, <1>2
  <2>3. \/ r1 <= p1 + i /\ r2 >= p2 + i
        \/ r1 >= p1 + i /\ r2 <= p2 + i
    BY <2>1
  <2>4. i < q1 - p1 /\ i < q2 - p2
    BY <1>4
  <2> HIDE DEF p1, p2, q1, q2, r1, r2
  <2> QED
    BY <1>6, <2>2, <2>3, <2>4
<1> QED
  BY <1>7, <1>8

\* An edit is charged to one class at least and three at most, unless it only
\* reorders the marks of a note.
LEMMA EditIsCharged ==
  ASSUME NEW A, \A x \in A : x.k \in TokenKinds, NEW a \in Seq(A), NEW b \in Seq(A),
         NEW e \in EditPlaces(a, b)
  PROVE  /\ Edits(a, b)[e] \in SUBSET Categories
         /\ Cardinality(Edits(a, b)[e]) <= 3
         /\ Edits(a, b)[e] # {} \/ \E i \in 1 .. Len(a), j \in 1 .. Len(b) : OnlyReordered(a[i], b[j])
<1> DEFINE P == Ends(a, b)
           p == e[1]
           q == After(P, p)
           i == e[2]
<1>1. Edits(a, b)[e] = Charge(a, b, p, q, i)
  BY EditsAre
<1>2. p \in P /\ p # LastPlace(a, b) /\ i \in Nat \ {0} /\ InGap(p, q, i)
  BY DEF EditPlaces
<1>3. q \in P /\ q[1] > p[1] /\ q[2] > p[2]
  BY <1>2, AfterIs, Zenon
<1>4. \A r \in P : r \in (0 .. Len(a) + 1) \X (0 .. Len(b) + 1)
  BY PlacesAre, Zenon
<1>5. i < q[1] - p[1] /\ i < q[2] - p[2] =>
        /\ p[1] + i \in 1 .. Len(a) /\ p[2] + i \in 1 .. Len(b)
        /\ a[p[1] + i] # b[p[2] + i]
  <2> HIDE DEF p, i
  <2> QED
    BY <1>2, GapDiffers
<1> HIDE DEF P, p, q, i
<1> DEFINE x == a[p[1] + i]
           y == b[p[2] + i]
<1>6. (i < q[1] - p[1] => x \in A) /\ (i < q[2] - p[2] => y \in A)
  <2> DEFINE p1 == p[1]
             p2 == p[2]
             q1 == q[1]
             q2 == q[2]
  <2>1. /\ p1 \in Nat /\ p2 \in Nat /\ q1 \in Nat /\ q2 \in Nat /\ q1 <= Len(a) + 1 /\ q2 <= Len(b) + 1
        /\ Len(a) \in Nat /\ Len(b) \in Nat
    BY <1>2, <1>3, <1>4
  <2> HIDE DEF p1, p2, q1, q2
  <2>2. i < q1 - p1 => p1 + i \in 1 .. Len(a)
    BY <1>2, <2>1
  <2>3. i < q2 - p2 => p2 + i \in 1 .. Len(b)
    BY <1>2, <2>1
  <2> QED
    BY <2>2, <2>3 DEF p1, p2, q1, q2
<1>7. CASE i < q[1] - p[1] /\ i < q[2] - p[2]
  <2>1. Charge(a, b, p, q, i) = AttributeReplacement(x, y)
    BY <1>7 DEF Charge
  <2>2. x \in A /\ y \in A /\ x # y
    BY <1>5, <1>6, <1>7
  <2>3. x.k \in TokenKinds /\ y.k \in TokenKinds
    BY <2>2
  <2>4. OnlyReordered(x, y) => \E k \in 1 .. Len(a), j \in 1 .. Len(b) : OnlyReordered(a[k], b[j])
    BY <1>5, <1>7
  <2> HIDE DEF x, y
  <2> QED
    BY <1>1, <2>1, <2>2, <2>3, <2>4, ReplacementIs
<1>8. CASE ~(i < q[1] - p[1] /\ i < q[2] - p[2])
  <2> DEFINE t == IF i < q[1] - p[1] THEN x ELSE y
  <2>1. Charge(a, b, p, q, i) = {Category(t)}
    BY <1>8, Zenon DEF Charge
  <2>2. t \in A
    BY <1>2, <1>6, <1>8 DEF InGap
  <2> HIDE DEF t, x, y
  <2>3. Category(t) \in Categories
    BY <2>2, CategoryIs
  <2>4. Cardinality({Category(t)}) = 1
    BY FS_Singleton
  <2> QED
    BY <1>1, <2>1, <2>3, <2>4
<1> QED
  BY <1>7, <1>8

\* There are finitely many classes.
LEMMA CategoriesFinite == IsFiniteSet(Categories)
<1>1. IsFiniteSet({"header", "layout", "curve"})
  <2>1. IsFiniteSet({"header"})
    BY FS_Singleton
  <2>2. IsFiniteSet({"header"} \cup {"layout"})
    BY <2>1, FS_AddElement
  <2>3. IsFiniteSet({"header"} \cup {"layout"} \cup {"curve"})
    BY <2>2, FS_AddElement
  <2>4. {"header"} \cup {"layout"} \cup {"curve"} = {"header", "layout", "curve"}
    OBVIOUS
  <2> QED
    BY <2>3, <2>4
<1>2. IsFiniteSet({"rhythm", "barline", "accidental"})
  <2>1. IsFiniteSet({"rhythm"})
    BY FS_Singleton
  <2>2. IsFiniteSet({"rhythm"} \cup {"barline"})
    BY <2>1, FS_AddElement
  <2>3. IsFiniteSet({"rhythm"} \cup {"barline"} \cup {"accidental"})
    BY <2>2, FS_AddElement
  <2>4. {"rhythm"} \cup {"barline"} \cup {"accidental"} = {"rhythm", "barline", "accidental"}
    OBVIOUS
  <2> QED
    BY <2>3, <2>4
<1>3. IsFiniteSet({"octave", "letter", "alien_letter"})
  <2>1. IsFiniteSet({"octave"})
    BY FS_Singleton
  <2>2. IsFiniteSet({"octave"} \cup {"letter"})
    BY <2>1, FS_AddElement
  <2>3. IsFiniteSet({"octave"} \cup {"letter"} \cup {"alien_letter"})
    BY <2>2, FS_AddElement
  <2>4. {"octave"} \cup {"letter"} \cup {"alien_letter"} = {"octave", "letter", "alien_letter"}
    OBVIOUS
  <2> QED
    BY <2>3, <2>4
<1>4. Categories = ({"header", "layout", "curve"} \cup {"rhythm", "barline", "accidental"})
                     \cup {"octave", "letter", "alien_letter"}
  BY DEF Categories
<1> QED
  BY <1>1, <1>2, <1>3, <1>4, FS_Union

\* The classes are charged once for every edit at least and thrice at most, where
\* no note only has its marks in another order.
LEMMA ChargesCount ==
  ASSUME NEW A, \A x \in A : x.k \in TokenKinds, NEW a \in Seq(A), NEW b \in Seq(A)
  PROVE  LET E == DOMAIN Edits(a, b)
             charges == SumFunction([c \in Categories |-> Cardinality({e \in E : c \in Edits(a, b)[e]})])
         IN  /\ IsFiniteSet(E) /\ Cardinality(E) \in Nat
             /\ charges <= 3 * Cardinality(E)
             /\ \/ charges >= Cardinality(E)
                \/ \E i \in 1 .. Len(a), j \in 1 .. Len(b) : OnlyReordered(a[i], b[j])
<1> DEFINE E == DOMAIN Edits(a, b)
           g == Edits(a, b)
           counts == ByClass(Categories, E, g)
           each == ByEdit(E, g)
           Reorders == \E i \in 1 .. Len(a), j \in 1 .. Len(b) : OnlyReordered(a[i], b[j])
<1>1. IsFiniteSet(E) /\ E = EditPlaces(a, b)
  BY EditsAre
<1>2. \A e \in E : g[e] \in SUBSET Categories /\ Cardinality(g[e]) <= 3 /\ (g[e] # {} \/ Reorders)
  BY <1>1, EditIsCharged
<1> HIDE DEF E, g, Reorders
<1>3. SumFunctionOnSet(counts, Categories) = SumFunctionOnSet(each, E)
  BY <1>1, <1>2, CategoriesFinite, CountedTwice
<1>4. SumFunction(counts) = SumFunctionOnSet(each, E)
  BY <1>3 DEF SumFunction, ByClass
<1>5. ASSUME NEW e \in E
      PROVE  each[e] \in Int /\ 0 <= each[e] /\ each[e] <= 3 /\ (Reorders \/ 1 <= each[e])
  <2>1. IsFiniteSet(g[e])
    BY <1>2, CategoriesFinite, FS_Subset
  <2>2. Cardinality(g[e]) \in Nat /\ (g[e] # {} => Cardinality(g[e]) # 0)
    BY <2>1, FS_CardinalityType, FS_EmptySet
  <2>3. Cardinality(g[e]) <= 3 /\ (g[e] # {} \/ Reorders)
    BY <1>2
  <2> QED
    BY <2>2, <2>3 DEF ByEdit
<1>6. Cardinality(E) \in Nat
  BY <1>1, FS_CardinalityType
<1> HIDE DEF each, counts
<1>7. SumFunctionOnSet(each, E) <= 3 * Cardinality(E)
  BY <1>1, <1>5, SumBounds
<1>8. CASE Reorders
  BY <1>1, <1>4, <1>6, <1>7, <1>8, Zenon DEF E, counts, g, Reorders, ByClass
<1>9. CASE ~Reorders
  <2>1. \A e \in E : each[e] \in Int /\ 1 <= each[e] /\ each[e] <= 3
    BY <1>5, <1>9
  <2>2. 1 * Cardinality(E) <= SumFunctionOnSet(each, E) /\ SumFunctionOnSet(each, E) \in Int
    BY <1>1, <2>1, SumBounds, SumType
  <2>3. SumFunctionOnSet(each, E) >= Cardinality(E)
    BY <1>6, <2>2
  <2> QED
    BY <1>1, <1>4, <1>6, <1>7, <2>3, Zenon DEF E, counts, g, ByClass
<1> QED
  BY <1>8, <1>9

--------------------------------------------------------------------------------
(* Places of two texts that face each other. *)

\* The place after one and before the next that faces the like place of the other
\* text: a matched token, or one replaced.
Faces(a, b, i, j) ==
  \E p \in Ends(a, b) \ {LastPlace(a, b)}, d \in Nat :
     /\ i = p[1] + d /\ j = p[2] + d
     /\ i < After(Ends(a, b), p)[1] /\ j < After(Ends(a, b), p)[2]

\* What the ends are, in numbers.
LEMMA EndsInOrder ==
  ASSUME NEW A, NEW B, NEW a \in Seq(A), NEW b \in Seq(B)
  PROVE  /\ Len(a) \in Nat /\ Len(b) \in Nat
         /\ \A p \in Ends(a, b) : /\ p[1] \in Nat /\ p[2] \in Nat /\ p = <<p[1], p[2]>>
                                  /\ p[1] <= Len(a) + 1 /\ p[2] <= Len(b) + 1
         /\ \A p, q \in Ends(a, b) : p[1] < q[1] <=> p[2] < q[2]
         /\ LastPlace(a, b)[1] = Len(a) + 1 /\ LastPlace(a, b)[2] = Len(b) + 1
         /\ \A p \in Ends(a, b) \ {LastPlace(a, b)} :
              LET q == After(Ends(a, b), p)
              IN  /\ q \in Ends(a, b) /\ q[1] > p[1] /\ q[2] > p[2]
                  /\ \A r \in Ends(a, b) : \/ q[1] <= r[1] /\ q[2] <= r[2]
                                           \/ r[1] <= p[1] /\ r[2] <= p[2]
<1>1. /\ \A r \in Ends(a, b) : r \in (0 .. Len(a) + 1) \X (0 .. Len(b) + 1)
      /\ \A r, s \in Ends(a, b) : r[1] < s[1] <=> r[2] < s[2]
  BY PlacesAre, Zenon
<1>2. LastPlace(a, b)[1] = Len(a) + 1 /\ LastPlace(a, b)[2] = Len(b) + 1
  BY DEF LastPlace
<1>3. \A r \in Ends(a, b) : /\ r[1] \in Nat /\ r[2] \in Nat /\ r = <<r[1], r[2]>>
                            /\ r[1] <= Len(a) + 1 /\ r[2] <= Len(b) + 1
  BY <1>1
<1>4. ASSUME NEW p \in Ends(a, b) \ {LastPlace(a, b)}
      PROVE  LET q == After(Ends(a, b), p)
             IN  /\ q \in Ends(a, b) /\ q[1] > p[1] /\ q[2] > p[2]
                 /\ \A r \in Ends(a, b) : \/ q[1] <= r[1] /\ q[2] <= r[2]
                                          \/ r[1] <= p[1] /\ r[2] <= p[2]
  <2> DEFINE q == After(Ends(a, b), p)
  <2>1. /\ q \in Ends(a, b) /\ q[1] > p[1] /\ q[2] > p[2]
        /\ \A r \in Ends(a, b) : /\ r[1] > p[1] => q[1] <= r[1] /\ q[2] <= r[2]
                                 /\ r[1] <= p[1] => r[2] <= p[2]
    BY AfterIs
  <2> HIDE DEF q
  <2>2. \A r \in Ends(a, b) : r[1] > p[1] \/ r[1] <= p[1]
    BY <1>3
  <2>3. /\ q \in Ends(a, b) /\ q[1] > p[1] /\ q[2] > p[2]
        /\ \A r \in Ends(a, b) : \/ q[1] <= r[1] /\ q[2] <= r[2]
                                 \/ r[1] <= p[1] /\ r[2] <= p[2]
    BY <2>1, <2>2
  <2> QED
    BY <2>3 DEF q
<1> QED
  BY <1>1, <1>2, <1>3, <1>4

\* Every place of either text lies in one gap.
LEMMA GapAround ==
  ASSUME NEW A, NEW B, NEW a \in Seq(A), NEW b \in Seq(B)
  PROVE  /\ \A i \in 1 .. Len(a) : \E p \in Ends(a, b) \ {LastPlace(a, b)} :
              p[1] <= i /\ i < After(Ends(a, b), p)[1]
         /\ \A j \in 1 .. Len(b) : \E p \in Ends(a, b) \ {LastPlace(a, b)} :
              p[2] <= j /\ j < After(Ends(a, b), p)[2]
<1> DEFINE P == Ends(a, b)
           last == LastPlace(a, b)
           n == Len(a)
           k == Len(b)
<1>1. /\ n \in Nat /\ k \in Nat
      /\ \A p \in P : p[1] \in Nat /\ p[2] \in Nat /\ p[1] <= n + 1 /\ p[2] <= k + 1
      /\ last[1] = n + 1 /\ last[2] = k + 1
  BY EndsInOrder
<1>2. \A p \in P \ {last} : After(P, p) \in P /\ After(P, p)[1] > p[1] /\ After(P, p)[2] > p[2]
  BY EndsInOrder
<1>3. <<0, 0>> \in P
  BY PlacesAre, Zenon
<1> HIDE DEF P, last, n, k
<1>4. ASSUME NEW i \in 1 .. n
      PROVE  \E p \in P \ {last} : p[1] <= i /\ i < After(P, p)[1]
  <2> DEFINE S == {n + 1 - p[1] : p \in {r \in P : r[1] <= i}}
  <2>1. S \subseteq Nat /\ S # {}
    <3>1. \E r \in P : r[1] <= i
      BY <1>3
    <3>2. \A p \in P : n + 1 - p[1] \in Nat
      BY <1>1
    <3> QED
      BY <3>1, <3>2
  <2> HIDE DEF S
  <2>2. PICK s \in S : \A t \in S : s <= t
    BY <2>1, LeastNatural
  <2>3. PICK p \in P : p[1] <= i /\ s = n + 1 - p[1]
    BY DEF S
  <2>4. \A r \in P : r[1] <= i => n + 1 - p[1] <= n + 1 - r[1]
    BY <2>2, <2>3 DEF S
  <2>5. p # last
    BY <1>1, <2>3
  <2>6. After(P, p) \in P /\ After(P, p)[1] > p[1]
    BY <1>2, <2>5
  <2>7. ~(After(P, p)[1] <= i)
    BY <1>1, <2>4, <2>6
  <2> QED
    BY <1>1, <2>3, <2>5, <2>6, <2>7
<1>5. ASSUME NEW j \in 1 .. k
      PROVE  \E p \in P \ {last} : p[2] <= j /\ j < After(P, p)[2]
  <2> DEFINE S == {k + 1 - p[2] : p \in {r \in P : r[2] <= j}}
  <2>1. S \subseteq Nat /\ S # {}
    <3>1. \E r \in P : r[2] <= j
      BY <1>3
    <3>2. \A p \in P : k + 1 - p[2] \in Nat
      BY <1>1
    <3> QED
      BY <3>1, <3>2
  <2> HIDE DEF S
  <2>2. PICK s \in S : \A t \in S : s <= t
    BY <2>1, LeastNatural
  <2>3. PICK p \in P : p[2] <= j /\ s = k + 1 - p[2]
    BY DEF S
  <2>4. \A r \in P : r[2] <= j => k + 1 - p[2] <= k + 1 - r[2]
    BY <2>2, <2>3 DEF S
  <2>5. p # last
    BY <1>1, <2>3
  <2>6. After(P, p) \in P /\ After(P, p)[2] > p[2]
    BY <1>2, <2>5
  <2>7. ~(After(P, p)[2] <= j)
    BY <1>1, <2>4, <2>6
  <2> QED
    BY <1>1, <2>3, <2>5, <2>6, <2>7
<1> QED
  BY <1>4, <1>5 DEF P, last, n, k

\* Places that face each other are in the same order in both texts.
LEMMA FacesInOrder ==
  ASSUME NEW A, NEW B, NEW a \in Seq(A), NEW b \in Seq(B)
  PROVE  \A i, j, x, y : Faces(a, b, i, j) /\ Faces(a, b, x, y) =>
           /\ i \in Nat /\ j \in Nat /\ x \in Nat /\ y \in Nat
           /\ i <= Len(a) /\ j <= Len(b) /\ x <= Len(a) /\ y <= Len(b)
           /\ i < x <=> j < y
<1> SUFFICES ASSUME NEW i, NEW j, NEW x, NEW y, Faces(a, b, i, j), Faces(a, b, x, y)
             PROVE  /\ i \in Nat /\ j \in Nat /\ x \in Nat /\ y \in Nat
                    /\ i <= Len(a) /\ j <= Len(b) /\ x <= Len(a) /\ y <= Len(b)
                    /\ i < x <=> j < y
  OBVIOUS
<1> DEFINE P == Ends(a, b)
           last == LastPlace(a, b)
           n == Len(a)
           k == Len(b)
<1>1. /\ n \in Nat /\ k \in Nat
      /\ \A p \in P : p[1] \in Nat /\ p[2] \in Nat /\ p[1] <= n + 1 /\ p[2] <= k + 1
  BY EndsInOrder
<1>2. \A p \in P \ {last} :
         /\ After(P, p) \in P /\ After(P, p)[1] > p[1] /\ After(P, p)[2] > p[2]
         /\ \A r \in P : \/ After(P, p)[1] <= r[1] /\ After(P, p)[2] <= r[2]
                         \/ r[1] <= p[1] /\ r[2] <= p[2]
  BY EndsInOrder
<1>a. \A p, q \in P : p[1] < q[1] <=> p[2] < q[2]
  BY EndsInOrder
<1>3. PICK p \in P \ {last}, d \in Nat :
         /\ i = p[1] + d /\ j = p[2] + d /\ i < After(P, p)[1] /\ j < After(P, p)[2]
  BY DEF Faces
<1>4. PICK q \in P \ {last}, e \in Nat :
         /\ x = q[1] + e /\ y = q[2] + e /\ x < After(P, q)[1] /\ y < After(P, q)[2]
  BY DEF Faces
<1> HIDE DEF P, last, n, k
<1> DEFINE p1 == p[1]
           p2 == p[2]
           q1 == q[1]
           q2 == q[2]
           u1 == After(P, p)[1]
           u2 == After(P, p)[2]
           v1 == After(P, q)[1]
           v2 == After(P, q)[2]
<1>5. /\ p1 \in Nat /\ p2 \in Nat /\ q1 \in Nat /\ q2 \in Nat
      /\ u1 \in Nat /\ u2 \in Nat /\ v1 \in Nat /\ v2 \in Nat
      /\ u1 <= n + 1 /\ u2 <= k + 1 /\ v1 <= n + 1 /\ v2 <= k + 1
  BY <1>1, <1>2
<1>6. (u1 <= q1 /\ u2 <= q2) \/ (q1 <= p1 /\ q2 <= p2)
  BY <1>2
<1>7. (v1 <= p1 /\ v2 <= p2) \/ (p1 <= q1 /\ p2 <= q2)
  BY <1>2
<1>8. i = p1 + d /\ j = p2 + d /\ i < u1 /\ j < u2 /\ x = q1 + e /\ y = q2 + e /\ x < v1 /\ y < v2
  BY <1>3, <1>4
<1> HIDE DEF p1, p2, q1, q2, u1, u2, v1, v2
<1>9. /\ i \in Nat /\ j \in Nat /\ x \in Nat /\ y \in Nat
      /\ i <= n /\ j <= k /\ x <= n /\ y <= k
      /\ i < x <=> j < y
  BY <1>1, <1>5, <1>6, <1>7, <1>8
<1> QED
  BY <1>9 DEF n, k

\* A replacement that is not charged to a class leaves what it shows there.
LEMMA UnchargedReplacement ==
  ASSUME NEW x, NEW y, x.k \in TokenKinds, y.k \in TokenKinds,
         NEW c \in Categories \ {"letter", "octave"}, c \notin AttributeReplacement(x, y)
  PROVE  /\ Category(x) = c => Category(y) = c /\ ShownOf(x) = ShownOf(y)
         /\ Category(y) = c => Category(x) = c /\ ShownOf(x) = ShownOf(y)
<1>1. CASE IsNote(x) /\ IsNote(y)
  <2>1. /\ Category(x) \in {"accidental", "octave", "letter"}
        /\ Category(x) = "accidental" <=> MarksOf(x, Accidentals) # NoMarks(Accidentals)
    BY <1>1, CategoryIs
  <2>2. /\ Category(y) \in {"accidental", "octave", "letter"}
        /\ Category(y) = "accidental" <=> MarksOf(y, Accidentals) # NoMarks(Accidentals)
    BY <1>1, CategoryIs
  <2>3. MarksOf(x, Accidentals) # MarksOf(y, Accidentals) => "accidental" \in AttributeReplacement(x, y)
    BY <1>1 DEF AttributeReplacement
  <2>4. ShownOf(x) = MarksOf(x, Accidentals) /\ ShownOf(y) = MarksOf(y, Accidentals)
    BY <1>1 DEF ShownOf
  <2>5. Category(x) = c \/ Category(y) = c => c = "accidental"
    BY <2>1, <2>2
  <2> QED
    BY <2>1, <2>2, <2>3, <2>4, <2>5
<1>2. CASE ~(IsNote(x) /\ IsNote(y))
  <2>1. AttributeReplacement(x, y) = {Category(x), Category(y)}
    BY <1>2, Zenon DEF AttributeReplacement
  <2> QED
    BY <2>1
<1> QED
  BY <1>1, <1>2

\* Where no edit is charged to a class, every token of the class faces one that
\* shows the same.
LEMMA UnchargedFaces ==
  ASSUME NEW A, \A x \in A : x.k \in TokenKinds, NEW a \in Seq(A), NEW b \in Seq(A),
         NEW c \in Categories \ {"letter", "octave"},
         \A e \in EditPlaces(a, b) : c \notin Edits(a, b)[e]
  PROVE  /\ \A i \in 1 .. Len(a) : Category(a[i]) = c =>
              \E j \in 1 .. Len(b) : Faces(a, b, i, j) /\ Category(b[j]) = c /\ ShownOf(a[i]) = ShownOf(b[j])
         /\ \A j \in 1 .. Len(b) : Category(b[j]) = c =>
              \E i \in 1 .. Len(a) : Faces(a, b, i, j) /\ Category(a[i]) = c /\ ShownOf(a[i]) = ShownOf(b[j])
<1> DEFINE P == Ends(a, b)
           last == LastPlace(a, b)
           n == Len(a)
           k == Len(b)
<1>1. /\ n \in Nat /\ k \in Nat
      /\ \A p \in P : p[1] \in Nat /\ p[2] \in Nat /\ p[1] <= n + 1 /\ p[2] <= k + 1 /\ p = <<p[1], p[2]>>
  BY EndsInOrder
<1>2. \A p \in P \ {last} : After(P, p) \in P /\ After(P, p)[1] > p[1] /\ After(P, p)[2] > p[2]
  BY EndsInOrder
<1>3. \A p \in P : p # <<0, 0>> /\ p # last => p \in (1 .. n) \X (1 .. k) /\ a[p[1]] = b[p[2]]
  BY PlacesAre
<1>4. \A p \in P \ {last}, d \in 1 .. n + k : InGap(p, After(P, p), d) => c \notin Charge(a, b, p, After(P, p), d)
  <2> SUFFICES ASSUME NEW p \in P \ {last}, NEW d \in 1 .. n + k, InGap(p, After(P, p), d)
               PROVE  c \notin Charge(a, b, p, After(P, p), d)
    OBVIOUS
  <2> DEFINE e == <<p, d>>
  <2>1. e \in EditPlaces(a, b)
    BY DEF EditPlaces
  <2>2. Edits(a, b)[e] = Charge(a, b, e[1], After(P, e[1]), e[2])
    BY <2>1, EditsAre
  <2>3. e[1] = p /\ e[2] = d
    OBVIOUS
  <2> HIDE DEF e, P
  <2> QED
    BY <2>1, <2>2, <2>3
<1>5. \A i \in 1 .. n : \E p \in P \ {last} : p[1] <= i /\ i < After(P, p)[1]
  BY GapAround
<1>6. \A j \in 1 .. k : \E p \in P \ {last} : p[2] <= j /\ j < After(P, p)[2]
  BY GapAround
<1>7. /\ \A i \in 1 .. n : a[i] \in A /\ a[i].k \in TokenKinds
      /\ \A j \in 1 .. k : b[j] \in A /\ b[j].k \in TokenKinds
  OBVIOUS
<1> HIDE DEF P, last, n, k
<1>8. ASSUME NEW i \in 1 .. n, Category(a[i]) = c
      PROVE  \E j \in 1 .. k : Faces(a, b, i, j) /\ Category(b[j]) = c /\ ShownOf(a[i]) = ShownOf(b[j])
  <2>1. PICK p \in P \ {last} : p[1] <= i /\ i < After(P, p)[1]
    BY <1>5
  <2> DEFINE p1 == p[1]
             p2 == p[2]
             q1 == After(P, p)[1]
             q2 == After(P, p)[2]
             d == i - p1
             j == p2 + d
  <2>2. /\ p1 \in Nat /\ p2 \in Nat /\ p1 <= i /\ i < q1 /\ q1 \in Nat /\ q2 \in Nat /\ p2 < q2 /\ q1 <= n + 1 /\ q2 <= k + 1
        /\ p = <<p1, p2>>
    BY <1>1, <1>2, <2>1
  <2>3. CASE d = 0
    <3>1. p # <<0, 0>> /\ p # last
      BY <2>2, <2>3
    <3>2. p1 \in 1 .. n /\ p2 \in 1 .. k /\ a[p1] = b[p2]
      BY <1>3, <3>1
    <3> HIDE DEF p1, p2, q1, q2
    <3>3. i = p1 /\ j = p2
      BY <2>2, <2>3
    <3>4. Faces(a, b, p1, p2)
      <4>1. p1 = p1 + 0 /\ p2 = p2 + 0 /\ p1 < q1 /\ p2 < q2
        BY <2>2, <3>3
      <4> QED
        BY <4>1 DEF Faces, P, last, p1, p2, q1, q2
    <3> QED
      BY <1>8, <3>2, <3>3, <3>4
  <2>4. CASE d # 0 /\ j < q2
    <3> HIDE DEF p1, p2, q1, q2
    <3>1. d \in 1 .. n + k /\ d < q1 - p1 /\ d < q2 - p2 /\ i = p1 + d /\ j \in 1 .. k /\ d \in Nat
      BY <1>1, <2>2, <2>4
    <3> HIDE DEF d, j
    <3>2. Charge(a, b, p, After(P, p), d) = AttributeReplacement(a[i], b[j])
      BY <3>1, Zenon DEF Charge, p1, p2, q1, q2, j
    <3>3. InGap(p, After(P, p), d)
      BY <3>1 DEF InGap, p1, q1
    <3>4. c \notin AttributeReplacement(a[i], b[j])
      BY <1>4, <3>1, <3>2, <3>3
    <3>5. Category(b[j]) = c /\ ShownOf(a[i]) = ShownOf(b[j])
      BY <1>7, <1>8, <3>1, <3>4, UnchargedReplacement
    <3>6. Faces(a, b, i, j)
      BY <2>2, <2>4, <3>1 DEF Faces, P, last, p1, p2, q1, q2, j
    <3> QED
      BY <3>1, <3>5, <3>6
  <2>5. CASE d # 0 /\ ~(j < q2)
    <3> HIDE DEF p1, p2, q1, q2
    <3>1. d \in 1 .. n + k /\ d < q1 - p1 /\ ~(d < q2 - p2) /\ i = p1 + d
      BY <1>1, <2>2, <2>5
    <3> HIDE DEF d, j
    <3>2. Charge(a, b, p, After(P, p), d) = {Category(a[i])}
      BY <3>1, Zenon DEF Charge, p1, p2, q1, q2
    <3>3. InGap(p, After(P, p), d)
      BY <3>1 DEF InGap, p1, q1
    <3> QED
      BY <1>4, <1>8, <3>1, <3>2, <3>3
  <2> QED
    BY <2>3, <2>4, <2>5
<1>9. ASSUME NEW j \in 1 .. k, Category(b[j]) = c
      PROVE  \E i \in 1 .. n : Faces(a, b, i, j) /\ Category(a[i]) = c /\ ShownOf(a[i]) = ShownOf(b[j])
  <2>1. PICK p \in P \ {last} : p[2] <= j /\ j < After(P, p)[2]
    BY <1>6
  <2> DEFINE p1 == p[1]
             p2 == p[2]
             q1 == After(P, p)[1]
             q2 == After(P, p)[2]
             d == j - p2
             i == p1 + d
  <2>2. /\ p1 \in Nat /\ p2 \in Nat /\ p2 <= j /\ j < q2 /\ q1 \in Nat /\ q2 \in Nat /\ p1 < q1 /\ q1 <= n + 1 /\ q2 <= k + 1
        /\ p = <<p1, p2>>
    BY <1>1, <1>2, <2>1
  <2>3. CASE d = 0
    <3>1. p # <<0, 0>> /\ p # last
      BY <2>2, <2>3
    <3>2. p1 \in 1 .. n /\ p2 \in 1 .. k /\ a[p1] = b[p2]
      BY <1>3, <3>1
    <3> HIDE DEF p1, p2, q1, q2
    <3>3. i = p1 /\ j = p2
      BY <2>2, <2>3
    <3>4. Faces(a, b, p1, p2)
      <4>1. p1 = p1 + 0 /\ p2 = p2 + 0 /\ p1 < q1 /\ p2 < q2
        BY <2>2, <3>3
      <4> QED
        BY <4>1 DEF Faces, P, last, p1, p2, q1, q2
    <3> QED
      BY <1>9, <3>2, <3>3, <3>4
  <2>4. CASE d # 0 /\ i < q1
    <3> HIDE DEF p1, p2, q1, q2
    <3>1. d \in 1 .. n + k /\ d < q1 - p1 /\ d < q2 - p2 /\ j = p2 + d /\ i \in 1 .. n /\ d \in Nat
      BY <1>1, <2>2, <2>4
    <3> HIDE DEF d, i
    <3>2. Charge(a, b, p, After(P, p), d) = AttributeReplacement(a[i], b[j])
      BY <3>1, Zenon DEF Charge, p1, p2, q1, q2, i
    <3>3. InGap(p, After(P, p), d)
      BY <3>1 DEF InGap, p1, q1
    <3>4. c \notin AttributeReplacement(a[i], b[j])
      BY <1>4, <3>1, <3>2, <3>3
    <3>5. Category(a[i]) = c /\ ShownOf(a[i]) = ShownOf(b[j])
      BY <1>7, <1>9, <3>1, <3>4, UnchargedReplacement
    <3>6. Faces(a, b, i, j)
      BY <2>2, <2>4, <3>1 DEF Faces, P, last, p1, p2, q1, q2, i
    <3> QED
      BY <3>1, <3>5, <3>6
  <2>5. CASE d # 0 /\ ~(i < q1)
    <3> HIDE DEF p1, p2, q1, q2
    <3>1. d \in 1 .. n + k /\ ~(d < q1 - p1) /\ d < q2 - p2 /\ j = p2 + d
      BY <1>1, <2>2, <2>5
    <3> HIDE DEF d, i
    <3>2. Charge(a, b, p, After(P, p), d) = {Category(b[j])}
      BY <3>1, Zenon DEF Charge, p1, p2, q1, q2
    <3>3. InGap(p, After(P, p), d)
      BY <3>1 DEF InGap, p2, q2
    <3> QED
      BY <1>4, <1>9, <3>1, <3>2, <3>3
  <2> QED
    BY <2>3, <2>4, <2>5
<1> QED
  BY <1>8, <1>9 DEF n, k

\* What the members of a product are.
LEMMA PairsAre ==
  ASSUME NEW I, NEW J
  PROVE  \A r \in I \X J : r = <<r[1], r[2]>> /\ r[1] \in I /\ r[2] \in J
OBVIOUS

\* Places paired in order have the same rank.
LEMMA PairedRanks ==
  ASSUME NEW I \in SUBSET Nat, NEW J \in SUBSET Nat, IsFiniteSet(I), NEW N \in SUBSET (I \X J),
         \A x \in I : \E y \in J : <<x, y>> \in N,
         \A y \in J : \E x \in I : <<x, y>> \in N,
         \A p, q \in N : p[1] < q[1] <=> p[2] < q[2]
  PROVE  \A p \in N : Cardinality({x \in I : x <= p[1]}) = Cardinality({y \in J : y <= p[2]})
<1> SUFFICES ASSUME NEW p \in N
             PROVE  Cardinality({x \in I : x <= p[1]}) = Cardinality({y \in J : y <= p[2]})
  OBVIOUS
<1> DEFINE S == {x \in I : x <= p[1]}
           T == {y \in J : y <= p[2]}
           f == [x \in S |-> CHOOSE y \in J : <<x, y>> \in N]
<1>1. \A x, y, u, v : <<x, y>> \in N /\ <<u, v>> \in N =>
        /\ x \in Nat /\ y \in Nat /\ u \in Nat /\ v \in Nat
        /\ x \in I /\ y \in J
        /\ x < u <=> y < v
  BY Zenon
<1>2. p = <<p[1], p[2]>> /\ p[1] \in Nat /\ p[2] \in Nat
  <2>1. N \subseteq I \X J
    OBVIOUS
  <2>2. p = <<p[1], p[2]>> /\ p[1] \in I /\ p[2] \in J
    BY <2>1, PairsAre, Zenon
  <2> QED
    BY <2>2
<1>3. \A x \in S : <<x, f[x]>> \in N /\ f[x] \in J
  BY Zenon
<1>4. \A x \in S : f[x] \in T
  <2> SUFFICES ASSUME NEW x \in S PROVE f[x] \in T
    OBVIOUS
  <2>1. <<x, f[x]>> \in N /\ <<p[1], p[2]>> \in N /\ f[x] \in J /\ x <= p[1]
    BY <1>2, <1>3
  <2> HIDE DEF f
  <2>2. x \in Nat /\ f[x] \in Nat /\ ~(p[1] < x)
    BY <1>1, <1>2, <2>1
  <2>3. ~(p[2] < f[x])
    BY <1>1, <2>1, <2>2
  <2> QED
    BY <1>2, <2>1, <2>2, <2>3
<1>5. \A x, u \in S : f[x] = f[u] => x = u
  <2> SUFFICES ASSUME NEW x \in S, NEW u \in S, f[x] = f[u] PROVE x = u
    OBVIOUS
  <2>1. <<x, f[x]>> \in N /\ <<u, f[u]>> \in N
    BY <1>3
  <2> HIDE DEF f
  <2>2. x \in Nat /\ u \in Nat /\ f[x] \in Nat
    BY <1>1, <2>1
  <2>3. ~(x < u) /\ ~(u < x)
    BY <1>1, <2>1, <2>2
  <2> QED
    BY <2>2, <2>3
<1>6. \A y \in T : \E x \in S : f[x] = y
  <2> SUFFICES ASSUME NEW y \in T PROVE \E x \in S : f[x] = y
    OBVIOUS
  <2>1. PICK x \in I : <<x, y>> \in N
    OBVIOUS
  <2>2. <<p[1], p[2]>> \in N /\ y <= p[2]
    BY <1>2
  <2>3. x \in Nat /\ y \in Nat /\ ~(p[1] < x)
    BY <1>1, <1>2, <2>1, <2>2
  <2>4. x \in S
    BY <1>2, <2>3
  <2>5. <<x, f[x]>> \in N
    BY <1>3, <2>4
  <2> HIDE DEF f, S
  <2>6. f[x] \in Nat /\ ~(f[x] < y) /\ ~(y < f[x])
    BY <1>1, <2>1, <2>3, <2>5
  <2> QED
    BY <2>3, <2>4, <2>6
<1>7. f \in [S -> T]
  BY <1>4
<1>8. f \in Bijection(S, T)
  <2> HIDE DEF f
  <2> QED
    BY <1>5, <1>6, <1>7 DEF Bijection, Injection, IsInjective, Surjection
<1>9. IsFiniteSet(S)
  BY FS_Subset
<1> QED
  BY <1>8, <1>9, FS_Bijection DEF ExistsBijection

\* A class no edit is charged to is the same in both texts.
LEMMA UnchargedClassIsSame ==
  ASSUME NEW A, \A x \in A : x.k \in TokenKinds, NEW a \in Seq(A), NEW b \in Seq(A),
         NEW c \in Categories \ {"letter", "octave"},
         \A e \in EditPlaces(a, b) : c \notin Edits(a, b)[e]
  PROVE  OfClass(a, c) = OfClass(b, c)
<1> DEFINE I == {i \in DOMAIN a : Category(a[i]) = c}
           J == {j \in DOMAIN b : Category(b[j]) = c}
           N == {p \in I \X J : Faces(a, b, p[1], p[2]) /\ ShownOf(a[p[1]]) = ShownOf(b[p[2]])}
<1>1. /\ \A i \in I : \E j \in J : <<i, j>> \in N
      /\ \A j \in J : \E i \in I : <<i, j>> \in N
  <2>1. DOMAIN a = 1 .. Len(a) /\ DOMAIN b = 1 .. Len(b)
    OBVIOUS
  <2>2. /\ \A i \in 1 .. Len(a) : Category(a[i]) = c =>
              \E j \in 1 .. Len(b) : Faces(a, b, i, j) /\ Category(b[j]) = c /\ ShownOf(a[i]) = ShownOf(b[j])
        /\ \A j \in 1 .. Len(b) : Category(b[j]) = c =>
              \E i \in 1 .. Len(a) : Faces(a, b, i, j) /\ Category(a[i]) = c /\ ShownOf(a[i]) = ShownOf(b[j])
    BY UnchargedFaces
  <2> QED
    BY <2>1, <2>2
<1>2. \A p, q \in N : p[1] < q[1] <=> p[2] < q[2]
  <2> SUFFICES ASSUME NEW p \in N, NEW q \in N PROVE p[1] < q[1] <=> p[2] < q[2]
    OBVIOUS
  <2>1. Faces(a, b, p[1], p[2]) /\ Faces(a, b, q[1], q[2])
    OBVIOUS
  <2> QED
    BY <2>1, FacesInOrder
<1>3. I \in SUBSET Nat /\ J \in SUBSET Nat /\ IsFiniteSet(I) /\ N \in SUBSET (I \X J)
  <2>1. IsFiniteSet(1 .. Len(a)) /\ I \subseteq 1 .. Len(a)
    BY FS_Interval
  <2> QED
    BY <2>1, FS_Subset
<1>4. \A p \in N : ShownOf(a[p[1]]) = ShownOf(b[p[2]]) /\ p[1] \in I /\ p[2] \in J
  OBVIOUS
<1>5. /\ OfClass(a, c) = {<<Cardinality({x \in I : x <= i}), ShownOf(a[i])>> : i \in I}
      /\ OfClass(b, c) = {<<Cardinality({x \in J : x <= j}), ShownOf(b[j])>> : j \in J}
  BY DEF OfClass
<1> HIDE DEF I, J, N
<1>6. \A p \in N : Cardinality({x \in I : x <= p[1]}) = Cardinality({y \in J : y <= p[2]})
  BY <1>1, <1>2, <1>3, PairedRanks
<1>7. ASSUME NEW i \in I
      PROVE  <<Cardinality({x \in I : x <= i}), ShownOf(a[i])>> \in OfClass(b, c)
  <2>1. PICK j \in J : <<i, j>> \in N
    BY <1>1
  <2>2. Cardinality({x \in I : x <= i}) = Cardinality({x \in J : x <= j}) /\ ShownOf(a[i]) = ShownOf(b[j])
    BY <1>4, <1>6, <2>1
  <2> QED
    BY <1>5, <2>2
<1>8. ASSUME NEW j \in J
      PROVE  <<Cardinality({x \in J : x <= j}), ShownOf(b[j])>> \in OfClass(a, c)
  <2>1. PICK i \in I : <<i, j>> \in N
    BY <1>1
  <2>2. Cardinality({x \in I : x <= i}) = Cardinality({x \in J : x <= j}) /\ ShownOf(a[i]) = ShownOf(b[j])
    BY <1>4, <1>6, <2>1
  <2> QED
    BY <1>5, <2>2
<1> QED
  BY <1>5, <1>7, <1>8

--------------------------------------------------------------------------------
(* Sequences joined. *)

\* The joined prefixes of a sequence of sequences.
Flattens(s, m, g) == g = [i \in 1 .. m |-> IF i = 1 THEN s[i] ELSE g[i - 1] \o s[i]]
Flattened(s) == CHOOSE g : Flattens(s, Len(s), g)

\* A sequence of sequences is joined by its longest prefix.
LEMMA FlattenIsRecursive ==
  ASSUME NEW s
  PROVE  FlattenSeq(s) = IF Len(s) = 0 THEN s ELSE Flattened(s)[Len(s)]
BY Zenon DEF FlattenSeq, Flattened, Flattens

\* The joined prefixes exist.
LEMMA FlattensExist ==
  ASSUME NEW T, NEW s \in Seq(Seq(T))
  PROVE  Flattens(s, Len(s), Flattened(s))
<1> DEFINE Solved(m) == \E g : Flattens(s, m, g)
           bad == {m \in Nat : ~Solved(m)}
<1>1. ASSUME bad # {} PROVE FALSE
  <2>1. bad \subseteq Nat /\ bad # {}
    BY <1>1
  <2> HIDE DEF bad
  <2>2. PICK m \in bad : \A k \in bad : m <= k
    BY <2>1, LeastNatural
  <2> USE DEF bad
  <2>3. m \in Nat /\ ~Solved(m)
    OBVIOUS
  <2>4. CASE m = 0
    <3> DEFINE g == [i \in 1 .. 0 |-> 0]
    <3>1. \A h : [i \in 1 .. 0 |-> h[i]] = g
      OBVIOUS
    <3>2. Flattens(s, 0, g)
      BY DEF Flattens
    <3> HIDE DEF g
    <3> QED
      BY <2>3, <2>4, <3>2
  <2>5. CASE m # 0
    <3>1. m - 1 \in Nat /\ ~(m <= m - 1)
      BY <2>3, <2>5
    <3>2. Solved(m - 1)
      <4> HIDE DEF Solved
      <4> QED
        BY <2>2, <3>1
    <3>3. PICK g : Flattens(s, m - 1, g)
      BY <3>2
    <3> DEFINE h == [i \in 1 .. m |-> IF i = 1 THEN s[i] ELSE g[i - 1] \o s[i]]
    <3>4. ASSUME NEW i \in 1 .. m, i # 1 PROVE h[i - 1] = g[i - 1]
      <4>1. i - 1 \in 1 .. m /\ i - 1 \in 1 .. m - 1
        BY <2>3, <3>4
      <4>2. g[i - 1] = IF i - 1 = 1 THEN s[i - 1] ELSE g[(i - 1) - 1] \o s[i - 1]
        BY <3>3, <4>1, Zenon DEF Flattens
      <4>3. h[i - 1] = IF i - 1 = 1 THEN s[i - 1] ELSE g[(i - 1) - 1] \o s[i - 1]
        BY <4>1, Zenon
      <4> QED
        BY <4>2, <4>3, Zenon
    <3>5. h = [i \in 1 .. m |-> IF i = 1 THEN s[i] ELSE h[i - 1] \o s[i]]
      <4> DEFINE u(i) == IF i = 1 THEN s[i] ELSE g[i - 1] \o s[i]
                 v(i) == IF i = 1 THEN s[i] ELSE h[i - 1] \o s[i]
      <4>1. \A i \in 1 .. m : u(i) = v(i)
        <5> HIDE DEF h
        <5> QED
          BY <3>4, Zenon
      <4>2. h = [i \in 1 .. m |-> u(i)]
        OBVIOUS
      <4> HIDE DEF h
      <4>3. [i \in 1 .. m |-> u(i)] = [i \in 1 .. m |-> v(i)]
        BY <4>1, Zenon
      <4> QED
        BY <4>2, <4>3, Zenon
    <3>6. Flattens(s, m, h)
      <4> HIDE DEF h
      <4> QED
        BY <3>5, Zenon DEF Flattens
    <3> HIDE DEF h
    <3> QED
      BY <2>3, <3>6
  <2> QED
    BY <2>4, <2>5
<1>2. Solved(Len(s))
  <2>1. Len(s) \in Nat
    OBVIOUS
  <2> HIDE DEF Solved
  <2> QED
    BY <1>1, <2>1
<1> QED
  BY <1>2, Zenon DEF Flattened

\* Sequences of some things joined are a sequence of them.
LEMMA FlattenType ==
  ASSUME NEW T, NEW s \in Seq(Seq(T))
  PROVE  FlattenSeq(s) \in Seq(T)
<1> DEFINE g == Flattened(s)
           n == Len(s)
           bad == {i \in 1 .. n : g[i] \notin Seq(T)}
<1>1. \A i \in 1 .. n : g[i] = IF i = 1 THEN s[i] ELSE g[i - 1] \o s[i]
  <2>1. Flattens(s, n, g)
    BY FlattensExist
  <2> HIDE DEF g
  <2> QED
    BY <2>1, Zenon DEF Flattens
<1>2. \A i \in 1 .. n : s[i] \in Seq(T)
  OBVIOUS
<1>0. n \in Nat
  OBVIOUS
<1> HIDE DEF g, n
<1>3. ASSUME bad # {} PROVE FALSE
  <2>1. bad \subseteq Nat /\ bad # {}
    BY <1>3
  <2> HIDE DEF bad
  <2>2. PICK i \in bad : \A k \in bad : i <= k
    BY <2>1, LeastNatural
  <2>3. i \in 1 .. n /\ g[i] \notin Seq(T)
    BY DEF bad
  <2>4. i # 1
    BY <1>1, <1>2, <2>3
  <2>5. i - 1 \in 1 .. n /\ ~(i <= i - 1)
    BY <1>0, <2>3, <2>4
  <2>6. g[i - 1] \in Seq(T)
    BY <2>2, <2>5 DEF bad
  <2>7. g[i] = g[i - 1] \o s[i] /\ s[i] \in Seq(T)
    BY <1>1, <1>2, <2>3, <2>4
  <2>8. g[i - 1] \o s[i] \in Seq(T)
    BY <2>6, <2>7, ConcatProperties
  <2> QED
    BY <2>3, <2>7, <2>8
<1>4. CASE n = 0
  <2>1. FlattenSeq(s) = s
    BY <1>4, FlattenIsRecursive DEF n
  <2>2. s = << >>
    BY <1>4, EmptySeq DEF n
  <2> QED
    BY <2>1, <2>2
<1>5. CASE n # 0
  <2>1. FlattenSeq(s) = g[n]
    BY <1>5, FlattenIsRecursive DEF n, g
  <2>2. n \in 1 .. n
    BY <1>0, <1>5
  <2> QED
    BY <1>3, <2>1, <2>2
<1> QED
  BY <1>4, <1>5

--------------------------------------------------------------------------------
(* The tokens of a document. *)

\* The tokens of a document: its header's, and those of its lines.
HeaderTokens(doc) ==
  << [k |-> "header", field |-> "concert", value |-> doc.header.concert],
     [k |-> "header", field |-> "alto", value |-> doc.header.alto],
     [k |-> "header", field |-> "beat", value |-> doc.header.beat] >>
TokensOf(line) ==
  <<[k |-> "line", n |-> line.n, kind |-> line.kind]>> \o line.text \o <<[k |-> "eol"]>>
LinesOf(doc) == [i \in DOMAIN doc.lines |-> TokensOf(doc.lines[i])]
BodyOf(doc) == FlattenSeq(LinesOf(doc))

\* A document's tokens are its header's and its lines'.
LEMMA TokensAre ==
  ASSUME NEW doc
  PROVE  StfTokens(doc) = HeaderTokens(doc) \o BodyOf(doc)
BY Zenon DEF StfTokens, HeaderTokens, BodyOf, LinesOf, TokensOf

\* The tokens a line may have, and a document's lines.
LineToken(token) == token.k \in TokenKinds /\ token.k # "header"
BodyTokens(doc) == UNION {ToSet(TokensOf(doc.lines[i])) : i \in DOMAIN doc.lines}

\* The tokens of a line: its start, its text and its end.
LEMMA LineTokensAre ==
  ASSUME NEW line, IsText(line.text)
  PROVE  /\ TokensOf(line) \in Seq(ToSet(TokensOf(line)))
         /\ \A t \in ToSet(TokensOf(line)) : LineToken(t)
         /\ Len(TokensOf(line)) = Len(line.text) + 2
         /\ \A i \in 1 .. Len(line.text) : TokensOf(line)[i + 1] = line.text[i]
         /\ TokensOf(line)[1] = [k |-> "line", n |-> line.n, kind |-> line.kind]
         /\ TokensOf(line)[Len(line.text) + 2] = [k |-> "eol"]
         /\ \A i \in 1 .. Len(line.text) : line.text[i].k # "eol"
         /\ Len(line.text) \in Nat
<1> DEFINE first == [k |-> "line", n |-> line.n, kind |-> line.kind]
           last == [k |-> "eol"]
           text == line.text
           U == ToSet(text) \cup {first, last}
           whole == <<first>> \o text \o <<last>>
<1>1. text \in Seq(ToSet(text)) /\ \A i \in DOMAIN text : text[i] \in Notes \/ text[i].k = "sym"
  BY DEF IsText
<1>2. first.k = "line" /\ last.k = "eol"
  OBVIOUS
<1>3. TokensOf(line) = whole
  BY DEF TokensOf
<1>4. \A i \in DOMAIN text : text[i].k \in {"note", "sym"}
  BY <1>1 DEF Notes
<1> HIDE DEF first, last, text
<1>5. /\ text \in Seq(U) /\ <<first>> \in Seq(U) /\ <<last>> \in Seq(U) /\ Len(text) \in Nat
      /\ Len(<<first>>) = 1 /\ Len(<<last>>) = 1 /\ <<first>>[1] = first /\ <<last>>[1] = last
      /\ DOMAIN text = 1 .. Len(text)
  BY <1>1 DEF ToSet
<1> HIDE DEF U
<1>6. /\ <<first>> \o text \in Seq(U) /\ Len(<<first>> \o text) = 1 + Len(text)
      /\ \A i \in 1 .. 1 + Len(text) :
           (<<first>> \o text)[i] = IF i <= 1 THEN first ELSE text[i - 1]
  BY <1>5
<1>7. /\ whole \in Seq(U) /\ Len(whole) = Len(text) + 2
      /\ \A i \in 1 .. Len(text) + 2 :
           whole[i] = IF i <= 1 THEN first ELSE IF i <= 1 + Len(text) THEN text[i - 1] ELSE last
  BY <1>5, <1>6
<1> HIDE DEF whole
<1>8. DOMAIN whole = 1 .. Len(text) + 2
  BY <1>7
<1>9. ToSet(whole) = {whole[i] : i \in 1 .. Len(text) + 2}
  BY <1>8 DEF ToSet
<1>10. whole \in Seq(ToSet(whole))
  BY <1>5, <1>7, <1>8, <1>9
<1>11. ASSUME NEW t \in ToSet(whole) PROVE LineToken(t)
  <2>1. PICK i \in 1 .. Len(text) + 2 : t = whole[i]
    BY <1>9
  <2>2. t.k \in {"note", "sym", "line", "eol"}
    <3>1. t = first \/ t = last \/ (i - 1 \in 1 .. Len(text) /\ t = text[i - 1])
      BY <1>5, <1>7, <2>1
    <3> QED
      BY <1>2, <1>4, <1>5, <3>1
  <2> QED
    BY <2>2 DEF LineToken, TokenKinds
<1>12. \A i \in 1 .. Len(text) : whole[i + 1] = text[i]
  BY <1>5, <1>7
<1>13. whole[1] = first /\ whole[Len(text) + 2] = last
  BY <1>5, <1>7
<1>14. \A i \in 1 .. Len(text) : text[i].k # "eol"
  BY <1>4, <1>5
<1> QED
  BY <1>3, <1>5, <1>7, <1>10, <1>11, <1>12, <1>13, <1>14 DEF first, last, text

\* A sequence of some things is one of more things.
LEMMA WiderSeq ==
  ASSUME NEW S, NEW T, S \subseteq T, NEW s \in Seq(S)
  PROVE  s \in Seq(T)
OBVIOUS

\* What two sequences joined are.
LEMMA JoinedAre ==
  ASSUME NEW A, NEW s \in Seq(A), NEW t \in Seq(A)
  PROVE  /\ s \o t \in Seq(A) /\ Len(s \o t) = Len(s) + Len(t) /\ Len(t) \in Nat
         /\ \A i \in 1 .. Len(s) : (s \o t)[i] = s[i]
         /\ \A i \in 1 .. Len(t) : (s \o t)[Len(s) + i] = t[i]
OBVIOUS

\* A document's lines, tokenized and joined.
LEMMA BodyIs ==
  ASSUME NEW doc, IsDoc(doc)
  PROVE  /\ \A t \in BodyTokens(doc) : LineToken(t)
         /\ LinesOf(doc) \in Seq(Seq(BodyTokens(doc)))
         /\ BodyOf(doc) \in Seq(BodyTokens(doc))
         /\ Len(LinesOf(doc)) = Len(doc.lines) /\ Len(doc.lines) \in Nat
         /\ \A i \in 1 .. Len(doc.lines) : /\ LinesOf(doc)[i] = TokensOf(doc.lines[i])
                                           /\ IsText(doc.lines[i].text)
<1> DEFINE n == Len(doc.lines)
<1>1. n \in Nat /\ DOMAIN doc.lines = 1 .. n
  BY DEF IsDoc
<1>2. \A i \in 1 .. n : IsText(doc.lines[i].text)
  BY <1>1 DEF IsDoc
<1>3. LinesOf(doc) = [i \in 1 .. n |-> TokensOf(doc.lines[i])]
  BY <1>1, Zenon DEF LinesOf
<1>4. BodyTokens(doc) = UNION {ToSet(TokensOf(doc.lines[i])) : i \in 1 .. n}
  BY <1>1, Zenon DEF BodyTokens
<1> HIDE DEF n
<1>5. ASSUME NEW i \in 1 .. n
      PROVE  /\ TokensOf(doc.lines[i]) \in Seq(BodyTokens(doc))
             /\ \A t \in ToSet(TokensOf(doc.lines[i])) : LineToken(t)
  <2>1. IsText(doc.lines[i].text)
    BY <1>2
  <2>2. /\ TokensOf(doc.lines[i]) \in Seq(ToSet(TokensOf(doc.lines[i])))
        /\ \A t \in ToSet(TokensOf(doc.lines[i])) : LineToken(t)
    BY <2>1, LineTokensAre, Zenon
  <2>3. ToSet(TokensOf(doc.lines[i])) \subseteq BodyTokens(doc)
    BY <1>4, Zenon
  <2>4. TokensOf(doc.lines[i]) \in Seq(BodyTokens(doc))
    <3> DEFINE S == ToSet(TokensOf(doc.lines[i]))
               T == BodyTokens(doc)
               s == TokensOf(doc.lines[i])
    <3>1. S \subseteq T /\ s \in Seq(S)
      BY <2>2, <2>3
    <3> HIDE DEF S, T, s
    <3>2. s \in Seq(T)
      BY <3>1, WiderSeq
    <3> QED
      BY <3>2 DEF s, T
  <2> QED
    BY <2>2, <2>4
<1>6. \A t \in BodyTokens(doc) : LineToken(t)
  BY <1>4, <1>5, Zenon
<1>7. LinesOf(doc) \in Seq(Seq(BodyTokens(doc))) /\ Len(LinesOf(doc)) = n
  <2>1. \A i \in 1 .. n : TokensOf(doc.lines[i]) \in Seq(BodyTokens(doc))
    BY <1>5
  <2> DEFINE f(i) == TokensOf(doc.lines[i])
             T == Seq(BodyTokens(doc))
  <2>2. \A i \in 1 .. n : f(i) \in T
    BY <2>1
  <2>3. LinesOf(doc) = [i \in 1 .. n |-> f(i)]
    BY <1>3
  <2> HIDE DEF f, T
  <2>4. LinesOf(doc) \in Seq(T) /\ Len(LinesOf(doc)) = n
    BY <1>1, <2>2, <2>3
  <2> QED
    BY <2>4 DEF T
<1>8. BodyOf(doc) \in Seq(BodyTokens(doc))
  BY <1>7, FlattenType DEF BodyOf
<1>9. \A i \in 1 .. n : LinesOf(doc)[i] = TokensOf(doc.lines[i])
  BY <1>3, Zenon
<1> QED
  BY <1>1, <1>2, <1>6, <1>7, <1>8, <1>9 DEF n

\* The tokens of a document, place by place.
AllTokens(doc) == ToSet(HeaderTokens(doc)) \cup BodyTokens(doc)
\* A header takes three places, and the lines the rest.
LEMMA DocTokensAre ==
  ASSUME NEW doc, IsDoc(doc)
  PROVE  /\ StfTokens(doc) \in Seq(AllTokens(doc))
         /\ \A t \in AllTokens(doc) : t.k \in TokenKinds
         /\ Len(StfTokens(doc)) = 3 + Len(BodyOf(doc)) /\ Len(BodyOf(doc)) \in Nat
         /\ \A i \in 1 .. 3 : StfTokens(doc)[i] = HeaderTokens(doc)[i]
         /\ \A i \in 1 .. Len(BodyOf(doc)) : /\ StfTokens(doc)[3 + i] = BodyOf(doc)[i]
                                            /\ LineToken(BodyOf(doc)[i])
<1> DEFINE head == HeaderTokens(doc)
           body == BodyOf(doc)
           A == AllTokens(doc)
<1>1. body \in Seq(BodyTokens(doc)) /\ \A t \in BodyTokens(doc) : LineToken(t)
  BY BodyIs
<1>2. /\ head \in Seq(ToSet(head)) /\ Len(head) = 3
      /\ \A t \in ToSet(head) : t.k = "header"
  BY DEF HeaderTokens, ToSet
<1>3. StfTokens(doc) = head \o body
  BY TokensAre
<1>4. \A t \in AllTokens(doc) : t.k \in TokenKinds
  BY <1>1, <1>2 DEF AllTokens, LineToken, TokenKinds
<1>5. ToSet(head) \subseteq A /\ BodyTokens(doc) \subseteq A
  BY Zenon DEF AllTokens
<1>6. head \in Seq(A) /\ body \in Seq(A)
  BY <1>1, <1>2, <1>5, WiderSeq, Zenon
<1>7. \A i \in 1 .. Len(body) : LineToken(body[i])
  BY <1>1
<1> HIDE DEF head, body, A
<1>8. /\ head \o body \in Seq(A) /\ Len(head \o body) = Len(head) + Len(body) /\ Len(body) \in Nat
      /\ \A i \in 1 .. Len(head) : (head \o body)[i] = head[i]
      /\ \A i \in 1 .. Len(body) : (head \o body)[Len(head) + i] = body[i]
  BY <1>6, JoinedAre
<1> QED
  BY <1>2, <1>3, <1>4, <1>7, <1>8 DEF head, body, A

\* Two documents' tokens are among the same ones.
LEMMA TokensOfTwo ==
  ASSUME NEW x, IsDoc(x), NEW y, IsDoc(y)
  PROVE  /\ StfTokens(x) \in Seq(AllTokens(x) \cup AllTokens(y))
         /\ StfTokens(y) \in Seq(AllTokens(x) \cup AllTokens(y))
         /\ \A t \in AllTokens(x) \cup AllTokens(y) : t.k \in TokenKinds
<1>1. /\ StfTokens(x) \in Seq(AllTokens(x)) /\ \A t \in AllTokens(x) : t.k \in TokenKinds
      /\ StfTokens(y) \in Seq(AllTokens(y)) /\ \A t \in AllTokens(y) : t.k \in TokenKinds
  BY DocTokensAre
<1>2. /\ AllTokens(x) \subseteq AllTokens(x) \cup AllTokens(y)
      /\ AllTokens(y) \subseteq AllTokens(x) \cup AllTokens(y)
  BY Zenon
<1>3. /\ StfTokens(x) \in Seq(AllTokens(x) \cup AllTokens(y))
      /\ StfTokens(y) \in Seq(AllTokens(x) \cup AllTokens(y))
  BY <1>1, <1>2, WiderSeq, Zenon
<1>4. \A t \in AllTokens(x) \cup AllTokens(y) : t.k \in TokenKinds
  BY <1>1, Zenon
<1> QED
  BY <1>3, <1>4

\* Documents of the same lines have the same tokens after their headers, whose
\* tokens stand at their own places alone.
LEMMA SameLinesSameAfter ==
  ASSUME NEW x, IsDoc(x), NEW y, IsDoc(y), x.lines = y.lines
  PROVE  SameAfter(StfTokens(x), StfTokens(y), 3)
<1> DEFINE a == StfTokens(x)
           b == StfTokens(y)
           n == Len(BodyOf(x))
<1>1. BodyOf(x) = BodyOf(y)
  BY Zenon DEF BodyOf, LinesOf
<1>2. /\ Len(a) = 3 + n /\ n \in Nat
      /\ \A i \in 1 .. 3 : a[i] = HeaderTokens(x)[i]
      /\ \A i \in 1 .. n : a[3 + i] = BodyOf(x)[i] /\ LineToken(BodyOf(x)[i])
  BY DocTokensAre
<1>3. /\ Len(b) = 3 + n
      /\ \A i \in 1 .. 3 : b[i] = HeaderTokens(y)[i]
      /\ \A i \in 1 .. n : b[3 + i] = BodyOf(x)[i]
  BY <1>1, DocTokensAre
<1>4. \A i, j \in 1 .. 3 : HeaderTokens(x)[i] = HeaderTokens(y)[j] => i = j
  BY DEF HeaderTokens
<1>5. \A i \in 1 .. 3 : HeaderTokens(x)[i].k = "header" /\ HeaderTokens(y)[i].k = "header"
  BY DEF HeaderTokens
<1>6. \A i \in 1 .. n : BodyOf(x)[i].k # "header"
  BY <1>2 DEF LineToken
<1> HIDE DEF a, b, n
<1>7. \A i \in 1 .. 3 + n : i > 3 => i - 3 \in 1 .. n /\ a[i] = BodyOf(x)[i - 3] /\ b[i] = BodyOf(x)[i - 3]
  <2> SUFFICES ASSUME NEW i \in 1 .. 3 + n, i > 3
               PROVE  i - 3 \in 1 .. n /\ a[i] = BodyOf(x)[i - 3] /\ b[i] = BodyOf(x)[i - 3]
    OBVIOUS
  <2>1. i - 3 \in 1 .. n /\ 3 + (i - 3) = i
    BY <1>2
  <2> QED
    BY <1>2, <1>3, <2>1
<1>8. ASSUME NEW i \in 1 .. 3 + n, NEW j \in 1 .. 3 + n, i <= 3 \/ j <= 3, a[i] = b[j]
      PROVE  i = j
  <2>1. CASE i <= 3 /\ j <= 3
    <3>1. i \in 1 .. 3 /\ j \in 1 .. 3
      BY <1>2, <2>1
    <3> QED
      BY <1>2, <1>3, <1>4, <1>8, <3>1
  <2>2. CASE i <= 3 /\ j > 3
    <3>1. i \in 1 .. 3 /\ a[i].k = "header"
      BY <1>2, <1>5, <2>2
    <3>2. b[j].k # "header"
      BY <1>6, <1>7, <2>2
    <3> QED
      BY <1>8, <3>1, <3>2
  <2>3. CASE i > 3 /\ j <= 3
    <3>1. j \in 1 .. 3 /\ b[j].k = "header"
      BY <1>2, <1>3, <1>5, <2>3
    <3>2. a[i].k # "header"
      BY <1>6, <1>7, <2>3
    <3> QED
      BY <1>8, <3>1, <3>2
  <2> QED
    BY <1>2, <1>8, <2>1, <2>2, <2>3
<1>9. \A i \in 3 + 1 .. 3 + n : a[i] = b[i]
  BY <1>2, <1>7
<1>10. SameAfter(a, b, 3)
  BY <1>2, <1>3, <1>8, <1>9 DEF SameAfter
<1> QED
  BY <1>10 DEF a, b

--------------------------------------------------------------------------------
(* Corrections, for every document. *)

\* What a summary counts.
LEMMA SummaryIs ==
  ASSUME NEW raw, NEW corrected
  PROVE  LET s == CorrectionSummary(raw, corrected)
             a == StfTokens(raw)
             b == StfTokens(corrected)
         IN  /\ s.changed = Cardinality(DOMAIN Edits(a, b))
             /\ s.correctedTokens = Len(b)
             /\ s.exact <=> a = b
             /\ s.categories = [c \in Categories |->
                                  Cardinality({e \in DOMAIN Edits(a, b) : c \in Edits(a, b)[e]})]
BY Zenon DEF CorrectionSummary

\* Every edit is charged to one class at least, unless it only reorders a note's
\* marks, and to three at most; a draft is exact when nothing was edited
\* (correction_summary, _attribute_replacement of learning.py).
THEOREM EditsAreCharged ==
  ASSUME NEW raw, IsDoc(raw), NEW corrected, IsDoc(corrected)
  PROVE  LET s == CorrectionSummary(raw, corrected)
             a == StfTokens(raw)
             b == StfTokens(corrected)
         IN  /\ SumFunction(s.categories) <= 3 * s.changed
             /\ s.exact <=> s.changed = 0
             /\ \/ \E i \in DOMAIN a, j \in DOMAIN b : OnlyReordered(a[i], b[j])
                \/ SumFunction(s.categories) >= s.changed
<1> DEFINE a == StfTokens(raw)
           b == StfTokens(corrected)
           A == AllTokens(raw) \cup AllTokens(corrected)
           s == CorrectionSummary(raw, corrected)
           E == DOMAIN Edits(a, b)
           charges == SumFunction([c \in Categories |-> Cardinality({e \in E : c \in Edits(a, b)[e]})])
<1>1. a \in Seq(A) /\ b \in Seq(A) /\ \A x \in A : x.k \in TokenKinds
  BY TokensOfTwo
<1>2. /\ s.changed = Cardinality(E) /\ (s.exact <=> a = b)
      /\ SumFunction(s.categories) = charges
  BY SummaryIs, Zenon
<1> HIDE DEF a, b, A, s
<1>3. /\ IsFiniteSet(E) /\ Cardinality(E) \in Nat
      /\ charges <= 3 * Cardinality(E)
      /\ \/ charges >= Cardinality(E)
         \/ \E i \in 1 .. Len(a), j \in 1 .. Len(b) : OnlyReordered(a[i], b[j])
  BY <1>1, ChargesCount
<1>4. E = {} <=> a = b
  BY <1>1, EditsTellTexts
<1> HIDE DEF E, charges
<1>5. Cardinality(E) = 0 <=> E = {}
  BY <1>3, FS_EmptySet
<1>6. DOMAIN a = 1 .. Len(a) /\ DOMAIN b = 1 .. Len(b)
  BY <1>1
<1>7. /\ SumFunction(s.categories) <= 3 * s.changed
      /\ s.exact <=> s.changed = 0
      /\ \/ \E i \in DOMAIN a, j \in DOMAIN b : OnlyReordered(a[i], b[j])
         \/ SumFunction(s.categories) >= s.changed
  BY <1>2, <1>3, <1>4, <1>5, <1>6
<1> QED
  BY <1>7 DEF a, b, s

\* A class that no correction is charged to reads the same before and after,
\* apart from plain letters and dots, which an accidental hides
\* (correction_summary of learning.py).
THEOREM UnchargedIsUntouched ==
  ASSUME NEW raw, IsDoc(raw), NEW corrected, IsDoc(corrected),
         NEW c \in Categories \ {"letter", "octave"},
         CorrectionSummary(raw, corrected).categories[c] = 0
  PROVE  OfClass(StfTokens(raw), c) = OfClass(StfTokens(corrected), c)
<1> DEFINE a == StfTokens(raw)
           b == StfTokens(corrected)
           A == AllTokens(raw) \cup AllTokens(corrected)
           E == DOMAIN Edits(a, b)
           its == {e \in E : c \in Edits(a, b)[e]}
<1>1. a \in Seq(A) /\ b \in Seq(A) /\ \A x \in A : x.k \in TokenKinds
  BY TokensOfTwo
<1>2. Cardinality(its) = 0
  <2>1. CorrectionSummary(raw, corrected).categories
          = [k \in Categories |-> Cardinality({e \in E : k \in Edits(a, b)[e]})]
    BY SummaryIs, Zenon
  <2> HIDE DEF E, a, b
  <2> QED
    BY <2>1
<1> HIDE DEF a, b, A
<1>3. E = EditPlaces(a, b) /\ IsFiniteSet(E)
  BY <1>1, EditsAre
<1> HIDE DEF E
<1>4. its = {}
  <2>1. IsFiniteSet(its)
    BY <1>3, FS_Subset
  <2> HIDE DEF its
  <2> QED
    BY <1>2, <2>1, FS_EmptySet
<1>5. \A e \in EditPlaces(a, b) : c \notin Edits(a, b)[e]
  BY <1>3, <1>4
<1>6. OfClass(a, c) = OfClass(b, c)
  BY <1>1, <1>5, UnchargedClassIsSame
<1> QED
  BY <1>6 DEF a, b

\* Documents are the same when their lines and header tokens are.
LEMMA IsDocParts ==
  ASSUME NEW x, IsDoc(x), NEW y, IsDoc(y)
  PROVE  /\ x.lines \in Seq(ToSet(x.lines)) /\ Len(x.lines) \in Nat /\ DOMAIN x.lines = 1 .. Len(x.lines)
         /\ x.lines = y.lines /\ (\A i \in 1 .. 3 : HeaderTokens(x)[i] = HeaderTokens(y)[i]) => x = y
<1>1. x.lines \in Seq(ToSet(x.lines)) /\ Len(x.lines) \in Nat /\ DOMAIN x.lines = 1 .. Len(x.lines)
  BY DEF IsDoc
<1>2. ASSUME x.lines = y.lines, \A i \in 1 .. 3 : HeaderTokens(x)[i] = HeaderTokens(y)[i]
      PROVE  x = y
  <2>1. /\ HeaderTokens(x)[1] = HeaderTokens(y)[1] /\ HeaderTokens(x)[2] = HeaderTokens(y)[2]
        /\ HeaderTokens(x)[3] = HeaderTokens(y)[3]
    BY <1>2
  <2>2. /\ x.header.concert = y.header.concert /\ x.header.alto = y.header.alto
        /\ x.header.beat = y.header.beat
    BY <2>1 DEF HeaderTokens
  <2>3. /\ x = [header |-> [concert |-> x.header.concert, alto |-> x.header.alto, beat |-> x.header.beat],
                lines |-> x.lines]
        /\ y = [header |-> [concert |-> y.header.concert, alto |-> y.header.alto, beat |-> y.header.beat],
                lines |-> y.lines]
    BY Zenon DEF IsDoc
  <2> QED
    BY <1>2, <2>2, <2>3, Zenon
<1> QED
  BY <1>1, <1>2

\* Sequences are the same where all places of the longer one are like in both.
LEMMA LikeSequences ==
  ASSUME NEW s, NEW t, s \in Seq(ToSet(s)), t \in Seq(ToSet(t))
  PROVE  Cardinality({i \in 1 .. Min({Len(s), Len(t)}) : s[i] = t[i]}) = Max({Len(s), Len(t)}) <=> s = t
<1> DEFINE n == Len(s)
           k == Len(t)
           low == Min({n, k})
           high == Max({n, k})
           like == {i \in 1 .. low : s[i] = t[i]}
<1>1. n \in Nat /\ k \in Nat
  OBVIOUS
<1>2. low = (IF n <= k THEN n ELSE k) /\ high = (IF n >= k THEN n ELSE k)
  <2> HIDE DEF n, k
  <2> QED
    BY <1>1, LeastOfTwo, GreatestOfTwo
<1>3. s = t <=> (n = k /\ \A i \in 1 .. n : s[i] = t[i])
  <2> DEFINE S == ToSet(s)
             T == ToSet(t)
  <2>1. s \in Seq(S) /\ t \in Seq(T)
    OBVIOUS
  <2> HIDE DEF S, T
  <2> QED
    BY <2>1
<1> HIDE DEF n, k, low, high
<1>4. /\ IsFiniteSet(1 .. low) /\ Cardinality(1 .. low) = low /\ low \in Nat /\ low <= high /\ high \in Nat
  <2>1. low \in Nat /\ low <= high /\ high \in Nat
    BY <1>1, <1>2
  <2>2. IsFiniteSet(1 .. low) /\ Cardinality(1 .. low) = IF 1 > low THEN 0 ELSE low - 1 + 1
    BY <2>1, FS_Interval
  <2> QED
    BY <2>1, <2>2
<1>5. /\ like \in SUBSET (1 .. low) /\ Cardinality(like) <= low /\ Cardinality(like) \in Nat
      /\ low = Cardinality(like) => like = 1 .. low
  <2>1. like \in SUBSET (1 .. low)
    OBVIOUS
  <2> HIDE DEF like
  <2> QED
    BY <1>4, <2>1, FS_Subset, FS_CardinalityType
<1>6. ASSUME Cardinality(like) = high PROVE s = t
  <2> HIDE DEF like
  <2>1. low = high /\ like = 1 .. low
    BY <1>4, <1>5, <1>6
  <2>2. n = k /\ low = n
    BY <1>1, <1>2, <2>1
  <2> USE DEF like
  <2>3. \A i \in 1 .. n : s[i] = t[i]
    BY <2>1, <2>2
  <2> QED
    BY <1>3, <2>2, <2>3
<1>7. ASSUME s = t PROVE Cardinality(like) = high
  <2>1. n = k /\ low = n /\ high = n
    BY <1>1, <1>2, <1>7 DEF n, k
  <2>2. like = 1 .. low
    BY <1>7
  <2> HIDE DEF like
  <2> QED
    BY <1>4, <2>1, <2>2
<1> QED
  BY <1>6, <1>7 DEF like, low, high, n, k

\* What the metrics of a candidate count.
LEMMA MetricsAre ==
  ASSUME NEW expected, NEW candidate
  PROVE  LET m == EvaluationMetrics(expected, candidate)
         IN  /\ m.summary = CorrectionSummary(candidate, expected)
             /\ m.rightTokens = Max({0, m.summary.correctedTokens - m.summary.changed})
             /\ m.rightLines = Cardinality({i \in 1 .. Min({Len(expected.lines), Len(candidate.lines)}) :
                                              expected.lines[i] = candidate.lines[i]})
             /\ m.lineCount = Max({Len(expected.lines), Len(candidate.lines)})
BY DEF EvaluationMetrics

\* A token is charged to the header only, where only headers are edited.
LEMMA HeaderEdits ==
  ASSUME NEW raw, IsDoc(raw), NEW corrected, IsDoc(corrected), raw.lines = corrected.lines,
         NEW c \in Categories \ {"header"}
  PROVE  CorrectionSummary(raw, corrected).categories[c] = 0
<1> DEFINE a == StfTokens(raw)
           b == StfTokens(corrected)
           A == AllTokens(raw) \cup AllTokens(corrected)
           E == DOMAIN Edits(a, b)
           its == {e \in E : c \in Edits(a, b)[e]}
<1>1. a \in Seq(A) /\ b \in Seq(A)
  BY TokensOfTwo
<1>2. SameAfter(a, b, 3)
  BY SameLinesSameAfter
<1>3. /\ \A i \in 1 .. 3 : a[i].k = "header" /\ b[i].k = "header"
      /\ \A i \in 1 .. 3 : ~IsNote(a[i]) /\ Category(a[i]) = "header" /\ Category(b[i]) = "header"
  <2>1. \A i \in 1 .. 3 : a[i] = HeaderTokens(raw)[i] /\ b[i] = HeaderTokens(corrected)[i]
    BY DocTokensAre
  <2>2. \A i \in 1 .. 3 : HeaderTokens(raw)[i].k = "header" /\ HeaderTokens(corrected)[i].k = "header"
    BY DEF HeaderTokens
  <2>3. \A i \in 1 .. 3 : a[i].k = "header" /\ b[i].k = "header"
    BY <2>1, <2>2
  <2> HIDE DEF a, b
  <2>4. \A i \in 1 .. 3 : Category(a[i]) = "header" /\ Category(b[i]) = "header" /\ ~IsNote(a[i])
    BY <2>3, CategoryIs DEF TokenKinds, IsNote
  <2> QED
    BY <2>3, <2>4
<1>4. CorrectionSummary(raw, corrected).categories[c] = Cardinality(its)
  <2>1. CorrectionSummary(raw, corrected).categories
          = [k \in Categories |-> Cardinality({e \in E : k \in Edits(a, b)[e]})]
    BY SummaryIs, Zenon
  <2> HIDE DEF E, a, b
  <2> QED
    BY <2>1
<1> HIDE DEF a, b, A
<1>5. ASSUME NEW e \in E PROVE c \notin Edits(a, b)[e]
  <2> DEFINE p == e[1]
             q == After(Ends(a, b), p)
  <2>1. /\ p[1] = p[2] /\ q[1] = q[2] /\ p[1] \in Nat /\ e[2] \in Nat \ {0}
        /\ e[2] < q[1] - p[1] /\ p[1] + e[2] <= 3
    BY <1>1, <1>2, EditsInHead, Zenon
  <2>2. Edits(a, b)[e] = Charge(a, b, p, q, e[2])
    BY <1>1, EditsAre
  <2> HIDE DEF p, q, E
  <2>3. Charge(a, b, p, q, e[2]) = AttributeReplacement(a[p[1] + e[2]], b[p[1] + e[2]])
    <3>1. e[2] < q[1] - p[1] /\ e[2] < q[2] - p[2]
      BY <2>1
    <3> QED
      BY <2>1, <3>1, Zenon DEF Charge
  <2> DEFINE i == p[1] + e[2]
  <2>4. i \in 1 .. 3
    BY <2>1
  <2> HIDE DEF i
  <2>5. AttributeReplacement(a[i], b[i]) = {"header"}
    BY <1>3, <2>4 DEF AttributeReplacement
  <2> QED
    BY <2>2, <2>3, <2>5 DEF i
<1>6. its = {}
  <2> HIDE DEF E
  <2> QED
    BY <1>5
<1> QED
  BY <1>4, <1>6, FS_EmptySet

\* The two accuracies are perfect together exactly when nothing was corrected, and
\* right lines alone leave only the header to correct (evaluation_metrics of
\* learning.py).
THEOREM PerfectMeansUncorrected ==
  ASSUME NEW expected, IsDoc(expected), NEW candidate, IsDoc(candidate)
  PROVE  LET m == EvaluationMetrics(expected, candidate)
         IN  /\ m.rightTokens = m.summary.correctedTokens /\ m.rightLines = m.lineCount
                  <=> expected = candidate
             /\ m.rightLines = m.lineCount =>
                  \A c \in Categories \ {"header"} : m.summary.categories[c] = 0
<1> DEFINE m == EvaluationMetrics(expected, candidate)
           a == StfTokens(candidate)
           b == StfTokens(expected)
           A == AllTokens(candidate) \cup AllTokens(expected)
           n == Len(b)
           changed == Cardinality(DOMAIN Edits(a, b))
<1>1. a \in Seq(A) /\ b \in Seq(A)
  BY TokensOfTwo
<1>2. /\ m.summary = CorrectionSummary(candidate, expected)
      /\ m.rightTokens = Max({0, m.summary.correctedTokens - m.summary.changed})
      /\ m.rightLines = Cardinality({i \in 1 .. Min({Len(expected.lines), Len(candidate.lines)}) :
                                       expected.lines[i] = candidate.lines[i]})
      /\ m.lineCount = Max({Len(expected.lines), Len(candidate.lines)})
  BY MetricsAre, Zenon
<1>3. CorrectionSummary(candidate, expected).changed = changed
      /\ CorrectionSummary(candidate, expected).correctedTokens = n
  BY SummaryIs, Zenon
<1>4. m.rightLines = m.lineCount <=> expected.lines = candidate.lines
  <2>1. expected.lines \in Seq(ToSet(expected.lines)) /\ candidate.lines \in Seq(ToSet(candidate.lines))
    BY IsDocParts
  <2> HIDE DEF m
  <2>2. Cardinality({i \in 1 .. Min({Len(expected.lines), Len(candidate.lines)}) :
                       expected.lines[i] = candidate.lines[i]})
          = Max({Len(expected.lines), Len(candidate.lines)}) <=> expected.lines = candidate.lines
    BY <2>1, LikeSequences, Zenon
  <2> QED
    BY <1>2, <2>2, Zenon
<1>5. n \in Nat /\ n >= 3
  <2>1. n = 3 + Len(BodyOf(expected)) /\ Len(BodyOf(expected)) \in Nat
    BY DocTokensAre
  <2> HIDE DEF n
  <2> QED
    BY <2>1
<1>6. changed \in Nat /\ (changed = 0 <=> a = b)
  <2> HIDE DEF a, b, A
  <2>1. IsFiniteSet(DOMAIN Edits(a, b)) /\ (DOMAIN Edits(a, b) = {} <=> a = b)
    BY <1>1, EditsAre, EditsTellTexts
  <2> QED
    BY <2>1, FS_EmptySet, FS_CardinalityType
<1>7. m.rightTokens = m.summary.correctedTokens <=> a = b
  <2>1. m.rightTokens = Max({0, n - changed}) /\ m.summary.correctedTokens = n
    BY <1>2, <1>3
  <2> HIDE DEF m, n, changed, a, b
  <2>2. Max({0, n - changed}) = IF 0 >= n - changed THEN 0 ELSE n - changed
    BY <1>5, <1>6, GreatestOfTwo
  <2> QED
    BY <1>5, <1>6, <2>1, <2>2
<1>8. ASSUME m.rightTokens = m.summary.correctedTokens, m.rightLines = m.lineCount
      PROVE  expected = candidate
  <2>1. a = b
    BY <1>7, <1>8
  <2>2. expected.lines = candidate.lines
    BY <1>4, <1>8
  <2>3. \A i \in 1 .. 3 : HeaderTokens(expected)[i] = HeaderTokens(candidate)[i]
    BY <2>1, DocTokensAre
  <2> QED
    BY <2>2, <2>3, IsDocParts
<1>9. ASSUME m.rightLines = m.lineCount, NEW c \in Categories \ {"header"}
      PROVE  m.summary.categories[c] = 0
  <2>1. candidate.lines = expected.lines
    BY <1>4, <1>9
  <2>2. CorrectionSummary(candidate, expected).categories[c] = 0
    BY <2>1, HeaderEdits
  <2> QED
    BY <1>2, <2>2
<1>10. expected = candidate => a = b /\ expected.lines = candidate.lines
  OBVIOUS
<1> HIDE DEF m, a, b
<1>11. /\ m.rightTokens = m.summary.correctedTokens /\ m.rightLines = m.lineCount
            <=> expected = candidate
       /\ m.rightLines = m.lineCount =>
            \A c \in Categories \ {"header"} : m.summary.categories[c] = 0
  BY <1>4, <1>7, <1>8, <1>9, <1>10
<1> QED
  BY <1>11 DEF m

--------------------------------------------------------------------------------
(* The corrections, as an invariant. *)

\* A correction is charged to the classes it touched and to no other, and an
\* untouched draft is exact (learning.py): for all documents they are called on.
THEOREM CorrectionsAreAlwaysCharged == Spec => []CorrectionsAreCharged
<1> SUFFICES ASSUME CallsRan PROVE CorrectionsAreCharged
  BY CallsRun, PTL
<1> SUFFICES ASSUME Ran("metrics") PROVE CorrectionsAreCharged
  BY DEF CorrectionsAreCharged, UnchargedClassUntouched, EveryEditIsCharged, PerfectIsUncorrected
<1> DEFINE expected == call.in.expected
           candidate == call.in.candidate
           m == EvaluationMetrics(expected, candidate)
           s == CorrectionSummary(candidate, expected)
<1>1. call.in \in Inputs["metrics"] /\ call.out = m
  BY RanIs DEF Answer
<1>2. IsDoc(expected) /\ IsDoc(candidate)
  BY <1>1, MetricsAssumption
<1>3. m.summary = s
  BY MetricsAre, Zenon
<1> HIDE DEF m, s
<1>4. UnchargedClassUntouched
  <2>1. \A c \in Categories \ {"letter", "octave"} :
          s.categories[c] = 0 => OfClass(StfTokens(candidate), c) = OfClass(StfTokens(expected), c)
    BY <1>2, UnchargedIsUntouched DEF s
  <2> QED
    BY <1>1, <1>3, <2>1, Zenon DEF UnchargedClassUntouched
<1>5. EveryEditIsCharged
  <2>1. /\ SumFunction(s.categories) <= 3 * s.changed
        /\ s.exact <=> s.changed = 0
        /\ \/ \E i \in DOMAIN StfTokens(candidate), j \in DOMAIN StfTokens(expected) :
                OnlyReordered(StfTokens(candidate)[i], StfTokens(expected)[j])
           \/ SumFunction(s.categories) >= s.changed
    BY <1>2, EditsAreCharged DEF s
  <2> QED
    BY <1>1, <1>3, <2>1, Zenon DEF EveryEditIsCharged
<1>6. PerfectIsUncorrected
  <2>1. /\ m.rightTokens = m.summary.correctedTokens /\ m.rightLines = m.lineCount
              <=> expected = candidate
        /\ m.rightLines = m.lineCount =>
             \A c \in Categories \ {"header"} : m.summary.categories[c] = 0
    BY <1>2, PerfectMeansUncorrected DEF m
  <2> QED
    BY <1>1, <2>1, Zenon DEF PerfectIsUncorrected
<1> QED
  BY <1>4, <1>5, <1>6 DEF CorrectionsAreCharged

--------------------------------------------------------------------------------
(* Documents told by their tokens. *)

\* Where a sequence stands among the joined ones.
StartOf(s, i) == IF i = 1 THEN 0 ELSE Len(Flattened(s)[i - 1])

\* A joined sequence holds each of its sequences, one after the other.
LEMMA PiecesAre ==
  ASSUME NEW T, NEW s \in Seq(Seq(T)), NEW i \in 1 .. Len(s)
  PROVE  /\ StartOf(s, i) \in Nat /\ Len(s[i]) \in Nat /\ Len(FlattenSeq(s)) \in Nat
         /\ i < Len(s) => StartOf(s, i + 1) = StartOf(s, i) + Len(s[i])
         /\ i = Len(s) => StartOf(s, i) + Len(s[i]) = Len(FlattenSeq(s))
         /\ StartOf(s, i) + Len(s[i]) <= Len(FlattenSeq(s))
         /\ \A j \in 1 .. Len(s[i]) : FlattenSeq(s)[StartOf(s, i) + j] = s[i][j]
<1> DEFINE g == Flattened(s)
           n == Len(s)
           st == StartOf(s, i)
           l == Len(s[i])
           Holds(m) == /\ g[m] \in Seq(T) /\ Len(g[m]) >= st + l
                       /\ \A j \in 1 .. l : g[m][st + j] = s[i][j]
           bad == {m \in 1 .. n : m >= i /\ ~Holds(m)}
<1>1. \A m \in 1 .. n : g[m] = IF m = 1 THEN s[m] ELSE g[m - 1] \o s[m]
  <2>1. Flattens(s, n, g)
    BY FlattensExist
  <2> HIDE DEF g
  <2> QED
    BY <2>1, Zenon DEF Flattens
<1>2. \A m \in 1 .. n : s[m] \in Seq(T)
  OBVIOUS
<1>3. n \in Nat /\ i \in 1 .. n /\ n # 0
  OBVIOUS
<1>4. FlattenSeq(s) = g[n]
  BY <1>3, FlattenIsRecursive
<1>5. \A m \in 1 .. n : g[m] \in Seq(T)
  <2> DEFINE worse == {m \in 1 .. n : g[m] \notin Seq(T)}
  <2> HIDE DEF g, n
  <2>1. ASSUME worse # {} PROVE FALSE
    <3>1. worse \subseteq Nat /\ worse # {}
      BY <2>1
    <3> HIDE DEF worse
    <3>2. PICK m \in worse : \A k \in worse : m <= k
      BY <3>1, LeastNatural
    <3>3. m \in 1 .. n /\ g[m] \notin Seq(T)
      BY DEF worse
    <3>4. m # 1
      BY <1>1, <1>2, <3>3
    <3>5. m - 1 \in 1 .. n /\ ~(m <= m - 1)
      BY <1>3, <3>3, <3>4
    <3>6. g[m - 1] \in Seq(T)
      BY <3>2, <3>5 DEF worse
    <3>7. g[m] = g[m - 1] \o s[m] /\ s[m] \in Seq(T)
      BY <1>1, <1>2, <3>3, <3>4
    <3>8. g[m - 1] \o s[m] \in Seq(T)
      BY <3>6, <3>7, JoinedAre
    <3> QED
      BY <3>3, <3>7, <3>8
  <2> QED
    BY <2>1
<1>6. st = IF i = 1 THEN 0 ELSE Len(g[i - 1])
  BY Zenon DEF StartOf
<1>7. st \in Nat /\ l \in Nat
  <2>1. i # 1 => i - 1 \in 1 .. n
    BY <1>3
  <2> HIDE DEF g, n, st
  <2> QED
    BY <1>2, <1>3, <1>5, <1>6, <2>1
<1> HIDE DEF g, n, st, l
<1>8. Len(g[i]) = st + l /\ Holds(i)
  <2>1. CASE i = 1
    <3>1. g[i] = s[i] /\ st = 0
      BY <1>1, <1>3, <1>6, <2>1
    <3> QED
      BY <1>2, <1>3, <1>7, <3>1 DEF l
  <2>2. CASE i # 1
    <3>0. i - 1 \in 1 .. n
      BY <1>3, <2>2
    <3>1. g[i] = g[i - 1] \o s[i] /\ st = Len(g[i - 1]) /\ i - 1 \in 1 .. n
      BY <1>1, <1>3, <1>6, <2>2, <3>0, Zenon
    <3>2. g[i - 1] \in Seq(T) /\ s[i] \in Seq(T) /\ g[i] \in Seq(T)
      BY <1>2, <1>3, <1>5, <3>1
    <3>3. /\ Len(g[i]) = Len(g[i - 1]) + Len(s[i])
          /\ \A j \in 1 .. Len(s[i]) : g[i][Len(g[i - 1]) + j] = s[i][j]
      <4> DEFINE u == g[i - 1]
                 v == s[i]
      <4>1. u \in Seq(T) /\ v \in Seq(T) /\ g[i] = u \o v
        BY <3>1, <3>2
      <4> HIDE DEF u, v
      <4>2. Len(u \o v) = Len(u) + Len(v) /\ \A j \in 1 .. Len(v) : (u \o v)[Len(u) + j] = v[j]
        BY <4>1, JoinedAre
      <4>3. Len(g[i]) = Len(u) + Len(v) /\ \A j \in 1 .. Len(v) : g[i][Len(u) + j] = v[j]
        BY <4>1, <4>2
      <4> QED
        BY <4>3 DEF u, v
    <3>4. Len(g[i]) = st + l /\ \A j \in 1 .. l : g[i][st + j] = s[i][j]
      BY <3>1, <3>3 DEF l
    <3>5. Len(g[i]) >= st + l
      BY <1>7, <3>4
    <3> QED
      BY <3>2, <3>4, <3>5
  <2> QED
    BY <2>1, <2>2
<1>9. ASSUME bad # {} PROVE FALSE
  <2>1. bad \subseteq Nat /\ bad # {}
    BY <1>9
  <2> HIDE DEF bad
  <2>2. PICK m \in bad : \A k \in bad : m <= k
    BY <2>1, LeastNatural
  <2>3. m \in 1 .. n /\ m >= i /\ ~Holds(m)
    BY DEF bad
  <2>4. m # i
    BY <1>8, <2>3
  <2>5. m - 1 \in 1 .. n /\ m - 1 >= i /\ ~(m <= m - 1) /\ m # 1
    BY <1>3, <2>3, <2>4
  <2>6. Holds(m - 1)
    <3> HIDE DEF Holds
    <3> QED
      BY <2>2, <2>5 DEF bad
  <2>7. g[m] = g[m - 1] \o s[m] /\ s[m] \in Seq(T) /\ g[m] \in Seq(T)
    BY <1>1, <1>2, <1>5, <2>3, <2>5
  <2>8. /\ g[m - 1] \in Seq(T)
        /\ Len(g[m]) = Len(g[m - 1]) + Len(s[m]) /\ Len(s[m]) \in Nat /\ Len(g[m - 1]) \in Nat
        /\ \A j \in 1 .. Len(g[m - 1]) : g[m][j] = g[m - 1][j]
    <3> DEFINE u == g[m - 1]
               v == s[m]
    <3>1. u \in Seq(T) /\ v \in Seq(T) /\ g[m] = u \o v
      BY <2>6, <2>7
    <3> HIDE DEF u, v
    <3>2. /\ Len(u \o v) = Len(u) + Len(v) /\ Len(v) \in Nat /\ Len(u) \in Nat
          /\ \A j \in 1 .. Len(u) : (u \o v)[j] = u[j]
      BY <3>1, JoinedAre
    <3>3. /\ u \in Seq(T)
          /\ Len(g[m]) = Len(u) + Len(v) /\ Len(v) \in Nat /\ Len(u) \in Nat
          /\ \A j \in 1 .. Len(u) : g[m][j] = u[j]
      BY <3>1, <3>2
    <3> QED
      BY <3>3 DEF u, v
  <2>9. Len(g[m]) >= st + l /\ \A j \in 1 .. l : st + j \in 1 .. Len(g[m - 1])
    <3> DEFINE k == Len(g[m - 1])
    <3>1. k \in Nat /\ k >= st + l
      BY <2>6, <2>8
    <3>2. Len(g[m]) = k + Len(s[m]) /\ Len(s[m]) \in Nat
      BY <2>8
    <3> HIDE DEF k
    <3>3. Len(g[m]) >= st + l /\ \A j \in 1 .. l : st + j \in 1 .. k
      BY <1>7, <3>1, <3>2
    <3> QED
      BY <3>3 DEF k
  <2>10. \A j \in 1 .. l : g[m][st + j] = s[i][j]
    BY <2>6, <2>8, <2>9
  <2> QED
    BY <2>3, <2>7, <2>9, <2>10
<1>10. Holds(n)
  <2>1. n \in 1 .. n /\ n >= i
    BY <1>3
  <2> HIDE DEF Holds
  <2> QED
    BY <1>9, <2>1
<1>11. i < n => StartOf(s, i + 1) = Len(g[i])
  <2>1. i + 1 # 1 /\ (i + 1) - 1 = i
    BY <1>3
  <2> QED
    BY <2>1, Zenon DEF StartOf, g
<1>12. Len(FlattenSeq(s)) \in Nat /\ Len(FlattenSeq(s)) >= st + l
       /\ \A j \in 1 .. l : FlattenSeq(s)[st + j] = s[i][j]
  BY <1>4, <1>10
<1>13. i = n => st + l = Len(FlattenSeq(s))
  BY <1>4, <1>8
<1>14. st + l <= Len(FlattenSeq(s))
  BY <1>7, <1>12
<1> QED
  BY <1>7, <1>8, <1>11, <1>12, <1>13, <1>14 DEF st, l, n

\* The tokens of a line end at their first line end, so what begins alike in two
\* texts is one line.
LEMMA LineEndsOnce ==
  ASSUME NEW line, IsText(line.text), NEW other, IsText(other.text),
         Len(TokensOf(line)) < Len(TokensOf(other))
  PROVE  \E j \in 1 .. Len(TokensOf(line)) : TokensOf(line)[j] # TokensOf(other)[j]
<1> DEFINE u == Len(line.text)
           v == Len(other.text)
<1>1. /\ Len(TokensOf(line)) = u + 2 /\ TokensOf(line)[u + 2] = [k |-> "eol"] /\ u \in Nat
  BY LineTokensAre
<1>2. /\ Len(TokensOf(other)) = v + 2 /\ v \in Nat
      /\ \A i \in 1 .. v : TokensOf(other)[i + 1] = other.text[i] /\ other.text[i].k # "eol"
  BY LineTokensAre
<1> HIDE DEF u, v
<1>3. u + 1 \in 1 .. v /\ (u + 1) + 1 = u + 2 /\ u + 2 \in 1 .. Len(TokensOf(line))
  BY <1>1, <1>2
<1>4. TokensOf(other)[u + 2].k # "eol"
  BY <1>2, <1>3
<1> QED
  BY <1>1, <1>3, <1>4

\* A line is told by its tokens.
IsLine(line) == line = [n |-> line.n, kind |-> line.kind, text |-> line.text] /\ IsText(line.text)
\* Lines with the same tokens are the same.
LEMMA TokensTellLine ==
  ASSUME NEW line, IsLine(line), NEW other, IsLine(other),
         Len(TokensOf(line)) = Len(TokensOf(other)),
         \A j \in 1 .. Len(TokensOf(line)) : TokensOf(line)[j] = TokensOf(other)[j]
  PROVE  line = other
<1> DEFINE u == Len(line.text)
           v == Len(other.text)
<1>1. /\ Len(TokensOf(line)) = u + 2 /\ u \in Nat
      /\ TokensOf(line)[1] = [k |-> "line", n |-> line.n, kind |-> line.kind]
      /\ \A i \in 1 .. u : TokensOf(line)[i + 1] = line.text[i]
  BY LineTokensAre DEF IsLine
<1>2. /\ Len(TokensOf(other)) = v + 2 /\ v \in Nat
      /\ TokensOf(other)[1] = [k |-> "line", n |-> other.n, kind |-> other.kind]
      /\ \A i \in 1 .. v : TokensOf(other)[i + 1] = other.text[i]
  BY LineTokensAre DEF IsLine
<1> HIDE DEF u, v
<1>3. u = v /\ 1 \in 1 .. u + 2 /\ \A i \in 1 .. u : i + 1 \in 1 .. u + 2
  <2>1. u \in Nat /\ v \in Nat /\ u + 2 = v + 2
    BY <1>1, <1>2
  <2> QED
    BY <2>1
<1>4. \A i \in 1 .. u : line.text[i] = other.text[i]
  BY <1>1, <1>2, <1>3
<1>5. line.n = other.n /\ line.kind = other.kind
  BY <1>1, <1>2, <1>3
<1>6. line.text = other.text
  <2> DEFINE S == ToSet(line.text)
             T == ToSet(other.text)
             s == line.text
             t == other.text
  <2>1. s \in Seq(S) /\ t \in Seq(T)
    BY DEF IsLine, IsText
  <2>2. Len(s) = Len(t) /\ \A i \in 1 .. Len(s) : s[i] = t[i]
    BY <1>3, <1>4 DEF u, v
  <2> HIDE DEF S, T, s, t
  <2>3. s = t
    BY <2>1, <2>2
  <2> QED
    BY <2>3 DEF s, t
<1> QED
  BY <1>5, <1>6, Zenon DEF IsLine

\* Documents of the same tokens after the header have the same lines, as far as
\* the first of them goes.
LEMMA BodyTellsLines ==
  ASSUME NEW x, IsDoc(x), NEW y, IsDoc(y), BodyOf(x) = BodyOf(y)
  PROVE  Len(x.lines) <= Len(y.lines) /\ \A i \in 1 .. Len(x.lines) : x.lines[i] = y.lines[i]
<1> DEFINE s == LinesOf(x)
           t == LinesOf(y)
           n == Len(x.lines)
           k == Len(y.lines)
           F == FlattenSeq(s)
<1>1. /\ s \in Seq(Seq(BodyTokens(x))) /\ Len(s) = n /\ n \in Nat
      /\ \A i \in 1 .. n : s[i] = TokensOf(x.lines[i])
  BY BodyIs
<1>2. /\ t \in Seq(Seq(BodyTokens(y))) /\ Len(t) = k /\ k \in Nat
      /\ \A i \in 1 .. k : t[i] = TokensOf(y.lines[i])
  BY BodyIs
<1>3. F = FlattenSeq(t)
  BY Zenon DEF BodyOf
<1>4. /\ \A i \in 1 .. n : IsLine(x.lines[i]) /\ Len(s[i]) >= 2
      /\ \A i \in 1 .. k : IsLine(y.lines[i]) /\ Len(t[i]) >= 2
  <2>1. DOMAIN x.lines = 1 .. n /\ DOMAIN y.lines = 1 .. k
    BY IsDocParts
  <2>2. /\ \A i \in 1 .. n : IsLine(x.lines[i])
        /\ \A i \in 1 .. k : IsLine(y.lines[i])
    BY <2>1 DEF IsDoc, IsLine
  <2>3. \A line : IsLine(line) => Len(TokensOf(line)) >= 2
    <3> SUFFICES ASSUME NEW line, IsLine(line) PROVE Len(TokensOf(line)) >= 2
      OBVIOUS
    <3>1. Len(TokensOf(line)) = Len(line.text) + 2 /\ Len(line.text) \in Nat
      BY LineTokensAre DEF IsLine
    <3> QED
      BY <3>1
  <2> HIDE DEF s, t, n, k
  <2> QED
    BY <1>1, <1>2, <2>2, <2>3
<1>5. \A i \in 1 .. n :
        /\ StartOf(s, i) \in Nat /\ Len(s[i]) \in Nat
        /\ i < n => StartOf(s, i + 1) = StartOf(s, i) + Len(s[i])
        /\ StartOf(s, i) + Len(s[i]) <= Len(F)
        /\ \A j \in 1 .. Len(s[i]) : F[StartOf(s, i) + j] = s[i][j]
  <2> HIDE DEF s, n
  <2> QED
    BY <1>1, PiecesAre DEF F
<1>6. \A i \in 1 .. k :
        /\ StartOf(t, i) \in Nat /\ Len(t[i]) \in Nat
        /\ i < k => StartOf(t, i + 1) = StartOf(t, i) + Len(t[i])
        /\ i = k => StartOf(t, i) + Len(t[i]) = Len(F)
        /\ \A j \in 1 .. Len(t[i]) : F[StartOf(t, i) + j] = t[i][j]
  <2> HIDE DEF s, t, k, F
  <2>1. \A i \in 1 .. Len(t) :
          /\ StartOf(t, i) \in Nat /\ Len(t[i]) \in Nat
          /\ i < Len(t) => StartOf(t, i + 1) = StartOf(t, i) + Len(t[i])
          /\ i = Len(t) => StartOf(t, i) + Len(t[i]) = Len(FlattenSeq(t))
          /\ \A j \in 1 .. Len(t[i]) : FlattenSeq(t)[StartOf(t, i) + j] = t[i][j]
    BY <1>2, PiecesAre
  <2> QED
    BY <1>2, <1>3, <2>1
<1>7. k = 0 => Len(F) = 0
  <2>1. ASSUME k = 0 PROVE FlattenSeq(t) = t /\ Len(t) = 0
    BY <1>2, <2>1, FlattenIsRecursive
  <2> QED
    BY <1>3, <2>1
<1>a. StartOf(s, 1) = 0 /\ StartOf(t, 1) = 0
  BY DEF StartOf
<1>b. Len(F) \in Nat
  <2>1. F = BodyOf(x)
    BY DEF BodyOf
  <2>2. BodyOf(x) \in Seq(BodyTokens(x))
    BY BodyIs
  <2> QED
    BY <2>1, <2>2
<1> HIDE DEF s, t, n, k, F
<1> DEFINE Good(i) == i \in 1 .. k /\ StartOf(s, i) = StartOf(t, i) /\ x.lines[i] = y.lines[i]
           bad == {i \in 1 .. n : ~Good(i)}
<1>8. ASSUME bad # {} PROVE FALSE
  <2>1. bad \subseteq Nat /\ bad # {}
    BY <1>8
  <2> HIDE DEF bad
  <2>2. PICK i \in bad : \A m \in bad : i <= m
    BY <2>1, LeastNatural
  <2>3. i \in 1 .. n /\ ~Good(i)
    BY DEF bad
  <2>4. i \in 1 .. k /\ StartOf(s, i) = StartOf(t, i)
    <3>1. CASE i = 1
      <4>1. k # 0
        BY <1>4, <1>5, <1>7, <1>a, <1>b, <2>3, <3>1
      <4> QED
        BY <1>2, <1>a, <3>1, <4>1
    <3>2. CASE i # 1
      <4>1. i - 1 \in 1 .. n /\ ~(i <= i - 1) /\ i - 1 < n /\ (i - 1) + 1 = i
        BY <1>1, <2>3, <3>2
      <4>2. Good(i - 1)
        <5> HIDE DEF Good
        <5> QED
          BY <2>2, <4>1 DEF bad
      <4>3. s[i - 1] = t[i - 1]
        BY <1>1, <1>2, <4>1, <4>2
      <4>4. StartOf(s, i) = StartOf(s, i - 1) + Len(s[i - 1])
        BY <1>5, <4>1
      <4>5. StartOf(s, i) + Len(s[i]) <= Len(F) /\ Len(s[i]) >= 2 /\ StartOf(s, i) \in Nat /\ Len(s[i]) \in Nat
        BY <1>4, <1>5, <2>3
      <4>6. i - 1 # k
        <5>1. i - 1 = k => StartOf(t, i - 1) + Len(t[i - 1]) = Len(F)
          BY <1>6, <4>2
        <5>2. i - 1 = k => StartOf(s, i) = Len(F)
          BY <4>2, <4>3, <4>4, <5>1
        <5> QED
          BY <1>b, <4>5, <5>2
      <4>7. i - 1 < k /\ i \in 1 .. k
        BY <1>2, <4>1, <4>2, <4>6
      <4>8. StartOf(t, i) = StartOf(t, i - 1) + Len(t[i - 1])
        BY <1>6, <4>1, <4>2, <4>7
      <4> QED
        BY <4>2, <4>3, <4>4, <4>7, <4>8
    <3> QED
      BY <3>1, <3>2
  <2> DEFINE line == x.lines[i]
             other == y.lines[i]
  <2>5. IsLine(line) /\ IsLine(other) /\ s[i] = TokensOf(line) /\ t[i] = TokensOf(other)
    BY <1>1, <1>2, <1>4, <2>3, <2>4
  <2>6. /\ \A j \in 1 .. Len(s[i]) : F[StartOf(s, i) + j] = s[i][j]
        /\ \A j \in 1 .. Len(t[i]) : F[StartOf(s, i) + j] = t[i][j]
        /\ Len(s[i]) \in Nat /\ Len(t[i]) \in Nat
    BY <1>5, <1>6, <2>3, <2>4
  <2> HIDE DEF line, other
  <2>7. \A j \in 1 .. Len(s[i]) : j <= Len(t[i]) => s[i][j] = t[i][j]
    BY <2>6
  <2>8. ~(Len(s[i]) < Len(t[i]))
    <3>1. ASSUME Len(s[i]) < Len(t[i]) PROVE FALSE
      <4>1. \E j \in 1 .. Len(s[i]) : s[i][j] # t[i][j]
        BY <2>5, <3>1, LineEndsOnce DEF IsLine
      <4>2. \A j \in 1 .. Len(s[i]) : j <= Len(t[i])
        BY <2>6, <3>1
      <4> QED
        BY <2>7, <4>1, <4>2
    <3> QED
      BY <3>1
  <2>9. ~(Len(t[i]) < Len(s[i]))
    <3>1. ASSUME Len(t[i]) < Len(s[i]) PROVE FALSE
      <4>1. \E j \in 1 .. Len(t[i]) : t[i][j] # s[i][j]
        BY <2>5, <3>1, LineEndsOnce DEF IsLine
      <4>2. \A j \in 1 .. Len(t[i]) : j \in 1 .. Len(s[i]) /\ j <= Len(t[i])
        BY <2>6, <3>1
      <4> QED
        BY <2>7, <4>1, <4>2
    <3> QED
      BY <3>1
  <2>10. Len(s[i]) = Len(t[i]) /\ \A j \in 1 .. Len(s[i]) : s[i][j] = t[i][j]
    BY <2>6, <2>7, <2>8, <2>9
  <2>11. line = other
    BY <2>5, <2>10, TokensTellLine
  <2> QED
    BY <2>3, <2>4, <2>11 DEF line, other
<1>9. \A i \in 1 .. n : Good(i)
  BY <1>8
<1>10. n <= k
  <2>1. n # 0 => n \in 1 .. n
    BY <1>1
  <2> QED
    BY <1>1, <1>2, <1>9, <2>1
<1> QED
  BY <1>9, <1>10 DEF n, k

\* A document is told by its tokens (_stf_tokens of learning.py): none is exact
\* against another.
THEOREM TokensTellDocuments ==
  ASSUME NEW x, IsDoc(x), NEW y, IsDoc(y)
  PROVE  StfTokens(x) = StfTokens(y) <=> x = y
<1> SUFFICES ASSUME StfTokens(x) = StfTokens(y) PROVE x = y
  OBVIOUS
<1>1. \A i \in 1 .. 3 : HeaderTokens(x)[i] = HeaderTokens(y)[i]
  BY DocTokensAre
<1>2. BodyOf(x) = BodyOf(y)
  <2> DEFINE a == StfTokens(x)
             p == BodyOf(x)
             q == BodyOf(y)
  <2>1. /\ Len(a) = 3 + Len(p) /\ Len(p) \in Nat
        /\ \A i \in 1 .. Len(p) : a[3 + i] = p[i]
    BY DocTokensAre
  <2>2. /\ Len(a) = 3 + Len(q) /\ Len(q) \in Nat
        /\ \A i \in 1 .. Len(q) : a[3 + i] = q[i]
    BY DocTokensAre
  <2>3. p \in Seq(BodyTokens(x)) /\ q \in Seq(BodyTokens(y))
    BY BodyIs
  <2> HIDE DEF a, p, q
  <2>4. Len(p) = Len(q) /\ \A i \in 1 .. Len(p) : p[i] = q[i]
    BY <2>1, <2>2
  <2>5. p = q
    BY <2>3, <2>4
  <2> QED
    BY <2>5 DEF p, q
<1>3. /\ Len(x.lines) <= Len(y.lines) /\ \A i \in 1 .. Len(x.lines) : x.lines[i] = y.lines[i]
      /\ Len(y.lines) <= Len(x.lines)
  BY <1>2, BodyTellsLines
<1>4. x.lines = y.lines
  <2> DEFINE p == x.lines
             q == y.lines
             S == ToSet(p)
             T == ToSet(q)
  <2>1. p \in Seq(S) /\ q \in Seq(T)
    BY IsDocParts
  <2>2. Len(p) <= Len(q) /\ Len(q) <= Len(p) /\ \A i \in 1 .. Len(p) : p[i] = q[i]
    BY <1>3
  <2> HIDE DEF p, q, S, T
  <2>3. Len(p) = Len(q)
    BY <2>1, <2>2
  <2>4. p = q
    BY <2>1, <2>2, <2>3
  <2> QED
    BY <2>4 DEF p, q
<1> QED
  BY <1>1, <1>4, IsDocParts

--------------------------------------------------------------------------------
(* The reports on the recognizer. *)

\* What a report counts of the sheets it is about.
LEMMA ReportIs ==
  ASSUME NEW results, IsFiniteSet(DOMAIN results)
  PROVE  LET report == BaselineReport(results)
             D == DOMAIN results
         IN  /\ report.sheets = Cardinality(D)
             /\ report.ready <=> Cardinality(D) >= SheetTarget
             /\ report.needed = Max({0, SheetTarget - Cardinality(D)})
             /\ report.exact = Cardinality({i \in D : results[i].summary.exact})
             /\ \A c \in Categories :
                  /\ report.corrections[c] = SumFunctionOnSet([i \in D |-> results[i].summary.categories[c]], D)
                  /\ report.affected[c] = Cardinality({i \in D : results[i].summary.categories[c] > 0})
<1> DEFINE report == BaselineReport(results)
           D == DOMAIN results
           one == [i \in D |-> IF results[i].summary.exact THEN 1 ELSE 0]
           some(c) == [i \in D |-> IF results[i].summary.categories[c] > 0 THEN 1 ELSE 0]
           all(c) == [i \in D |-> results[i].summary.categories[c]]
<1>1. /\ report.sheets = Cardinality(D)
      /\ report.ready <=> Cardinality(D) >= SheetTarget
      /\ report.needed = Max({0, SheetTarget - Cardinality(D)})
      /\ report.exact = SumFunction(one)
      /\ report.corrections = [c \in Categories |-> SumFunction(all(c))]
      /\ report.affected = [c \in Categories |-> SumFunction(some(c))]
  BY DEF BaselineReport, SumOf
<1>2. SumFunction(one) = Cardinality({i \in D : results[i].summary.exact})
  <2> DEFINE P == {i \in D : results[i].summary.exact}
  <2>1. SumFunction(one) = SumFunctionOnSet(one, D)
    BY Zenon DEF SumFunction
  <2>2. P \in SUBSET D /\ \A x \in D : one[x] = IF x \in P THEN 1 ELSE 0
    OBVIOUS
  <2> HIDE DEF one, P, D
  <2>3. SumFunctionOnSet(one, D) = Cardinality(P)
    BY <2>2, SumCounts DEF D
  <2> QED
    BY <2>1, <2>3 DEF P
<1>3. \A c \in Categories : SumFunction(some(c)) = Cardinality({i \in D : results[i].summary.categories[c] > 0})
  <2> SUFFICES ASSUME NEW c \in Categories
               PROVE  SumFunction(some(c)) = Cardinality({i \in D : results[i].summary.categories[c] > 0})
    OBVIOUS
  <2> DEFINE P == {i \in D : results[i].summary.categories[c] > 0}
             f == some(c)
  <2>1. SumFunction(f) = SumFunctionOnSet(f, D)
    BY Zenon DEF SumFunction
  <2>2. P \in SUBSET D /\ \A x \in D : f[x] = IF x \in P THEN 1 ELSE 0
    OBVIOUS
  <2> HIDE DEF f, P, D, some
  <2>3. SumFunctionOnSet(f, D) = Cardinality(P)
    BY <2>2, SumCounts DEF D
  <2> QED
    BY <2>1, <2>3 DEF P, f
<1>4. \A c \in Categories : SumFunction(all(c)) = SumFunctionOnSet(all(c), D)
  BY Zenon DEF SumFunction
<1> HIDE DEF report, D, one
<1>5. \A c \in Categories :
        /\ report.corrections[c] = SumFunctionOnSet(all(c), D)
        /\ report.affected[c] = Cardinality({i \in D : results[i].summary.categories[c] > 0})
  <2> HIDE DEF all, some
  <2> QED
    BY <1>1, <1>3, <1>4
<1> QED
  BY <1>1, <1>2, <1>5 DEF report, D

\* What the summary of one sheet says.
LEMMA SheetIs ==
  ASSUME NEW raw, IsDoc(raw), NEW corrected, IsDoc(corrected)
  PROVE  LET s == CorrectionSummary(raw, corrected)
         IN  /\ s.exact <=> raw = corrected
             /\ \A c \in Categories : /\ s.categories[c] \in Nat
                                      /\ raw = corrected => s.categories[c] = 0
<1> DEFINE s == CorrectionSummary(raw, corrected)
           a == StfTokens(raw)
           b == StfTokens(corrected)
           A == AllTokens(raw) \cup AllTokens(corrected)
           E == DOMAIN Edits(a, b)
           its(c) == {e \in E : c \in Edits(a, b)[e]}
<1>1. a \in Seq(A) /\ b \in Seq(A)
  BY TokensOfTwo
<1>2. (s.exact <=> a = b) /\ s.categories = [c \in Categories |-> Cardinality(its(c))]
  BY SummaryIs, Zenon
<1>3. a = b <=> raw = corrected
  BY TokensTellDocuments
<1> HIDE DEF a, b, A, s
<1>4. IsFiniteSet(E) /\ (E = {} <=> a = b)
  BY <1>1, EditsAre, EditsTellTexts
<1> HIDE DEF E
<1>5. \A c \in Categories : Cardinality(its(c)) \in Nat
  <2> SUFFICES ASSUME NEW c \in Categories PROVE Cardinality(its(c)) \in Nat
    OBVIOUS
  <2>1. IsFiniteSet(its(c))
    BY <1>4, FS_Subset
  <2> QED
    BY <2>1, FS_CardinalityType
<1>6. E = {} => \A c \in Categories : Cardinality(its(c)) = 0
  <2>1. E = {} => \A c \in Categories : its(c) = {}
    OBVIOUS
  <2>2. Cardinality({}) = 0
    BY FS_EmptySet
  <2> HIDE DEF its
  <2> QED
    BY <2>1, <2>2
<1>7. \A c \in Categories : s.categories[c] = Cardinality(its(c))
  <2> HIDE DEF its
  <2> QED
    BY <1>2
<1> HIDE DEF its
<1>8. /\ s.exact <=> raw = corrected
      /\ \A c \in Categories : /\ s.categories[c] \in Nat
                               /\ raw = corrected => s.categories[c] = 0
  BY <1>2, <1>3, <1>4, <1>5, <1>6, <1>7
<1> QED
  BY <1>8 DEF s

\* A row of the join is a transcription whose key points at a run, with that run.
LEMMA JoinedRowsAre ==
  ASSUME NEW db
  PROVE  LET trs == db.transcriptions
             Run(p) == db.runs[trs[p].run]
             rows == JoinedRows(db)
         IN  /\ DOMAIN rows = {p \in DOMAIN trs : trs[p].run \in DOMAIN db.runs}
             /\ \A p \in DOMAIN rows :
                  /\ rows[p].status = trs[p].status /\ rows[p].outcome = Run(p).outcome
                  /\ rows[p].owner = db.songs[db.scans[p]] /\ rows[p].raw = Run(p).raw
                  /\ rows[p].corrected = trs[p].corrected
<1> DEFINE trs == db.transcriptions
           Run(p) == db.runs[trs[p].run]
           row(p) == [ status |-> trs[p].status, outcome |-> Run(p).outcome,
                       owner |-> db.songs[db.scans[p]], raw |-> Run(p).raw,
                       corrected |-> trs[p].corrected ]
           pointing == {p \in DOMAIN trs : trs[p].run \in DOMAIN db.runs}
           rows == JoinedRows(db)
<1>1. rows = [p \in pointing |-> row(p)]
  BY DEF JoinedRows
<1> HIDE DEF rows, pointing
<1>2. DOMAIN rows = pointing
  BY <1>1
<1>3. ASSUME NEW p \in DOMAIN rows
      PROVE  /\ rows[p].status = trs[p].status /\ rows[p].outcome = Run(p).outcome
             /\ rows[p].owner = db.songs[db.scans[p]] /\ rows[p].raw = Run(p).raw
             /\ rows[p].corrected = trs[p].corrected
  <2>1. rows[p] = row(p)
    BY <1>1, <1>2, <1>3
  <2> QED
    BY <2>1
<1> QED
  BY <1>2, <1>3 DEF rows, pointing

\* A joined row counts once, for its owner and after a review; exact are the
\* sheets left as they were read, and a class affects the sheets it was changed in
\* (recognition_baseline of routers/learning.py, baseline_report of learning.py).
THEOREM BaselineCountsOwn ==
  ASSUME NEW rows, IsFiniteSet(DOMAIN rows), SheetTarget \in Nat, NEW o,
         \A i \in Pairs(rows, o) : IsDoc(rows[i].raw) /\ IsDoc(rows[i].corrected)
  PROVE  LET report == SheetsReport(rows, o)
             own == Pairs(rows, o)
             wrong == {i \in own : rows[i].raw # rows[i].corrected}
         IN  /\ report.sheets = Cardinality(own)
             /\ report.exact = Cardinality(own) - Cardinality(wrong)
             /\ \A c \in Categories :
                  /\ report.affected[c] <= Cardinality(wrong)
                  /\ report.affected[c] <= report.corrections[c]
                  /\ c \notin {"letter", "octave"} =>
                       Cardinality({i \in own : OfClass(StfTokens(rows[i].raw), c)
                                                  # OfClass(StfTokens(rows[i].corrected), c)})
                         <= report.affected[c]
             /\ report.ready <=> report.needed = 0
<1> DEFINE own == Pairs(rows, o)
           results == [i \in own |-> EvaluationMetrics(rows[i].corrected, rows[i].raw)]
           summary(i) == CorrectionSummary(rows[i].raw, rows[i].corrected)
           report == BaselineReport(results)
           wrong == {i \in own : rows[i].raw # rows[i].corrected}
           counts(c) == [i \in own |-> results[i].summary.categories[c]]
           touched(c) == {i \in own : results[i].summary.categories[c] > 0}
           differ(c) == {i \in own : OfClass(StfTokens(rows[i].raw), c)
                                       # OfClass(StfTokens(rows[i].corrected), c)}
<1>1. SheetsReport(rows, o) = report
  BY Zenon DEF SheetsReport
<1>2. own \subseteq DOMAIN rows /\ IsFiniteSet(own)
  <2>1. own \in SUBSET DOMAIN rows
    BY DEF Pairs
  <2> HIDE DEF own
  <2> QED
    BY <2>1, FS_Subset
<1>3. \A i \in own : IsDoc(rows[i].raw) /\ IsDoc(rows[i].corrected)
  OBVIOUS
<1> HIDE DEF own
<1>4. DOMAIN results = own /\ \A i \in own : results[i].summary = summary(i)
  <2>1. \A i \in own : results[i] = EvaluationMetrics(rows[i].corrected, rows[i].raw)
    OBVIOUS
  <2>2. \A i \in own : EvaluationMetrics(rows[i].corrected, rows[i].raw).summary = summary(i)
    BY MetricsAre, Zenon
  <2>3. DOMAIN results = own
    OBVIOUS
  <2> HIDE DEF results, summary
  <2> QED
    BY <2>1, <2>2, <2>3
<1>5. \A i \in own :
        /\ results[i].summary.exact <=> rows[i].raw = rows[i].corrected
        /\ \A c \in Categories : /\ results[i].summary.categories[c] \in Nat
                                 /\ rows[i].raw = rows[i].corrected => results[i].summary.categories[c] = 0
  <2> HIDE DEF results
  <2>1. \A i \in own :
          /\ summary(i).exact <=> rows[i].raw = rows[i].corrected
          /\ \A c \in Categories : /\ summary(i).categories[c] \in Nat
                                   /\ rows[i].raw = rows[i].corrected => summary(i).categories[c] = 0
    BY <1>3, SheetIs
  <2> HIDE DEF summary
  <2> QED
    BY <1>4, <2>1
<1>6. \A i \in own, c \in Categories \ {"letter", "octave"} :
        results[i].summary.categories[c] = 0 =>
          OfClass(StfTokens(rows[i].raw), c) = OfClass(StfTokens(rows[i].corrected), c)
  <2> HIDE DEF results
  <2>1. \A i \in own, c \in Categories \ {"letter", "octave"} :
          summary(i).categories[c] = 0 =>
            OfClass(StfTokens(rows[i].raw), c) = OfClass(StfTokens(rows[i].corrected), c)
    BY <1>3, UnchargedIsUntouched
  <2> HIDE DEF summary
  <2> QED
    BY <1>4, <2>1
<1> HIDE DEF results
<1>7. /\ report.sheets = Cardinality(own)
      /\ report.ready <=> Cardinality(own) >= SheetTarget
      /\ report.needed = Max({0, SheetTarget - Cardinality(own)})
      /\ report.exact = Cardinality({i \in own : results[i].summary.exact})
      /\ \A c \in Categories :
           /\ report.corrections[c] = SumFunctionOnSet(counts(c), own)
           /\ report.affected[c] = Cardinality(touched(c))
  BY <1>2, <1>4, ReportIs
<1> HIDE DEF report
<1>8. Cardinality(own) \in Nat
  BY <1>2, FS_CardinalityType
<1>9. report.ready <=> report.needed = 0
  <2>1. Max({0, SheetTarget - Cardinality(own)})
          = IF 0 >= SheetTarget - Cardinality(own) THEN 0 ELSE SheetTarget - Cardinality(own)
    BY <1>8, GreatestOfTwo
  <2> QED
    BY <1>7, <1>8, <2>1
<1>10. report.exact = Cardinality(own) - Cardinality(wrong)
  <2>1. {i \in own : results[i].summary.exact} = own \ wrong /\ own \cap wrong = wrong
    BY <1>5
  <2> HIDE DEF wrong
  <2>2. Cardinality(own \ wrong) = Cardinality(own) - Cardinality(own \cap wrong)
    BY <1>2, FS_Difference
  <2> QED
    BY <1>7, <2>1, <2>2
<1>11. \A c \in Categories : report.affected[c] <= Cardinality(wrong)
  <2> SUFFICES ASSUME NEW c \in Categories PROVE Cardinality(touched(c)) <= Cardinality(wrong)
    BY <1>7
  <2>1. touched(c) \in SUBSET wrong
    BY <1>5
  <2>2. IsFiniteSet(wrong)
    BY <1>2, FS_Subset
  <2> HIDE DEF touched, wrong
  <2> QED
    BY <2>1, <2>2, FS_Subset
<1>12. \A c \in Categories : report.affected[c] <= report.corrections[c]
  <2> SUFFICES ASSUME NEW c \in Categories
               PROVE  Cardinality(touched(c)) <= SumFunctionOnSet(counts(c), own)
    BY <1>7
  <2> DEFINE P == touched(c)
             f == counts(c)
             g == [i \in own |-> IF i \in P THEN 1 ELSE 0]
  <2>1. P \in SUBSET own /\ \A i \in own : f[i] \in Nat /\ (i \in P <=> f[i] > 0)
    BY <1>5
  <2> HIDE DEF P, f
  <2>2. \A i \in own : g[i] = (IF i \in P THEN 1 ELSE 0) /\ g[i] \in Int /\ f[i] \in Int /\ g[i] <= f[i]
    BY <2>1
  <2> HIDE DEF g
  <2>3. SumFunctionOnSet(g, own) <= SumFunctionOnSet(f, own)
    BY <1>2, <2>2, SumGrows
  <2>4. SumFunctionOnSet(g, own) = Cardinality(P)
    BY <1>2, <2>1, <2>2, SumCounts
  <2> QED
    BY <2>3, <2>4 DEF P, f
<1>13. \A c \in Categories \ {"letter", "octave"} : Cardinality(differ(c)) <= report.affected[c]
  <2> SUFFICES ASSUME NEW c \in Categories \ {"letter", "octave"}
               PROVE  Cardinality(differ(c)) <= Cardinality(touched(c))
    BY <1>7
  <2>1. differ(c) \in SUBSET touched(c)
    <3> SUFFICES ASSUME NEW i \in differ(c) PROVE i \in touched(c)
      OBVIOUS
    <3>1. i \in own /\ results[i].summary.categories[c] \in Nat
      BY <1>5
    <3>2. results[i].summary.categories[c] # 0
      BY <1>6, <3>1
    <3> QED
      BY <3>1, <3>2
  <2>2. IsFiniteSet(touched(c))
    BY <1>2, FS_Subset
  <2> HIDE DEF touched, differ
  <2> QED
    BY <2>1, <2>2, FS_Subset
<1>14. /\ report.sheets = Cardinality(own)
       /\ report.exact = Cardinality(own) - Cardinality(wrong)
       /\ \A c \in Categories :
            /\ report.affected[c] <= Cardinality(wrong)
            /\ report.affected[c] <= report.corrections[c]
            /\ c \notin {"letter", "octave"} => Cardinality(differ(c)) <= report.affected[c]
       /\ report.ready <=> report.needed = 0
  <2> HIDE DEF wrong, differ
  <2> QED
    BY <1>7, <1>9, <1>10, <1>11, <1>12, <1>13
<1> QED
  BY <1>1, <1>14, Zenon DEF own

\* The ladder's gate and its noise guard agree with the verdict of the model
\* comparison (compare_reports and _verdict of evaluate_recognition.py).
THEOREM LadderFollowsVerdict ==
  ASSUME LadderGate \in Nat \ {0}, NEW control \in Seq(Nat) \ {<<>>}, NEW tiled \in Nat
  PROVE  LET out == CompareReports(control, tiled)
             verdict == Verdict(ToSet(control), {tiled}, TRUE)
         IN  /\ out.beyondNoise <=> Len(control) > 1 /\ verdict = "better"
             /\ out.pass => verdict # "worse"
<1> DEFINE S == ToSet(control)
           n == Len(control)
           high == Max(S)
           sum == SumFunction(control)
           base == RoundEven(sum, n)
<1>1. n \in Nat \ {0} /\ DOMAIN control = 1 .. n /\ \A i \in 1 .. n : control[i] \in Nat
  BY EmptySeq
<1>2. S \subseteq Nat /\ S # {} /\ IsFiniteSet(S) /\ \A i \in 1 .. n : control[i] \in S
  <2>1. S = {control[i] : i \in 1 .. n}
    BY <1>1 DEF ToSet
  <2>2. IsFiniteSet(1 .. n)
    BY <1>1, FS_Interval
  <2> DEFINE f == [i \in 1 .. n |-> control[i]]
  <2>3. S = {f[i] : i \in 1 .. n}
    BY <2>1
  <2> DEFINE D == 1 .. n
  <2>4. f \in Surjection(D, S)
    BY <2>3 DEF Surjection
  <2>5. IsFiniteSet(S)
    <3> HIDE DEF f, D, S
    <3>1. IsFiniteSet(D)
      BY <2>2 DEF D
    <3> QED
      BY <2>4, <3>1, FS_Surjection
  <2> HIDE DEF S, n, f
  <2> QED
    BY <1>1, <2>1, <2>5
<1>3. /\ high \in S /\ high \in Nat /\ \A x \in S : x <= high
      /\ Min(S) \in S /\ Min(S) \in Nat
  <2> HIDE DEF S
  <2>1. high \in S /\ \A y \in S : high >= y
    BY <1>2, MaxIs
  <2>2. Min(S) \in S
    BY <1>2, MinIs
  <2> HIDE DEF high
  <2> QED
    BY <1>2, <2>1, <2>2
<1>4. Max({tiled}) = tiled /\ Min({tiled}) = tiled
  BY DEF Max, Min
<1>5. Verdict(S, {tiled}, TRUE) = IF tiled < Min(S) THEN "better"
                                  ELSE IF tiled > high THEN "worse" ELSE "inside_noise"
  BY <1>4, Zenon DEF Verdict
<1> HIDE DEF S, high
<1>6. base <= high /\ 0 <= base /\ base \in Int
  <2>1. sum = SumFunctionOnSet(control, 1 .. n)
    BY <1>1, Zenon DEF SumFunction
  <2>2. IsFiniteSet(1 .. n) /\ Cardinality(1 .. n) = n
    BY <1>1, FS_Interval
  <2>3. \A i \in 1 .. n : control[i] \in Int /\ 0 <= control[i] /\ control[i] <= high
    BY <1>1, <1>2, <1>3
  <2> HIDE DEF n, sum
  <2> DEFINE D == 1 .. n
  <2>4. sum \in Int /\ 0 * n <= sum /\ sum <= high * n
    <3>1. /\ sum = SumFunctionOnSet(control, D) /\ IsFiniteSet(D) /\ Cardinality(D) = n
          /\ \A i \in D : control[i] \in Int /\ 0 <= control[i] /\ control[i] <= high
      BY <2>1, <2>2, <2>3
    <3> HIDE DEF D
    <3>2. high \in Int /\ 0 \in Int
      BY <1>3
    <3>3. sum \in Int
      BY <3>1, SumType
    <3>4. 0 * Cardinality(D) <= SumFunctionOnSet(control, D) /\ SumFunctionOnSet(control, D) <= high * Cardinality(D)
      BY <3>1, <3>2, SumBounds
    <3> QED
      BY <3>1, <3>3, <3>4
  <2>5. 0 <= base /\ base <= high
    BY <1>1, <1>3, <2>4, RoundEvenBetween
  <2>6. base \in Int
    BY <1>1, <2>4, RoundEvenType
  <2> QED
    BY <2>5, <2>6
<1> HIDE DEF base
<1>7. CompareReports(control, tiled).pass <=>
        base # 0 /\ RoundEven(10000 * (base - tiled), base) >= LadderGate
  <2> DEFINE P == base # 0 /\ RoundEven(10000 * (base - tiled), base) >= LadderGate
  <2>1. CompareReports(control, tiled).pass = P
    BY Zenon DEF CompareReports, base
  <2> HIDE DEF P
  <2>2. CompareReports(control, tiled).pass <=> P
    BY <2>1, Zenon
  <2> QED
    BY <2>2 DEF P
<1>8. CompareReports(control, tiled).beyondNoise <=> n > 1 /\ tiled < Min(S)
  BY DEF CompareReports, S
<1>9. ASSUME tiled > high, base # 0 PROVE RoundEven(10000 * (base - tiled), base) < LadderGate
  <2> DEFINE x == 10000 * (base - tiled)
  <2>1. x \in Int /\ x <= 0 /\ base \in Nat \ {0}
    BY <1>3, <1>6, <1>9
  <2> HIDE DEF x
  <2>2. x * base <= x /\ x * base \in Int
    <3>1. (0 - x) * 1 <= (0 - x) * base
      BY <2>1, ProductGrows
    <3> QED
      BY <2>1, <3>1
  <2>3. RoundEven(x, base) <= 0
    BY <2>1, <2>2, RoundEvenBetween
  <2>4. RoundEven(x, base) \in Int
    BY <2>1, RoundEvenType
  <2> QED
    BY <2>3, <2>4 DEF x
<1>10. CompareReports(control, tiled).pass => Verdict(S, {tiled}, TRUE) # "worse"
  <2>1. CASE tiled > high
    <3>1. base # 0 => ~(RoundEven(10000 * (base - tiled), base) >= LadderGate)
      <4> DEFINE y == RoundEven(10000 * (base - tiled), base)
      <4>1. base # 0 => y < LadderGate /\ y \in Int
        <5>1. base # 0 => 10000 * (base - tiled) \in Int /\ base \in Nat \ {0}
          BY <1>6
        <5> QED
          BY <1>9, <2>1, <5>1, RoundEvenType
      <4> HIDE DEF y
      <4>2. base # 0 => ~(y >= LadderGate)
        BY <4>1
      <4> QED
        BY <4>2 DEF y
    <3> QED
      BY <1>7, <3>1
  <2>2. CASE ~(tiled > high)
    BY <1>5, <2>2
  <2> QED
    BY <2>1, <2>2
<1>11. CompareReports(control, tiled).beyondNoise <=> Len(control) > 1 /\ Verdict(S, {tiled}, TRUE) = "better"
  BY <1>5, <1>8 DEF n
<1> QED
  BY <1>10, <1>11 DEF S

--------------------------------------------------------------------------------
(* The reports, as an invariant. *)

\* The reports on the recognizer count a sheet once, for its owner, and favour
\* neither arm of a comparison (learning.py, evaluate_recognition.py): for all
\* sheets, arms and runs they are called on.
THEOREM ReportsAreAlwaysFair == Spec => []ReportsAreFair
<1> SUFFICES ASSUME CallsRan PROVE ReportsAreFair
  BY CallsRun, PTL
<1>1. BaselineIsOwn
  <2> SUFFICES ASSUME Ran("baseline") PROVE BaselineIsOwn
    BY DEF BaselineIsOwn
  <2> DEFINE db == call.in
             trs == db.transcriptions
             Run(p) == db.runs[trs[p].run]
             Counted(p) == /\ trs[p].status = "reviewed" /\ trs[p].run \in DOMAIN db.runs
                           /\ Run(p).outcome = "succeeded"
             Of(o) == {p \in DOMAIN trs : Counted(p) /\ db.songs[db.scans[p]] = o}
             wrong(o) == {p \in Of(o) : Run(p).raw # trs[p].corrected}
             differ(o, c) == {p \in Of(o) : OfClass(StfTokens(Run(p).raw), c)
                                              # OfClass(StfTokens(trs[p].corrected), c)}
             rows == JoinedRows(db)
  <2>1. db \in Inputs["baseline"] /\ call.out = [o \in Owners |-> RecognitionBaseline(db, o)]
    BY RanIs DEF Answer
  <2>2. /\ IsFiniteSet(DOMAIN trs) /\ SheetTarget \in Nat
        /\ \A p \in DOMAIN trs : IsDoc(trs[p].corrected)
        /\ \A r \in DOMAIN db.runs : db.runs[r].outcome = "succeeded" => IsDoc(db.runs[r].raw)
    BY <2>1, BaselineAssumption
  <2>3. /\ DOMAIN rows = {p \in DOMAIN trs : trs[p].run \in DOMAIN db.runs}
        /\ \A p \in DOMAIN rows :
             /\ rows[p].status = trs[p].status /\ rows[p].outcome = Run(p).outcome
             /\ rows[p].owner = db.songs[db.scans[p]] /\ rows[p].raw = Run(p).raw
             /\ rows[p].corrected = trs[p].corrected
    BY JoinedRowsAre
  <2> HIDE DEF rows
  <2>4. /\ \A o : Pairs(rows, o) = Of(o)
        /\ \A o : \A p \in Of(o) : rows[p].raw = Run(p).raw /\ rows[p].corrected = trs[p].corrected
    BY <2>3 DEF Pairs
  <2>5. IsFiniteSet(DOMAIN rows)
    BY <2>2, <2>3, FS_Subset
  <2>6. ASSUME NEW o \in Owners
        PROVE  LET report == call.out[o]
               IN  /\ report.sheets = Cardinality(Of(o))
                   /\ report.exact = Cardinality(Of(o)) - Cardinality(wrong(o))
                   /\ \A c \in Categories :
                        /\ report.affected[c] <= Cardinality(wrong(o))
                        /\ report.affected[c] <= report.corrections[c]
                        /\ c \notin {"letter", "octave"} =>
                             Cardinality(differ(o, c)) <= report.affected[c]
                   /\ report.ready <=> report.needed = 0
    <3> DEFINE report == SheetsReport(rows, o)
               own == Pairs(rows, o)
               wrongRows == {i \in own : rows[i].raw # rows[i].corrected}
               differRows(c) == {i \in own : OfClass(StfTokens(rows[i].raw), c)
                                                # OfClass(StfTokens(rows[i].corrected), c)}
    <3>1. call.out[o] = report
      <4>1. call.out[o] = RecognitionBaseline(db, o)
        BY <2>1
      <4>2. rows = JoinedRows(db)
        BY DEF rows
      <4> HIDE DEF db
      <4> QED
        BY <4>1, <4>2, Zenon DEF RecognitionBaseline
    <3>2. own = Of(o)
      BY <2>4
    <3>3. \A i \in own : IsDoc(rows[i].raw) /\ IsDoc(rows[i].corrected)
      BY <2>2, <2>4, <3>2
    <3>4. wrongRows = wrong(o) /\ \A c : differRows(c) = differ(o, c)
      <4> HIDE DEF own
      <4> QED
        BY <2>4, <3>2
    <3>5. /\ report.sheets = Cardinality(own)
          /\ report.exact = Cardinality(own) - Cardinality(wrongRows)
          /\ \A c \in Categories :
               /\ report.affected[c] <= Cardinality(wrongRows)
               /\ report.affected[c] <= report.corrections[c]
               /\ c \notin {"letter", "octave"} => Cardinality(differRows(c)) <= report.affected[c]
          /\ report.ready <=> report.needed = 0
      BY <2>2, <2>5, <3>3, BaselineCountsOwn
    <3> HIDE DEF report, own, Of, wrong, differ, wrongRows, differRows
    <3> QED
      BY <3>1, <3>2, <3>4, <3>5
  <2> QED
    BY <2>6 DEF BaselineIsOwn
<1>2. VerdictIsFair
  <2> SUFFICES ASSUME Ran("verdict") PROVE VerdictIsFair
    BY DEF VerdictIsFair
  <2> DEFINE control == call.in.control
             candidate == call.in.candidate
             lower == call.in.lowerIsBetter
             v == Verdict(control, candidate, lower)
             Swapped == [better |-> "worse", worse |-> "better", inside_noise |-> "inside_noise"]
  <2>1. call.in \in Inputs["verdict"] /\ call.out = v
    BY RanIs DEF Answer
  <2>2. Arm(control) /\ Arm(candidate) /\ lower \in BOOLEAN
    BY <2>1, VerdictAssumption DEF Arm
  <2>3. v \in {"better", "worse", "inside_noise"}
    BY Zenon DEF Verdict
  <2>4. \A r \in Int :
          /\ Verdict(candidate, control, lower) = CASE v = "better" -> "worse"
                                             [] v = "worse" -> "better"
                                             [] OTHER -> "inside_noise"
          /\ Verdict(control \cup {r}, candidate, lower) \in {v, "inside_noise"}
          /\ Verdict(control, candidate \cup {r}, lower) \in {v, "inside_noise"}
    <3> HIDE DEF control, candidate, lower
    <3> QED
      BY <2>2, VerdictsAreFair
  <2>5. Verdict(candidate, control, lower) = Swapped[v]
    <3> HIDE DEF v
    <3>1. 0 \in Int
      OBVIOUS
    <3>2. Verdict(candidate, control, lower) = CASE v = "better" -> "worse"
                                          [] v = "worse" -> "better"
                                          [] OTHER -> "inside_noise"
      BY <2>4, <3>1
    <3> DEFINE w == Verdict(candidate, control, lower)
    <3> HIDE DEF control, candidate, lower, w
    <3>3. CASE v = "better"
      BY <3>2, <3>3 DEF w
    <3>4. CASE v = "worse"
      BY <3>2, <3>4 DEF w
    <3>5. CASE v = "inside_noise"
      BY <3>2, <3>5 DEF w
    <3> QED
      BY <2>3, <3>3, <3>4, <3>5
  <2>6. Rates \subseteq Int
    BY DEF Rates
  <2> HIDE DEF v, Swapped
  <2>7. /\ Verdict(candidate, control, lower) = Swapped[call.out]
        /\ \A r \in Rates :
             /\ Verdict(control \cup {r}, candidate, lower) \in {call.out, "inside_noise"}
             /\ Verdict(control, candidate \cup {r}, lower) \in {call.out, "inside_noise"}
    BY <2>1, <2>4, <2>5, <2>6
  <2> QED
    BY <2>7, Zenon DEF VerdictIsFair, Swapped
<1>3. LadderAgrees
  <2> SUFFICES ASSUME Ran("ladder") PROVE LadderAgrees
    BY DEF LadderAgrees
  <2> DEFINE control == call.in.control
             tiled == call.in.tiled
             out == CompareReports(control, tiled)
             verdict == Verdict(ToSet(control), {tiled}, TRUE)
  <2>1. call.in \in Inputs["ladder"] /\ call.out = out
    BY RanIs DEF Answer
  <2>2. LadderGate \in Nat \ {0} /\ control \in Seq(Nat) \ {<<>>} /\ tiled \in Nat
    BY <2>1, LadderAssumption
  <2>3. /\ out.beyondNoise <=> Len(control) > 1 /\ verdict = "better"
        /\ out.pass => verdict # "worse"
    <3> HIDE DEF control, tiled
    <3> QED
      BY <2>2, LadderFollowsVerdict
  <2> HIDE DEF out, verdict
  <2>4. /\ call.out.beyondNoise <=> Len(control) > 1 /\ verdict = "better"
        /\ call.out.pass => verdict # "worse"
    BY <2>1, <2>3
  <2> QED
    BY <2>4, Zenon DEF LadderAgrees, verdict
<1> QED
  BY <1>1, <1>2, <1>3 DEF ReportsAreFair
================================================================================
