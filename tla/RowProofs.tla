------------------------------- MODULE RowProofs -------------------------------
(***************************************************************************)
(* The rows of a sheet, for every photo: which peaks of a profile are kept *)
(* and where a run is cut, that no band spans a valley, overlaps another   *)
(* or leaves the paper, and that equal rows are the bands; and the rows as *)
(* an invariant of Algorithms.                                             *)
(***************************************************************************)
EXTENDS AlgorithmProofs

(* The kept peaks of a profile, and the valleys between them. *)

\* A profile of rows.
IsProfile(profile, n) == n \in Nat /\ profile \in [0 .. n - 1 -> Nat]

\* The lowest of a stretch of rows is one of them, and none is lower.
LEMMA LowestIs ==
  ASSUME NEW n, NEW profile, IsProfile(profile, n), NEW a \in 0 .. n - 1, NEW b \in a .. n - 1
  PROVE  /\ Lowest(profile, a, b) \in Nat
         /\ \A i \in a .. b : Lowest(profile, a, b) <= profile[i]
         /\ \E i \in a .. b : Lowest(profile, a, b) = profile[i]
<1> DEFINE S == {profile[i] : i \in a .. b}
           D == a .. b
           f == [i \in D |-> profile[i]]
<1>1. \A i \in a .. b : profile[i] \in Nat
  BY DEF IsProfile
<1>2. S \in SUBSET Int /\ S # {}
  BY <1>1
<1>3. f \in Surjection(D, S)
  BY DEF Surjection
<1>4. IsFiniteSet(D)
  BY FS_Interval
<1>5. IsFiniteSet(S)
  <2> HIDE DEF S, D, f
  <2> QED
    BY <1>3, <1>4, FS_Surjection
<1>6. Lowest(profile, a, b) = Min(S)
  BY Zenon DEF Lowest
<1>7. Min(S) \in S /\ \A y \in S : Min(S) <= y
  <2> HIDE DEF S
  <2> QED
    BY <1>2, <1>5, MinIs
<1>8. \A i \in a .. b : profile[i] \in S
  OBVIOUS
<1>9. \E i \in a .. b : Min(S) = profile[i]
  BY <1>7
<1> HIDE DEF S
<1> QED
  BY <1>1, <1>6, <1>7, <1>8, <1>9

\* A row lower than the valley's share of both of two rows separates them.
LEMMA SeparatedBy ==
  ASSUME NEW n, NEW profile, IsProfile(profile, n),
         NEW a \in 0 .. n - 1, NEW b \in 0 .. n - 1, NEW m \in 0 .. n - 1,
         (a <= m /\ m <= b) \/ (b <= m /\ m <= a),
         Valley[2] * profile[m] < Valley[1] * profile[a],
         Valley[2] * profile[m] < Valley[1] * profile[b]
  PROVE  Separated(a, b, profile)
<1> DEFINE lo == Min({a, b})
           hi == Max({a, b})
           low == Lowest(profile, lo, hi)
           least == Min({profile[a], profile[b]})
<1>1. profile[a] \in Nat /\ profile[b] \in Nat /\ profile[m] \in Nat
  BY DEF IsProfile
<1>2. lo = (IF a <= b THEN a ELSE b) /\ hi = (IF a >= b THEN a ELSE b)
  BY LeastOfTwo, GreatestOfTwo
<1>3. least = IF profile[a] <= profile[b] THEN profile[a] ELSE profile[b]
  BY <1>1, LeastOfTwo
<1> HIDE DEF lo, hi, least
<1>4. lo \in 0 .. n - 1 /\ hi \in lo .. n - 1 /\ m \in lo .. hi
  BY <1>2
<1>5. low \in Nat /\ low <= profile[m]
  <2> HIDE DEF low
  <2>1. low \in Nat /\ \A i \in lo .. hi : low <= profile[i]
    BY <1>4, LowestIs DEF low
  <2> QED
    BY <1>4, <2>1
<1> HIDE DEF low
<1>6. Valley[1] \in Nat /\ Valley[2] \in Nat
  BY SheetAssumption
<1>7. Valley[2] * low <= Valley[2] * profile[m]
  BY <1>1, <1>5, <1>6, ProductGrows
<1>8. Valley[2] * profile[m] < Valley[1] * least
  BY <1>3
<1>9. Valley[2] * low < Valley[1] * least
  <2> DEFINE p == Valley[2] * low
             q == Valley[2] * profile[m]
             r == Valley[1] * least
  <2>1. p \in Int /\ q \in Int /\ r \in Int
    BY <1>1, <1>3, <1>5, <1>6
  <2>2. p <= q /\ q < r
    BY <1>7, <1>8
  <2> HIDE DEF p, q, r
  <2>3. p < r
    BY <2>1, <2>2
  <2> QED
    BY <2>3 DEF p, r
<1> QED
  BY <1>9, Zenon DEF Separated, low, lo, hi, least

\* Rows a valley separates are both higher than it.
LEMMA ValleyIsLow ==
  ASSUME NEW n, NEW profile, IsProfile(profile, n),
         NEW a \in 0 .. n - 1, NEW b \in a .. n - 1, Separated(a, b, profile)
  PROVE  Lowest(profile, a, b) < profile[a] /\ Lowest(profile, a, b) < profile[b]
<1> DEFINE low == Lowest(profile, a, b)
           least == Min({profile[a], profile[b]})
<1>1. profile[a] \in Nat /\ profile[b] \in Nat /\ low \in Nat
  <2>1. low \in Nat
    BY LowestIs
  <2> QED
    BY <2>1 DEF IsProfile
<1>2. Min({a, b}) = a /\ Max({a, b}) = b
  BY LeastOfTwo, GreatestOfTwo
<1>3. least = IF profile[a] <= profile[b] THEN profile[a] ELSE profile[b]
  BY <1>1, LeastOfTwo
<1>4. Valley[2] * low < Valley[1] * least
  BY <1>2 DEF Separated
<1>5. Valley[1] \in Nat /\ Valley[2] \in Nat /\ Valley[1] <= Valley[2]
  BY SheetAssumption
<1> HIDE DEF low, least
<1>6. low < least
  <2>1. ASSUME least <= low PROVE FALSE
    <3>1. Valley[2] * least <= Valley[2] * low
      BY <1>1, <1>3, <1>5, <2>1, ProductGrows
    <3>2. least * Valley[1] <= least * Valley[2]
      BY <1>1, <1>3, <1>5, ProductGrows
    <3> DEFINE p == Valley[2] * low
               q == Valley[2] * least
               r == Valley[1] * least
    <3>3. p \in Int /\ q \in Int /\ r \in Int
      BY <1>1, <1>3, <1>5
    <3>4. q <= p /\ r <= q /\ p < r
      BY <1>1, <1>3, <1>4, <1>5, <3>1, <3>2
    <3> HIDE DEF p, q, r
    <3> QED
      BY <3>3, <3>4
  <2> QED
    BY <1>1, <1>3, <2>1
<1> QED
  BY <1>1, <1>3, <1>6 DEF low

\* What is kept of some peaks.
AreKept(K, peaks, profile) ==
  /\ K \in SUBSET peaks
  /\ \A i \in peaks :
       i \in K <=> \A other \in K : Higher(other, i, profile) => Separated(i, other, profile)

\* Of some rows one is no higher than the others.
LEMMA LowestRow ==
  ASSUME NEW n, NEW profile, IsProfile(profile, n), NEW S \in SUBSET (0 .. n - 1), S # {}
  PROVE  \E x \in S : \A y \in S \ {x} : Higher(y, x, profile) /\ ~Higher(x, y, profile)
<1> DEFINE heights == {profile[i] : i \in S}
<1>1. n \in Nat /\ S \subseteq Nat /\ \A i \in S : profile[i] \in Nat /\ n - i \in Nat /\ i \in Nat
  BY DEF IsProfile
<1>2. PICK h \in heights : \A y \in heights : h <= y
  <2>1. heights \subseteq Nat /\ heights # {}
    BY <1>1
  <2> HIDE DEF heights
  <2> QED
    BY <2>1, LeastNatural
<1> DEFINE low == {i \in S : profile[i] = h}
           ends == {n - i : i \in low}
<1>3. PICK e \in ends : \A y \in ends : e <= y
  <2>1. ends \subseteq Nat /\ ends # {}
    BY <1>1, <1>2
  <2> HIDE DEF ends
  <2> QED
    BY <2>1, LeastNatural
<1>4. PICK x \in low : e = n - x
  BY <1>3
<1>5. \A y \in low : n - y \in ends
  OBVIOUS
<1>6. \A y \in S : profile[y] \in heights
  OBVIOUS
<1>7. ASSUME NEW y \in S \ {x} PROVE Higher(y, x, profile) /\ ~Higher(x, y, profile)
  <2>1. profile[x] = h /\ h <= profile[y] /\ x \in S /\ x \in Nat /\ y \in Nat
        /\ profile[x] \in Nat /\ profile[y] \in Nat
    BY <1>1, <1>2, <1>4, <1>6
  <2>2. profile[y] = h => y <= x
    BY <1>1, <1>3, <1>4, <1>5, <2>1
  <2> HIDE DEF heights, low, ends
  <2> QED
    BY <2>1, <2>2 DEF Higher
<1> QED
  BY <1>4, <1>7

\* There is such a choice of any peaks, and KeptPeaks is one.
LEMMA KeptPeaksAre ==
  ASSUME NEW n, NEW profile, IsProfile(profile, n), NEW peaks \in SUBSET (0 .. n - 1)
  PROVE  AreKept(KeptPeaks(peaks, profile), peaks, profile)
<1> DEFINE bad == {U \in SUBSET peaks : ~\E K : AreKept(K, U, profile)}
<1>1. ASSUME bad # {} PROVE FALSE
  <2>1. PICK U \in bad : \A x \in U : U \ {x} \notin bad
    <3>1. bad \in SUBSET (SUBSET peaks)
      OBVIOUS
    <3>2. IsFiniteSet(0 .. n - 1)
      BY FS_Interval DEF IsProfile
    <3>3. IsFiniteSet(peaks)
      BY <3>2, FS_Subset
    <3> HIDE DEF bad
    <3> QED
      BY <1>1, <3>1, <3>3, SmallestSet
  <2>2. U \in SUBSET peaks /\ U \in SUBSET (0 .. n - 1)
    OBVIOUS
  <2>3. U # {}
    <3>1. AreKept({}, {}, profile)
      BY DEF AreKept
    <3> QED
      BY <2>1, <3>1
  <2>4. PICK x \in U : \A y \in U \ {x} : Higher(y, x, profile) /\ ~Higher(x, y, profile)
    BY <2>2, <2>3, LowestRow
  <2>5. PICK K : AreKept(K, U \ {x}, profile)
    <3>1. U \ {x} \in SUBSET peaks /\ U \ {x} \notin bad
      BY <2>1, <2>2, <2>4
    <3> QED
      BY <3>1
  <2> DEFINE L == IF \A other \in K : Separated(x, other, profile) THEN K \cup {x} ELSE K
  <2>6. AreKept(L, U, profile)
    <3>0. ~Higher(x, x, profile)
      <4>1. profile[x] \in Nat /\ x \in Nat
        BY <2>2 DEF IsProfile
      <4> QED
        BY <4>1 DEF Higher
    <3>1. K \in SUBSET (U \ {x})
      BY <2>5 DEF AreKept
    <3>2. L \in SUBSET U
      BY <2>4, <3>1
    <3>3. x \in L <=> \A other \in L : Higher(other, x, profile) => Separated(x, other, profile)
      <4>1. \A other \in K : Higher(other, x, profile)
        BY <2>4, <3>1
      <4> QED
        BY <3>0, <3>1, <4>1
    <3>4. ASSUME NEW i \in U \ {x}
          PROVE  i \in L <=> \A other \in L : Higher(other, i, profile) => Separated(i, other, profile)
      <4>1. i \in L <=> i \in K
        OBVIOUS
      <4>2. i \in K <=> \A other \in K : Higher(other, i, profile) => Separated(i, other, profile)
        BY <2>5 DEF AreKept
      <4>3. ~Higher(x, i, profile)
        BY <2>4
      <4> QED
        BY <4>1, <4>2, <4>3
    <3> HIDE DEF L
    <3> QED
      BY <3>2, <3>3, <3>4 DEF AreKept
  <2> HIDE DEF L
  <2> QED
    BY <2>1, <2>6
<1>2. \E K : AreKept(K, peaks, profile)
  BY <1>1
<1> DEFINE C(K) == \A i \in peaks :
                     i \in K <=> \A other \in K : Higher(other, i, profile) => Separated(i, other, profile)
<1>3. KeptPeaks(peaks, profile) = CHOOSE K \in SUBSET peaks : C(K)
  BY Zenon DEF KeptPeaks
<1>4. \E K \in SUBSET peaks : C(K)
  BY <1>2 DEF AreKept
<1>5. KeptPeaks(peaks, profile) \in SUBSET peaks /\ C(KeptPeaks(peaks, profile))
  <2> HIDE DEF C
  <2> QED
    BY <1>3, <1>4
<1> QED
  BY <1>5 DEF AreKept

\* Two of the kept are separated by a valley.
LEMMA KeptAreApart ==
  ASSUME NEW n, NEW profile, IsProfile(profile, n), NEW peaks \in SUBSET (0 .. n - 1),
         NEW K, AreKept(K, peaks, profile), NEW a \in K, NEW b \in K, a # b
  PROVE  Separated(a, b, profile)
<1>1. /\ profile[a] \in Nat /\ profile[b] \in Nat /\ a \in Nat /\ b \in Nat
      /\ a \in peaks /\ b \in peaks
  BY DEF AreKept, IsProfile
<1>2. Higher(a, b, profile) \/ Higher(b, a, profile)
  BY <1>1 DEF Higher
<1>3. Separated(a, b, profile) \/ Separated(b, a, profile)
  BY <1>1, <1>2, Zenon DEF AreKept
<1>4. {a, b} = {b, a} /\ {profile[a], profile[b]} = {profile[b], profile[a]}
  OBVIOUS
<1> QED
  BY <1>3, <1>4, Zenon DEF Separated

\* Neighbours among some numbers do not overlap.
LEMMA NeighboursApart ==
  ASSUME NEW S \in SUBSET Int, NEW p \in Neighbours(S), NEW q \in Neighbours(S), p # q
  PROVE  p[2] <= q[1] \/ q[2] <= p[1]
<1>1. /\ p \in S \X S /\ p[1] < p[2] /\ \A x \in S : ~(p[1] < x /\ x < p[2])
      /\ q \in S \X S /\ q[1] < q[2] /\ \A x \in S : ~(q[1] < x /\ x < q[2])
  BY DEF Neighbours
<1>2. p[1] \in S /\ p[2] \in S /\ q[1] \in S /\ q[2] \in S
      /\ p = <<p[1], p[2]>> /\ q = <<q[1], q[2]>>
  BY <1>1
<1>3. p[1] # q[1] \/ p[2] # q[2]
  BY <1>2
<1> DEFINE a == p[1]
           b == p[2]
           c == q[1]
           d == q[2]
<1>4. /\ a < b /\ c < d /\ a \in Int /\ b \in Int /\ c \in Int /\ d \in Int
      /\ a # c \/ b # d
      /\ ~(a < c /\ c < b) /\ ~(a < d /\ d < b) /\ ~(c < a /\ a < d) /\ ~(c < b /\ b < d)
  BY <1>1, <1>2, <1>3
<1> HIDE DEF a, b, c, d
<1>5. b <= c \/ d <= a
  BY <1>4
<1> QED
  BY <1>5 DEF a, b, c, d

\* Every number from one of them up to another lies between two neighbours.
LEMMA NeighboursAround ==
  ASSUME NEW S \in SUBSET Nat, NEW lo \in S, NEW hi \in S, NEW i \in Nat, lo <= i, i < hi
  PROVE  \E p \in Neighbours(S) : p[1] <= i /\ i < p[2]
<1> DEFINE above == {x \in S : i < x}
           below == {i - x : x \in {x \in S : x <= i}}
<1>1. PICK b \in above : \A x \in above : b <= x
  <2>1. above \subseteq Nat /\ above # {}
    OBVIOUS
  <2> HIDE DEF above
  <2> QED
    BY <2>1, LeastNatural
<1>2. PICK d \in below : \A x \in below : d <= x
  <2>1. i - lo \in below /\ below \subseteq Nat
    OBVIOUS
  <2> HIDE DEF below
  <2> QED
    BY <2>1, LeastNatural
<1>3. PICK a \in S : a <= i /\ d = i - a
  BY <1>2
<1>4. b \in S /\ i < b /\ \A x \in S : i < x => b <= x
  BY <1>1
<1>5. \A x \in S : x <= i => x <= a
  <2>1. \A x \in S : x <= i => i - x \in below
    OBVIOUS
  <2> HIDE DEF below
  <2> QED
    BY <1>2, <1>3, <2>1
<1>6. <<a, b>> \in Neighbours(S)
  <2>1. \A x \in S : ~(a < x /\ x < b)
    BY <1>3, <1>4, <1>5
  <2>2. a < b
    BY <1>3, <1>4
  <2> QED
    BY <1>3, <1>4, <2>1, <2>2 DEF Neighbours
<1> QED
  BY <1>3, <1>4, <1>6

\* A valley between two of the kept with no other of them between: the lowest row
\* from the one to the other, lower than both.
IsValley(v, a, b, K, profile) ==
  /\ a < v /\ v < b /\ \A k \in K : k <= a \/ b <= k
  /\ \A i \in a .. b : profile[v] <= profile[i]
  /\ profile[v] < profile[a] /\ profile[v] < profile[b]

\* The row a run is cut at between two kept peaks is a valley.
LEMMA ValleyRowIs ==
  ASSUME NEW n, NEW profile, IsProfile(profile, n), NEW a \in 0 .. n - 1, NEW b \in a .. n - 1,
         Separated(a, b, profile), NEW K, \A k \in K : k <= a \/ b <= k
  PROVE  LET v == ValleyRow(a, b, profile) IN v \in a .. b /\ IsValley(v, a, b, K, profile)
<1> DEFINE low == Lowest(profile, a, b)
           S == {i \in a .. b : profile[i] = low}
           v == Min(S)
<1>1. (\A i \in a .. b : low <= profile[i]) /\ \E i \in a .. b : low = profile[i]
  BY LowestIs
<1>2. low < profile[a] /\ low < profile[b]
  BY ValleyIsLow
<1> HIDE DEF low
<1>3. S \in SUBSET Int /\ S # {}
  BY <1>1
<1>4. IsFiniteSet(S)
  <2>1. IsFiniteSet(a .. b)
    BY FS_Interval
  <2> QED
    BY <2>1, FS_Subset
<1>5. v \in S
  <2> HIDE DEF S
  <2> QED
    BY <1>3, <1>4, MinIs
<1>6. v \in a .. b /\ profile[v] = low /\ v # a /\ v # b
  <2> HIDE DEF v
  <2>1. v \in a .. b /\ profile[v] = low
    BY <1>5
  <2>2. profile[a] \in Nat /\ profile[b] \in Nat /\ profile[v] \in Nat
    BY <2>1 DEF IsProfile
  <2> QED
    BY <1>2, <2>1, <2>2
<1>7. ValleyRow(a, b, profile) = v
  BY Zenon DEF ValleyRow, low
<1> HIDE DEF v, S
<1>8. a < v /\ v < b
  BY <1>6
<1> QED
  BY <1>1, <1>2, <1>6, <1>7, <1>8 DEF IsValley

--------------------------------------------------------------------------------
(* A run cut at its valleys. *)

\* A stretch of rows, what is kept of its peaks, and where it is cut.
IsRun(run, n) == run \in (0 .. n) \X (0 .. n) /\ run[1] < run[2]
Kept(run, profile) ==
  IF run[2] - run[1] < 3 THEN {} ELSE KeptPeaks(Peaks(run, profile), profile)
CutAt(run, profile) ==
  {run[1], run[2]} \cup {ValleyRow(p[1], p[2], profile) : p \in Neighbours(Kept(run, profile))}

\* The kept peaks of a run are peaks of it, and apart.
LEMMA KeptIs ==
  ASSUME NEW n, NEW profile, IsProfile(profile, n), NEW run, IsRun(run, n)
  PROVE  /\ Kept(run, profile) \in SUBSET (run[1] .. run[2] - 1)
         /\ run[2] - run[1] >= 3 => AreKept(Kept(run, profile), Peaks(run, profile), profile)
         /\ \A a, b \in Kept(run, profile) : a # b => Separated(a, b, profile)
<1> DEFINE P == Peaks(run, profile)
           K == Kept(run, profile)
<1>1. P \in SUBSET (run[1] .. run[2] - 1)
  BY DEF Peaks
<1>2. run[1] \in 0 .. n /\ run[2] \in 0 .. n /\ n \in Nat
  BY DEF IsRun, IsProfile
<1> HIDE DEF P
<1>3. P \in SUBSET (0 .. n - 1)
  BY <1>1, <1>2
<1>4. AreKept(KeptPeaks(P, profile), P, profile)
  BY <1>3, KeptPeaksAre
<1>5. K = {} \/ K = KeptPeaks(P, profile)
  BY DEF Kept, P
<1>6. run[2] - run[1] >= 3 => K = KeptPeaks(P, profile)
  BY <1>2 DEF Kept, P
<1> HIDE DEF K
<1>7. K \in SUBSET P
  BY <1>4, <1>5 DEF AreKept
<1>8. \A a, b \in K : a # b => Separated(a, b, profile)
  <2> SUFFICES ASSUME NEW a \in K, NEW b \in K, a # b PROVE Separated(a, b, profile)
    OBVIOUS
  <2>1. AreKept(K, P, profile)
    BY <1>4, <1>5
  <2> QED
    BY <1>3, <2>1, KeptAreApart
<1> QED
  BY <1>1, <1>4, <1>6, <1>7, <1>8 DEF P, K

\* Where a run is cut: inside it, and once in every valley between two of the kept.
LEMMA CutsAre ==
  ASSUME NEW n, NEW profile, IsProfile(profile, n), NEW run, IsRun(run, n)
  PROVE  LET K == Kept(run, profile)
             E == CutAt(run, profile)
         IN  /\ SplitAtValleys(run, profile) = Neighbours(E)
             /\ E \in SUBSET (run[1] .. run[2]) /\ run[1] \in E /\ run[2] \in E
             /\ \A p \in Neighbours(K) :
                  LET v == ValleyRow(p[1], p[2], profile)
                  IN v \in E /\ p[1] < v /\ v < p[2] /\ IsValley(v, p[1], p[2], K, profile)
             /\ \A v \in E \ {run[1], run[2]} :
                  \E p \in Neighbours(K) : v = ValleyRow(p[1], p[2], profile)
<1> DEFINE K == Kept(run, profile)
           E == CutAt(run, profile)
           ends == {run[1], run[2]}
           Cut(p) == ValleyRow(p[1], p[2], profile)
<1>1. SplitAtValleys(run, profile) = Neighbours(E)
  BY Zenon DEF SplitAtValleys, CutAt, Kept
<1>2. E = ends \cup {Cut(p) : p \in Neighbours(K)}
  BY Zenon DEF CutAt
<1>3. run[1] \in 0 .. n /\ run[2] \in 0 .. n /\ n \in Nat /\ run[1] < run[2]
  BY DEF IsRun, IsProfile
<1>4. K \in SUBSET (run[1] .. run[2] - 1) /\ \A a, b \in K : a # b => Separated(a, b, profile)
  BY KeptIs
<1> HIDE DEF K, E
<1>5. ASSUME NEW p \in Neighbours(K)
      PROVE  /\ p[1] \in run[1] .. run[2] - 1 /\ p[2] \in run[1] .. run[2] - 1
             /\ Cut(p) \in run[1] .. run[2] /\ p[1] < Cut(p) /\ Cut(p) < p[2]
             /\ IsValley(Cut(p), p[1], p[2], K, profile)
  <2> DEFINE a == p[1]
             b == p[2]
  <2>1. a \in K /\ b \in K /\ a < b /\ ~\E x \in K : a < x /\ x < b
    BY DEF Neighbours
  <2> HIDE DEF a, b
  <2>2. /\ a \in run[1] .. run[2] - 1 /\ b \in run[1] .. run[2] - 1
        /\ \A k \in K : k \in Int
    BY <1>3, <1>4, <2>1
  <2>3. a \in 0 .. n - 1 /\ b \in a .. n - 1 /\ a # b
    BY <1>3, <2>1, <2>2
  <2>4. Separated(a, b, profile)
    BY <1>4, <2>1, <2>3
  <2>5. \A k \in K : k <= a \/ b <= k
    BY <2>1, <2>2
  <2> DEFINE v == ValleyRow(a, b, profile)
  <2>6. v \in a .. b /\ IsValley(v, a, b, K, profile)
    BY <2>3, <2>4, <2>5, ValleyRowIs
  <2> HIDE DEF v
  <2>7. a < v /\ v < b
    BY <2>6 DEF IsValley
  <2>8. v \in run[1] .. run[2]
    BY <1>3, <2>2, <2>6
  <2> QED
    BY <2>2, <2>6, <2>7, <2>8 DEF a, b, v
<1> HIDE DEF Cut
<1>6. E \in SUBSET (run[1] .. run[2]) /\ run[1] \in E /\ run[2] \in E
  BY <1>2, <1>3, <1>5
<1>7. \A v \in E \ {run[1], run[2]} : \E p \in Neighbours(K) : v = Cut(p)
  BY <1>2
<1>8. \A p \in Neighbours(K) :
        Cut(p) \in E /\ p[1] < Cut(p) /\ Cut(p) < p[2] /\ IsValley(Cut(p), p[1], p[2], K, profile)
  BY <1>2, <1>5
<1> QED
  BY <1>1, <1>6, <1>7, <1>8, Zenon DEF K, E, Cut

\* A piece of a run: no two of the kept are in it, and it ends where the run does
\* or at a valley.
LEMMA PieceIs ==
  ASSUME NEW n, NEW profile, IsProfile(profile, n), NEW run, IsRun(run, n),
         NEW piece \in SplitAtValleys(run, profile)
  PROVE  LET K == Kept(run, profile)
             AtValley(v) == \E a, b \in K : IsValley(v, a, b, K, profile)
         IN  /\ piece = <<piece[1], piece[2]>> /\ piece[1] \in run[1] .. run[2] - 1
             /\ piece[2] \in piece[1] + 1 .. run[2]
             /\ \A a, b \in K : ~(piece[1] <= a /\ a < b /\ b < piece[2])
             /\ piece[1] = run[1] \/ AtValley(piece[1])
             /\ piece[2] = run[2] \/ AtValley(piece[2])
<1> DEFINE K == Kept(run, profile)
           E == CutAt(run, profile)
           AtValley(v) == \E a, b \in K : IsValley(v, a, b, K, profile)
<1>1. Neighbours(E) = SplitAtValleys(run, profile) /\ E \in SUBSET (run[1] .. run[2])
  BY CutsAre
<1>2. run[1] \in 0 .. n /\ run[2] \in 0 .. n /\ n \in Nat /\ run[1] < run[2]
  BY DEF IsRun, IsProfile
<1>3. K \in SUBSET (run[1] .. run[2] - 1)
  BY KeptIs
<1>4. \A p \in Neighbours(K) :
         LET v == ValleyRow(p[1], p[2], profile)
         IN v \in E /\ p[1] < v /\ v < p[2] /\ IsValley(v, p[1], p[2], K, profile)
  BY CutsAre, Zenon
<1>5. \A v \in E \ {run[1], run[2]} : \E p \in Neighbours(K) : v = ValleyRow(p[1], p[2], profile)
  BY CutsAre, Zenon
<1> HIDE DEF K, E
<1>6. \A v \in E \ {run[1], run[2]} : AtValley(v)
  <2> SUFFICES ASSUME NEW v \in E \ {run[1], run[2]} PROVE AtValley(v)
    OBVIOUS
  <2>1. PICK p \in Neighbours(K) : v = ValleyRow(p[1], p[2], profile)
    BY <1>5
  <2>2. p[1] \in K /\ p[2] \in K /\ IsValley(v, p[1], p[2], K, profile)
    BY <1>4, <2>1 DEF Neighbours
  <2> QED
    BY <2>2
<1>7. piece \in E \X E /\ piece[1] < piece[2] /\ \A x \in E : ~(piece[1] < x /\ x < piece[2])
  BY <1>1 DEF Neighbours
<1>8. /\ piece = <<piece[1], piece[2]>> /\ piece[1] \in run[1] .. run[2] - 1
      /\ piece[2] \in piece[1] + 1 .. run[2] /\ piece[1] \in E /\ piece[2] \in E
  <2>1. piece = <<piece[1], piece[2]>> /\ piece[1] \in E /\ piece[2] \in E
    BY <1>7
  <2> DEFINE a == piece[1]
             b == piece[2]
  <2>2. a \in run[1] .. run[2] /\ b \in run[1] .. run[2] /\ a < b
    BY <1>1, <1>7, <2>1
  <2> HIDE DEF a, b
  <2>3. a \in run[1] .. run[2] - 1 /\ b \in a + 1 .. run[2]
    BY <1>2, <2>2
  <2> QED
    BY <2>1, <2>3 DEF a, b
<1>9. ASSUME NEW a \in K, NEW b \in K, piece[1] <= a, a < b, b < piece[2] PROVE FALSE
  <2>1. K \in SUBSET Nat /\ a \in Nat
    BY <1>2, <1>3
  <2>2. PICK p \in Neighbours(K) : p[1] <= a /\ a < p[2]
    BY <1>9, <2>1, NeighboursAround
  <2>3. p[1] = a /\ p[2] <= b /\ p[2] \in Nat
    <3>1. p[1] \in K /\ p[2] \in K /\ \A x \in K : ~(p[1] < x /\ x < p[2])
      BY DEF Neighbours
    <3>2. p[1] \in Nat /\ p[2] \in Nat /\ b \in Nat
      BY <2>1, <3>1
    <3> QED
      BY <1>9, <2>1, <2>2, <3>1, <3>2
  <2> DEFINE v == ValleyRow(p[1], p[2], profile)
  <2>4. v \in E /\ p[1] < v /\ v < p[2]
    BY <1>4, Zenon
  <2> HIDE DEF v
  <2>5. v \in Int
    BY <1>1, <1>2, <2>4
  <2>6. piece[1] < v /\ v < piece[2]
    <3>1. b \in Nat /\ piece[1] \in Int /\ piece[2] \in Int
      BY <1>2, <1>8, <2>1
    <3> QED
      BY <1>9, <2>1, <2>3, <2>4, <2>5, <3>1
  <2> QED
    BY <1>7, <2>4, <2>6
<1>10. /\ piece[1] = run[1] \/ AtValley(piece[1])
       /\ piece[2] = run[2] \/ AtValley(piece[2])
  <2>1. piece[1] # run[2] /\ piece[2] # run[1]
    BY <1>2, <1>8
  <2> HIDE DEF AtValley
  <2> QED
    BY <1>6, <1>8, <2>1
<1> QED
  BY <1>8, <1>9, <1>10 DEF K

\* The first highest of some rows in a row.
LEMMA HighestRow ==
  ASSUME NEW n, NEW profile, IsProfile(profile, n), NEW a \in 0 .. n - 1, NEW b \in a .. n - 1
  PROVE  \E q \in a .. b : /\ \A i \in a .. b : profile[i] <= profile[q]
                           /\ \A i \in a .. q - 1 : profile[i] < profile[q]
<1> DEFINE D == a .. b
           S == {profile[i] : i \in D}
           f == [i \in D |-> profile[i]]
<1>1. \A i \in D : profile[i] \in Nat /\ i \in Nat
  BY DEF IsProfile
<1>2. PICK h \in S : \A y \in S : y <= h
  <2>1. S \in SUBSET Int /\ S # {}
    BY <1>1
  <2>2. f \in Surjection(D, S)
    BY DEF Surjection
  <2>3. IsFiniteSet(D)
    BY FS_Interval
  <2> HIDE DEF D, S, f
  <2>4. IsFiniteSet(S)
    BY <2>2, <2>3, FS_Surjection
  <2>5. Max(S) \in S /\ \A y \in S : Max(S) >= y
    BY <2>1, <2>4, MaxIs
  <2> QED
    BY <2>1, <2>5
<1> DEFINE top == {i \in D : profile[i] = h}
<1>3. PICK q \in top : \A i \in top : q <= i
  <2>1. top \subseteq Nat /\ top # {}
    BY <1>1, <1>2
  <2> HIDE DEF top
  <2> QED
    BY <2>1, LeastNatural
<1>4. q \in D /\ profile[q] = h
  BY <1>3
<1>5. \A i \in D : profile[i] <= h
  BY <1>2
<1>6. \A i \in a .. q - 1 : profile[i] < h
  <2> SUFFICES ASSUME NEW i \in a .. q - 1 PROVE profile[i] < h
    OBVIOUS
  <2>1. i \in D /\ i < q /\ q \in Nat /\ i \in Nat
    BY <1>1, <1>4
  <2>2. profile[i] # h
    BY <1>3, <2>1
  <2> HIDE DEF top, S
  <2> QED
    BY <1>1, <1>4, <1>5, <2>1, <2>2
<1> HIDE DEF top, S
<1> QED
  BY <1>4, <1>5, <1>6

\* A row m of a piece that is low beside rows i and j on either side of it: the
\* shape in which a piece would span a valley.
IsDip(i, m, j, profile) ==
  /\ i < m /\ m < j
  /\ Valley[2] * profile[m] < Valley[1] * profile[i]
  /\ Valley[2] * profile[m] < Valley[1] * profile[j]

\* A run does not start with a plateau.
FallsAtOnce(run, profile) ==
  run[2] - run[1] > 1 => profile[run[1]] # profile[run[1] + 1]

\* The valley's share grows with the row.
LEMMA ShareGrows ==
  ASSUME NEW x \in Nat, NEW y \in Nat, NEW z \in Nat, x <= y, Valley[2] * z < Valley[1] * x
  PROVE  Valley[2] * z < Valley[1] * y /\ z < x
<1>1. Valley[1] \in Nat /\ Valley[2] \in Nat /\ Valley[1] <= Valley[2]
  BY SheetAssumption
<1>2. Valley[1] * x <= Valley[1] * y
  BY <1>1, ProductGrows
<1>3. ASSUME x <= z PROVE FALSE
  <2>1. Valley[2] * x <= Valley[2] * z
    BY <1>1, <1>3, ProductGrows
  <2>2. x * Valley[1] <= x * Valley[2]
    BY <1>1, ProductGrows
  <2> DEFINE p == Valley[2] * z
             q == Valley[2] * x
             r == Valley[1] * x
  <2>3. p \in Int /\ q \in Int /\ r \in Int /\ q <= p /\ r <= q /\ p < r
    BY <1>1, <2>1, <2>2
  <2> HIDE DEF p, q, r
  <2> QED
    BY <2>3
<1> DEFINE p == Valley[2] * z
           r == Valley[1] * x
           s == Valley[1] * y
<1>4. p \in Int /\ r \in Int /\ s \in Int /\ r <= s /\ p < r
  BY <1>1, <1>2
<1> HIDE DEF p, r, s
<1>5. p < s /\ z < x
  BY <1>3, <1>4
<1> QED
  BY <1>5 DEF p, s

\* On the left of a dip a piece has one of the kept.
LEMMA KeptOnLeft ==
  ASSUME NEW n, NEW profile, IsProfile(profile, n), NEW run, IsRun(run, n),
         FallsAtOnce(run, profile), NEW piece \in SplitAtValleys(run, profile),
         NEW m \in piece[1] .. piece[2] - 1,
         \E i, j \in piece[1] .. piece[2] - 1 : IsDip(i, m, j, profile)
  PROVE  \E k \in Kept(run, profile) : piece[1] <= k /\ k < m
<1> DEFINE K == Kept(run, profile)
           P == Peaks(run, profile)
           s == run[1]
           e == run[2]
           x == piece[1]
           y == piece[2]
<1>1. PICK i \in x .. y - 1, j \in x .. y - 1 : IsDip(i, m, j, profile)
  OBVIOUS
<1>2. /\ x \in s .. e - 1 /\ y \in x + 1 .. e
      /\ x = s \/ \E a, b \in K : IsValley(x, a, b, K, profile)
  BY PieceIs, Zenon
<1>3. s \in 0 .. n /\ e \in 0 .. n /\ n \in Nat
  BY DEF IsRun, IsProfile
<1>4. K \in SUBSET (s .. e - 1) /\ (e - s >= 3 => AreKept(K, P, profile))
  BY KeptIs
<1>5. \A r \in s .. e - 1 : r \in 0 .. n - 1 /\ profile[r] \in Nat
  BY <1>3 DEF IsProfile
<1>6. FallsAtOnce(run, profile) <=> (e - s > 1 => profile[s] # profile[s + 1])
  BY DEF FallsAtOnce
<1>7. \A r : r \in P <=>
        /\ r \in s .. e - 1
        /\ r = s \/ profile[r] > profile[r - 1]
        /\ CASE r = s -> profile[r] > profile[r + 1]
             [] r = e - 1 -> TRUE
             [] OTHER -> profile[r] >= profile[r + 1]
  BY DEF Peaks
<1> HIDE DEF K, P, s, e, x, y
<1>8. i < m /\ m < j /\ i \in s .. e - 1 /\ m \in s .. e - 1 /\ j \in s .. e - 1 /\ e - s >= 3
      /\ x <= i /\ j < y /\ m \in x .. y - 1
  BY <1>1, <1>2, <1>3 DEF IsDip, x, y
<1>9. PICK q \in x .. m : /\ \A r \in x .. m : profile[r] <= profile[q]
                          /\ \A r \in x .. q - 1 : profile[r] < profile[q]
  <2>1. x \in 0 .. n - 1 /\ m \in x .. n - 1
    BY <1>2, <1>3, <1>8
  <2> QED
    BY <2>1, HighestRow
<1>10. q \in s .. e - 1 /\ profile[i] <= profile[q]
  BY <1>2, <1>3, <1>8, <1>9
<1>11. profile[m] < profile[i] /\ Valley[2] * profile[m] < Valley[1] * profile[q]
  <2>1. profile[i] \in Nat /\ profile[q] \in Nat /\ profile[m] \in Nat
    BY <1>5, <1>8, <1>10
  <2>2. Valley[2] * profile[m] < Valley[1] * profile[i]
    BY <1>1 DEF IsDip
  <2> QED
    BY <1>10, <2>1, <2>2, ShareGrows
<1>12. profile[m] < profile[q] /\ q < m
  <2>1. profile[i] \in Nat /\ profile[q] \in Nat /\ profile[m] \in Nat
    BY <1>5, <1>8, <1>10
  <2> QED
    BY <1>2, <1>3, <1>8, <1>9, <1>10, <1>11, <2>1
<1> SUFFICES ASSUME \A k \in K : ~(x <= k /\ k < m) PROVE FALSE
  BY DEF K, x
<1>13. ASSUME NEW a \in K, NEW b \in K, IsValley(x, a, b, K, profile)
       PROVE  a < x /\ x < b /\ m <= b /\ profile[x] <= profile[m] /\ \A k \in K : k <= a \/ b <= k
  <2>1. a < x /\ x < b /\ \A r \in a .. b : profile[x] <= profile[r]
    BY <1>13 DEF IsValley
  <2>2. a \in s .. e - 1 /\ b \in s .. e - 1
    BY <1>4
  <2>3. m <= b
    BY <1>2, <1>3, <1>8, <2>1, <2>2
  <2>4. m \in a .. b
    BY <1>2, <1>3, <1>8, <2>1, <2>2, <2>3
  <2> QED
    BY <1>13, <2>1, <2>3, <2>4 DEF IsValley
<1>14. q = x => x = s
  <2> SUFFICES ASSUME q = x, x # s PROVE FALSE
    OBVIOUS
  <2>1. profile[x] <= profile[m]
    BY <1>2, <1>13
  <2>2. profile[x] \in Nat /\ profile[m] \in Nat
    BY <1>5, <1>8, <1>10
  <2> QED
    BY <1>12, <2>1, <2>2
<1>15. q \in P
  <2>1. q # e - 1 /\ q + 1 \in x .. m /\ q + 1 \in s .. e - 1
    BY <1>2, <1>3, <1>8, <1>9, <1>12
  <2>2. profile[q] >= profile[q + 1]
    BY <1>5, <1>9, <1>10, <2>1
  <2>3. CASE q = s
    <3>1. profile[q] # profile[q + 1]
      BY <1>3, <1>6, <1>8, <2>3
    <3>2. profile[q] > profile[q + 1]
      BY <1>5, <1>10, <2>1, <2>2, <3>1
    <3> QED
      BY <1>7, <1>10, <2>3, <3>2
  <2>4. CASE q # s
    <3>1. q - 1 \in x .. q - 1 /\ q - 1 \in s .. e - 1
      BY <1>2, <1>3, <1>9, <1>10, <1>14, <2>4
    <3>2. profile[q] > profile[q - 1]
      BY <1>5, <1>9, <1>10, <3>1
    <3> QED
      BY <1>7, <1>10, <2>1, <2>2, <2>4, <3>2
  <2> QED
    BY <2>3, <2>4
<1>16. q \notin K
  BY <1>2, <1>3, <1>9, <1>12
<1>17. PICK k \in K : Higher(k, q, profile) /\ ~Separated(q, k, profile)
  BY <1>4, <1>8, <1>15, <1>16 DEF AreKept
<1>18. k \in s .. e - 1 /\ k \in 0 .. n - 1 /\ q \in 0 .. n - 1 /\ m \in 0 .. n - 1
  BY <1>4, <1>5, <1>8, <1>10
<1>19. profile[q] <= profile[k]
  BY <1>5, <1>10, <1>17, <1>18 DEF Higher
<1>20. ASSUME NEW r \in 0 .. n - 1, profile[r] <= profile[m], (q <= r /\ r <= k) \/ (k <= r /\ r <= q)
       PROVE  FALSE
  <2>1. profile[r] \in Nat /\ profile[m] \in Nat /\ profile[q] \in Nat /\ profile[k] \in Nat
    BY <1>18 DEF IsProfile
  <2>2. Valley[2] * profile[r] <= Valley[2] * profile[m] /\ Valley[1] \in Nat /\ Valley[2] \in Nat
    BY <1>20, <2>1, SheetAssumption, ProductGrows
  <2>3. Valley[2] * profile[r] < Valley[1] * profile[q]
    <3> DEFINE u == Valley[2] * profile[r]
               v == Valley[2] * profile[m]
               w == Valley[1] * profile[q]
    <3>1. u \in Int /\ v \in Int /\ w \in Int /\ u <= v /\ v < w
      BY <1>11, <2>1, <2>2
    <3> HIDE DEF u, v, w
    <3>2. u < w
      BY <3>1
    <3> QED
      BY <3>2 DEF u, w
  <2>4. Valley[2] * profile[r] < Valley[1] * profile[k]
    BY <1>19, <2>1, <2>3, ShareGrows
  <2>5. Separated(q, k, profile)
    BY <1>18, <1>20, <2>3, <2>4, SeparatedBy
  <2> QED
    BY <1>17, <2>5
<1>21. k < m
  <2>1. m <= k => FALSE
    <3>1. profile[m] \in Nat
      BY <1>5, <1>8
    <3> QED
      BY <1>12, <1>18, <1>20, <3>1
  <2> QED
    BY <1>18, <2>1
<1>22. k < x
  BY <1>2, <1>3, <1>18, <1>21
<1>23. PICK a \in K, b \in K : IsValley(x, a, b, K, profile)
  BY <1>2, <1>3, <1>18, <1>22
<1>24. a < x /\ x < b /\ profile[x] <= profile[m] /\ k <= a
  <2>1. a < x /\ x < b /\ profile[x] <= profile[m] /\ (k <= a \/ b <= k)
    BY <1>13, <1>23
  <2>2. a \in s .. e - 1 /\ b \in s .. e - 1
    BY <1>4
  <2> QED
    BY <1>2, <1>3, <1>18, <1>22, <2>1, <2>2
<1>25. x \in 0 .. n - 1 /\ k <= x /\ x <= q
  BY <1>2, <1>3, <1>9, <1>18, <1>22
<1> QED
  BY <1>20, <1>24, <1>25

\* And on the right of it.
LEMMA KeptOnRight ==
  ASSUME NEW n, NEW profile, IsProfile(profile, n), NEW run, IsRun(run, n),
         NEW piece \in SplitAtValleys(run, profile),
         NEW m \in piece[1] .. piece[2] - 1,
         \E i, j \in piece[1] .. piece[2] - 1 : IsDip(i, m, j, profile)
  PROVE  \E k \in Kept(run, profile) : m < k /\ k < piece[2]
<1> DEFINE K == Kept(run, profile)
           P == Peaks(run, profile)
           s == run[1]
           e == run[2]
           x == piece[1]
           y == piece[2]
<1>1. PICK i \in x .. y - 1, j \in x .. y - 1 : IsDip(i, m, j, profile)
  OBVIOUS
<1>2. /\ x \in s .. e - 1 /\ y \in x + 1 .. e
      /\ y = e \/ \E a, b \in K : IsValley(y, a, b, K, profile)
  BY PieceIs, Zenon
<1>3. s \in 0 .. n /\ e \in 0 .. n /\ n \in Nat
  BY DEF IsRun, IsProfile
<1>4. K \in SUBSET (s .. e - 1) /\ (e - s >= 3 => AreKept(K, P, profile))
  BY KeptIs
<1>5. \A r \in s .. e - 1 : r \in 0 .. n - 1 /\ profile[r] \in Nat
  BY <1>3 DEF IsProfile
<1>6. \A r : r \in P <=>
        /\ r \in s .. e - 1
        /\ r = s \/ profile[r] > profile[r - 1]
        /\ CASE r = s -> profile[r] > profile[r + 1]
             [] r = e - 1 -> TRUE
             [] OTHER -> profile[r] >= profile[r + 1]
  BY DEF Peaks
<1> HIDE DEF K, P, s, e, x, y
<1>7. i < m /\ m < j /\ i \in s .. e - 1 /\ m \in s .. e - 1 /\ j \in s .. e - 1 /\ e - s >= 3
      /\ x <= i /\ j < y /\ m \in x .. y - 1
  BY <1>1, <1>2, <1>3 DEF IsDip, x, y
<1>8. PICK q \in m .. y - 1 : /\ \A r \in m .. y - 1 : profile[r] <= profile[q]
                              /\ \A r \in m .. q - 1 : profile[r] < profile[q]
  <2>1. m \in 0 .. n - 1 /\ y - 1 \in m .. n - 1
    BY <1>2, <1>3, <1>7
  <2> QED
    BY <2>1, HighestRow
<1>9. q \in s .. e - 1 /\ profile[j] <= profile[q]
  BY <1>2, <1>3, <1>7, <1>8
<1>10. profile[m] < profile[j] /\ Valley[2] * profile[m] < Valley[1] * profile[q]
  <2>1. profile[j] \in Nat /\ profile[q] \in Nat /\ profile[m] \in Nat
    BY <1>5, <1>7, <1>9
  <2>2. Valley[2] * profile[m] < Valley[1] * profile[j]
    BY <1>1 DEF IsDip
  <2> QED
    BY <1>9, <2>1, <2>2, ShareGrows
<1>11. profile[m] < profile[q] /\ m < q
  <2>1. profile[j] \in Nat /\ profile[q] \in Nat /\ profile[m] \in Nat
    BY <1>5, <1>7, <1>9
  <2> QED
    BY <1>2, <1>3, <1>7, <1>8, <1>9, <1>10, <2>1
<1> SUFFICES ASSUME \A k \in K : ~(m < k /\ k < y) PROVE FALSE
  BY DEF K, y
<1>12. ASSUME NEW a \in K, NEW b \in K, IsValley(y, a, b, K, profile)
       PROVE  a < y /\ y < b /\ a <= m /\ profile[y] <= profile[m] /\ \A k \in K : k <= a \/ b <= k
  <2>1. a < y /\ y < b /\ \A r \in a .. b : profile[y] <= profile[r]
    BY <1>12 DEF IsValley
  <2>2. a \in s .. e - 1 /\ b \in s .. e - 1
    BY <1>4
  <2>3. a <= m
    BY <1>2, <1>3, <1>7, <2>1, <2>2
  <2>4. m \in a .. b
    BY <1>2, <1>3, <1>7, <2>1, <2>2, <2>3
  <2> QED
    BY <1>12, <2>1, <2>3, <2>4 DEF IsValley
<1>13. q \in P
  <2>1. q # s /\ q - 1 \in m .. q - 1 /\ q - 1 \in s .. e - 1
    BY <1>2, <1>3, <1>7, <1>8, <1>11
  <2>2. profile[q] > profile[q - 1]
    BY <1>5, <1>8, <1>9, <2>1
  <2>3. q = e - 1 \/ profile[q] >= profile[q + 1]
    <3> SUFFICES ASSUME q # e - 1 PROVE profile[q] >= profile[q + 1]
      OBVIOUS
    <3>1. q + 1 \in s .. e - 1
      BY <1>3, <1>9
    <3>2. CASE q + 1 < y
      <4>1. q + 1 \in m .. y - 1
        BY <1>2, <1>3, <1>7, <1>8, <3>2
      <4> QED
        BY <1>5, <1>8, <1>9, <3>1, <4>1
    <3>3. CASE ~(q + 1 < y)
      <4>1. q + 1 = y /\ y # e
        BY <1>2, <1>3, <1>7, <1>8, <3>1, <3>3
      <4>2. profile[y] <= profile[m]
        BY <1>2, <1>12, <4>1
      <4>3. profile[y] \in Nat /\ profile[m] \in Nat /\ profile[q] \in Nat
        BY <1>5, <1>7, <1>9, <3>1, <4>1
      <4> QED
        BY <1>11, <4>1, <4>2, <4>3
    <3> QED
      BY <3>2, <3>3
  <2> QED
    BY <1>6, <1>9, <2>1, <2>2, <2>3
<1>14. q \notin K
  BY <1>2, <1>3, <1>7, <1>8, <1>11
<1>15. PICK k \in K : Higher(k, q, profile) /\ ~Separated(q, k, profile)
  BY <1>4, <1>7, <1>13, <1>14 DEF AreKept
<1>16. k \in s .. e - 1 /\ k \in 0 .. n - 1 /\ q \in 0 .. n - 1 /\ m \in 0 .. n - 1
  BY <1>4, <1>5, <1>7, <1>9
<1>17. profile[q] <= profile[k]
  BY <1>5, <1>9, <1>15, <1>16 DEF Higher
<1>18. ASSUME NEW r \in 0 .. n - 1, profile[r] <= profile[m], (q <= r /\ r <= k) \/ (k <= r /\ r <= q)
       PROVE  FALSE
  <2>1. profile[r] \in Nat /\ profile[m] \in Nat /\ profile[q] \in Nat /\ profile[k] \in Nat
    BY <1>16 DEF IsProfile
  <2>2. Valley[2] * profile[r] <= Valley[2] * profile[m] /\ Valley[1] \in Nat /\ Valley[2] \in Nat
    BY <1>18, <2>1, SheetAssumption, ProductGrows
  <2>3. Valley[2] * profile[r] < Valley[1] * profile[q]
    <3> DEFINE u == Valley[2] * profile[r]
               v == Valley[2] * profile[m]
               w == Valley[1] * profile[q]
    <3>1. u \in Int /\ v \in Int /\ w \in Int /\ u <= v /\ v < w
      BY <1>10, <2>1, <2>2
    <3> HIDE DEF u, v, w
    <3>2. u < w
      BY <3>1
    <3> QED
      BY <3>2 DEF u, w
  <2>4. Valley[2] * profile[r] < Valley[1] * profile[k]
    BY <1>17, <2>1, <2>3, ShareGrows
  <2>5. Separated(q, k, profile)
    BY <1>16, <1>18, <2>3, <2>4, SeparatedBy
  <2> QED
    BY <1>15, <2>5
<1>19. m < k
  <2>1. k <= m => FALSE
    <3>1. profile[m] \in Nat
      BY <1>5, <1>7
    <3> QED
      BY <1>11, <1>16, <1>18, <3>1
  <2> QED
    BY <1>16, <2>1
<1>20. y <= k
  BY <1>2, <1>3, <1>16, <1>19
<1>21. PICK a \in K, b \in K : IsValley(y, a, b, K, profile)
  BY <1>2, <1>3, <1>16, <1>20
<1>22. a < y /\ y < b /\ profile[y] <= profile[m]
  BY <1>12, <1>21
<1>23. y \in 0 .. n - 1 /\ q <= y
  <2>1. b \in s .. e - 1
    BY <1>4
  <2> QED
    BY <1>2, <1>3, <1>8, <1>22, <2>1
<1> QED
  BY <1>18, <1>20, <1>22, <1>23

\* So no piece of a run that falls at once spans a valley.
LEMMA PieceSpansNoValley ==
  ASSUME NEW n, NEW profile, IsProfile(profile, n), NEW run, IsRun(run, n),
         FallsAtOnce(run, profile), NEW piece \in SplitAtValleys(run, profile),
         NEW i \in piece[1] .. piece[2] - 1, NEW j \in piece[1] .. piece[2] - 1, i < j
  PROVE  Valley[2] * Lowest(profile, i, j) >= Valley[1] * Min({profile[i], profile[j]})
<1> DEFINE low == Lowest(profile, i, j)
           least == Min({profile[i], profile[j]})
           K == Kept(run, profile)
<1>1. /\ piece[1] \in run[1] .. run[2] - 1 /\ piece[2] \in piece[1] + 1 .. run[2]
      /\ \A a, b \in K : ~(piece[1] <= a /\ a < b /\ b < piece[2])
  BY PieceIs, Zenon
<1>2. run[1] \in 0 .. n /\ run[2] \in 0 .. n /\ n \in Nat /\ K \in SUBSET (run[1] .. run[2] - 1)
  BY KeptIs DEF IsRun, IsProfile
<1>3. i \in 0 .. n - 1 /\ j \in i .. n - 1
  BY <1>1, <1>2
<1>4. profile[i] \in Nat /\ profile[j] \in Nat
  BY <1>1, <1>2 DEF IsProfile
<1>5. PICK m \in i .. j : low = profile[m]
  BY <1>3, LowestIs
<1>6. m \in 0 .. n - 1 /\ m \in piece[1] .. piece[2] - 1 /\ profile[m] \in Nat
  <2>1. m \in 0 .. n - 1 /\ m \in piece[1] .. piece[2] - 1
    BY <1>1, <1>2
  <2> QED
    BY <2>1 DEF IsProfile
<1>7. least = IF profile[i] <= profile[j] THEN profile[i] ELSE profile[j]
  BY <1>4, LeastOfTwo
<1> HIDE DEF low, least, K
<1>8. Valley[1] \in Nat /\ Valley[2] \in Nat
  BY SheetAssumption
<1>9. ASSUME Valley[2] * profile[m] < Valley[1] * least PROVE FALSE
  <2>0. least \in Nat /\ least <= profile[i] /\ least <= profile[j]
    BY <1>4, <1>7
  <2>1. /\ Valley[2] * profile[m] < Valley[1] * profile[i] /\ profile[m] < least
        /\ Valley[2] * profile[m] < Valley[1] * profile[j]
    BY <1>4, <1>6, <1>9, <2>0, ShareGrows
  <2>2. IsDip(i, m, j, profile)
    <3>1. m # i /\ m # j
      BY <1>4, <1>6, <2>0, <2>1
    <3>2. i < m /\ m < j
      BY <1>3, <3>1
    <3> QED
      BY <2>1, <3>2 DEF IsDip
  <2>3. PICK k \in K : piece[1] <= k /\ k < m
    BY <1>6, <2>2, KeptOnLeft DEF K
  <2>4. PICK l \in K : m < l /\ l < piece[2]
    BY <1>6, <2>2, KeptOnRight DEF K
  <2>5. k < l
    BY <1>2, <1>6, <2>3, <2>4
  <2> QED
    BY <1>1, <2>3, <2>4, <2>5
<1>10. Valley[2] * profile[m] >= Valley[1] * least
  <2> DEFINE u == Valley[2] * profile[m]
             v == Valley[1] * least
  <2>1. u \in Int /\ v \in Int /\ ~(u < v)
    BY <1>4, <1>6, <1>7, <1>8, <1>9
  <2> HIDE DEF u, v
  <2>2. u >= v
    BY <2>1
  <2> QED
    BY <2>2 DEF u, v
<1> QED
  BY <1>5, <1>10 DEF low, least

--------------------------------------------------------------------------------
(* Runs, and the core of a piece. *)

\* Runs are stretches of flagged rows, with none beside them.
LEMMA RunsAre ==
  ASSUME NEW n \in Nat, NEW flags, DOMAIN flags = 0 .. n - 1, NEW run \in Runs(flags)
  PROVE  /\ IsRun(run, n) /\ run = <<run[1], run[2]>>
         /\ \A i \in run[1] .. run[2] - 1 : flags[i]
         /\ run[1] = 0 \/ ~flags[run[1] - 1]
         /\ run[2] = n \/ ~flags[run[2]]
<1>1. Height(flags) = n
  BY FS_Interval DEF Height
<1>2. /\ run \in (0 .. n) \X (0 .. n) /\ run[1] < run[2]
      /\ \A i \in run[1] .. run[2] - 1 : flags[i]
      /\ run[1] - 1 \notin DOMAIN flags \/ ~flags[run[1] - 1]
      /\ run[2] \notin DOMAIN flags \/ ~flags[run[2]]
  BY <1>1, Zenon DEF Runs
<1>3. run[1] - 1 \in 0 .. n - 1 \/ run[1] = 0
  BY <1>2
<1>4. run[2] \in 0 .. n - 1 \/ run[2] = n
  BY <1>2
<1>5. run = <<run[1], run[2]>>
  BY <1>2
<1> QED
  BY <1>2, <1>3, <1>4, <1>5 DEF IsRun

\* A run reaches as far as the rows are flagged.
LEMMA RunReaches ==
  ASSUME NEW n \in Nat, NEW flags, DOMAIN flags = 0 .. n - 1, NEW run \in Runs(flags),
         NEW i \in run[1] .. run[2] - 1, NEW j \in 0 .. n - 1,
         \A r \in i .. j : flags[r]
  PROVE  j < run[2]
<1>1. run[1] \in 0 .. n /\ run[2] \in 0 .. n /\ (run[2] = n \/ ~flags[run[2]])
  BY RunsAre DEF IsRun
<1>2. CASE run[2] = n
  BY <1>1, <1>2
<1>3. CASE ~flags[run[2]] /\ run[2] # n
  <2>1. run[2] \notin i .. j
    BY <1>3
  <2> QED
    BY <1>1, <2>1
<1> QED
  BY <1>1, <1>2, <1>3

\* Two runs have a row between them.
LEMMA RunsApart ==
  ASSUME NEW n \in Nat, NEW flags, DOMAIN flags = 0 .. n - 1,
         NEW p \in Runs(flags), NEW q \in Runs(flags), p # q
  PROVE  p[2] < q[1] \/ q[2] < p[1]
<1> DEFINE Rises(u, v) == u[1] = v[1] \/ u[2] < v[1] \/ v[1] < u[1]
<1>1. \A u \in Runs(flags) :
        /\ u[1] \in 0 .. n /\ u[2] \in 0 .. n /\ u[1] < u[2] /\ u = <<u[1], u[2]>>
        /\ \A i \in u[1] .. u[2] - 1 : flags[i]
        /\ u[1] = 0 \/ ~flags[u[1] - 1]
        /\ u[2] = n \/ ~flags[u[2]]
  BY RunsAre DEF IsRun
<1>2. ASSUME NEW u \in Runs(flags), NEW v \in Runs(flags), u[1] < v[1], v[1] <= u[2]
      PROVE  FALSE
  <2>1. v[1] - 1 \in u[1] .. u[2] - 1 /\ v[1] # 0
    BY <1>1, <1>2
  <2> QED
    BY <1>1, <2>1
<1>3. ASSUME NEW u \in Runs(flags), NEW v \in Runs(flags), u[1] = v[1], u[2] < v[2]
      PROVE  FALSE
  <2>1. u[2] \in v[1] .. v[2] - 1 /\ u[2] # n
    BY <1>1, <1>3
  <2> QED
    BY <1>1, <2>1
<1>4. p[1] \in Int /\ q[1] \in Int /\ p[2] \in Int /\ q[2] \in Int
  BY <1>1
<1>5. CASE p[1] = q[1]
  <2>1. p[2] = q[2]
    BY <1>3, <1>4, <1>5
  <2> QED
    BY <1>1, <1>5, <2>1
<1>6. CASE p[1] < q[1]
  BY <1>2, <1>4, <1>6
<1>7. CASE q[1] < p[1]
  BY <1>2, <1>4, <1>7
<1> QED
  BY <1>4, <1>5, <1>6, <1>7

\* What a stretch of rows is trimmed to: its peak, and the rows next to it as far
\* as they hold the peak's level.
IsCore(core, x, y, peak, profile) ==
  LET level == Level(profile[peak])
  IN /\ core = <<core[1], core[2]>> /\ core[1] \in x .. peak /\ core[2] \in peak + 1 .. y
     /\ \A i \in x .. y - 1 : profile[i] <= profile[peak]
     /\ \A i \in x .. peak - 1 : profile[i] < profile[peak]
     /\ \A i \in core[1] .. core[2] - 1 : i = peak \/ profile[i] >= level
     /\ core[1] = x \/ ~(profile[core[1] - 1] >= level)
     /\ core[2] = y \/ ~(profile[core[2]] >= level)

\* A stretch of rows is trimmed to a core of it.
LEMMA CoreIs ==
  ASSUME NEW n, NEW profile, IsProfile(profile, n), NEW x \in 0 .. n - 1, NEW y \in x + 1 .. n
  PROVE  \E peak \in x .. y - 1 : IsCore(TrimToCore(<<x, y>>, profile), x, y, peak, profile)
<1> DEFINE rows == x .. y - 1
           high == Max({profile[i] : i \in rows})
           first == Min({i \in rows : profile[i] = high})
           Solid(a, b) == \A i \in (a .. b) \ {first} : profile[i] >= Level(high)
           lows == {a \in x .. first : Solid(a, first)}
           highs == {b \in first .. y - 1 : Solid(first, b)}
<1>1. TrimToCore(<<x, y>>, profile) = <<Min(lows), Max(highs) + 1>>
  <2>1. <<x, y>>[1] = x /\ <<x, y>>[2] = y
    OBVIOUS
  <2> QED
    BY <2>1, Zenon DEF TrimToCore
<1>2. n \in Nat /\ \A i \in 0 .. n - 1 : profile[i] \in Nat
  BY DEF IsProfile
<1>3. PICK q \in x .. y - 1 : /\ \A i \in x .. y - 1 : profile[i] <= profile[q]
                              /\ \A i \in x .. q - 1 : profile[i] < profile[q]
  <2>1. y - 1 \in x .. n - 1
    BY <1>2
  <2> QED
    BY <2>1, HighestRow
<1>4. \A i \in rows : profile[i] \in Nat
  BY <1>2
<1>5. high = profile[q]
  <2> DEFINE S == {profile[i] : i \in rows}
  <2>1. profile[q] \in S /\ \A s \in S : s \in Nat /\ profile[q] >= s
    BY <1>3, <1>4
  <2> HIDE DEF S
  <2>2. Max(S) \in S /\ \A s \in S : Max(S) >= s
    BY <2>1 DEF Max
  <2>3. Max(S) = profile[q]
    BY <2>1, <2>2
  <2> QED
    BY <2>3 DEF S
<1>6. first = q
  <2> DEFINE S == {i \in rows : profile[i] = high}
  <2> HIDE DEF high
  <2>1. q \in S /\ \A s \in S : s \in Int /\ q <= s
    <3>1. q \in S
      BY <1>5
    <3>2. ASSUME NEW s \in S PROVE s \in Int /\ q <= s
      <4>1. s \in x .. y - 1 /\ profile[s] = profile[q]
        BY <1>5
      <4>2. s \notin x .. q - 1
        BY <1>3, <1>4, <4>1
      <4> QED
        BY <4>1, <4>2
    <3> QED
      BY <3>1, <3>2
  <2> HIDE DEF S
  <2>2. Min(S) \in S /\ \A s \in S : Min(S) <= s
    BY <2>1 DEF Min
  <2>3. Min(S) \in Int /\ q \in Int /\ q <= Min(S) /\ Min(S) <= q
    BY <2>1, <2>2
  <2>4. Min(S) = q
    BY <2>3
  <2> QED
    BY <2>4 DEF S
<1> DEFINE level == Level(profile[q])
<1>7. \A a, b : Solid(a, b) <=> \A i \in (a .. b) \ {q} : profile[i] >= level
  <2> HIDE DEF high, first
  <2> QED
    BY <1>5, <1>6
<1> HIDE DEF high, first, level, Solid
<1>8. q \in lows /\ q \in highs
  <2>1. Solid(q, q)
    BY <1>3, <1>7
  <2> QED
    BY <1>3, <1>6, <2>1
<1>9. Min(lows) \in lows /\ \A a \in lows : Min(lows) <= a
  <2>1. lows \in SUBSET (x .. q) /\ lows \in SUBSET Int
    BY <1>6
  <2>2. IsFiniteSet(lows)
    <3>1. IsFiniteSet(x .. q)
      BY FS_Interval
    <3> QED
      BY <2>1, <3>1, FS_Subset
  <2> HIDE DEF lows
  <2> QED
    BY <1>8, <2>1, <2>2, MinIs
<1>10. Max(highs) \in highs /\ \A b \in highs : Max(highs) >= b
  <2>1. highs \in SUBSET (q .. y - 1) /\ highs \in SUBSET Int
    BY <1>6
  <2>2. IsFiniteSet(highs)
    <3>1. IsFiniteSet(q .. y - 1)
      BY FS_Interval
    <3> QED
      BY <2>1, <3>1, FS_Subset
  <2> HIDE DEF highs
  <2> QED
    BY <1>8, <2>1, <2>2, MaxIs
<1> DEFINE lo == Min(lows)
           hi == Max(highs)
<1>11. /\ lo \in x .. q /\ \A i \in (lo .. q) \ {q} : profile[i] >= level
       /\ \A a \in x .. q : (\A i \in (a .. q) \ {q} : profile[i] >= level) => lo <= a
  BY <1>6, <1>7, <1>9
<1>12. /\ hi \in q .. y - 1 /\ \A i \in (q .. hi) \ {q} : profile[i] >= level
       /\ \A b \in q .. y - 1 : (\A i \in (q .. b) \ {q} : profile[i] >= level) => hi >= b
  BY <1>6, <1>7, <1>10
<1> HIDE DEF lo, hi, lows, highs
<1>13. lo = x \/ ~(profile[lo - 1] >= level)
  <2> SUFFICES ASSUME lo # x, profile[lo - 1] >= level PROVE FALSE
    OBVIOUS
  <2>1. lo - 1 \in x .. q
    BY <1>3, <1>11
  <2>2. \A i \in (lo - 1 .. q) \ {q} : i = lo - 1 \/ i \in (lo .. q) \ {q}
    BY <1>11
  <2> QED
    BY <1>3, <1>11, <2>1, <2>2
<1>14. hi + 1 = y \/ ~(profile[hi + 1] >= level)
  <2> SUFFICES ASSUME hi + 1 # y, profile[hi + 1] >= level PROVE FALSE
    OBVIOUS
  <2>1. hi + 1 \in q .. y - 1
    BY <1>3, <1>12
  <2>2. \A i \in (q .. hi + 1) \ {q} : i = hi + 1 \/ i \in (q .. hi) \ {q}
    BY <1>12
  <2> QED
    BY <1>3, <1>12, <2>1, <2>2
<1>15. \A i \in lo .. hi + 1 - 1 : i = q \/ profile[i] >= level
  <2> SUFFICES ASSUME NEW i \in lo .. hi, i # q PROVE profile[i] >= level
    BY <1>3, <1>11, <1>12
  <2>1. i \in (lo .. q) \ {q} \/ i \in (q .. hi) \ {q}
    BY <1>3, <1>11, <1>12
  <2> QED
    BY <1>11, <1>12, <2>1
<1> DEFINE core == <<lo, hi + 1>>
<1>16. core[1] = lo /\ core[2] = hi + 1
  OBVIOUS
<1>17. TrimToCore(<<x, y>>, profile) = core
  BY <1>1 DEF lo, hi
<1> HIDE DEF core
<1>18. core = <<core[1], core[2]>> /\ core[1] \in x .. q /\ core[2] \in q + 1 .. y
  <2>1. core = <<core[1], core[2]>>
    BY <1>16 DEF core
  <2> QED
    BY <1>3, <1>11, <1>12, <1>16, <2>1
<1>19. IsCore(core, x, y, q, profile)
  <2>1. \A i \in core[1] .. core[2] - 1 : i = q \/ profile[i] >= level
    <3> SUFFICES ASSUME NEW i \in core[1] .. core[2] - 1 PROVE i = q \/ profile[i] >= level
      OBVIOUS
    <3>1. i \in lo .. hi + 1 - 1
      BY <1>3, <1>11, <1>12, <1>16
    <3> QED
      BY <1>15, <3>1
  <2>2. /\ core[1] = x \/ ~(profile[core[1] - 1] >= level)
        /\ core[2] = y \/ ~(profile[core[2]] >= level)
    BY <1>13, <1>14, <1>16
  <2> QED
    BY <1>3, <1>18, <2>1, <2>2, Zenon DEF IsCore, level
<1> QED
  BY <1>17, <1>19

--------------------------------------------------------------------------------
(* The stages of a sheet's analysis. *)

\* A smoothed profile is one.
LEMMA SmoothIs ==
  ASSUME NEW n \in Nat, NEW raw \in [0 .. n - 1 -> Nat], NEW window \in Nat
  PROVE  IsProfile(Smooth(raw, window), n)
<1>1. Height(raw) = n
  BY FS_Interval DEF Height
<1> DEFINE half == window \div 2
           lo(i) == Max({0, i - half})
           hi(i) == Min({n, i + half + 1})
           mean(i) == SumFunctionOnSet(raw, lo(i) .. hi(i) - 1) \div (hi(i) - lo(i))
<1>2. CASE window <= 1
  <2>1. Smooth(raw, window) = raw
    BY <1>2 DEF Smooth
  <2> QED
    BY <2>1 DEF IsProfile
<1>3. CASE ~(window <= 1)
  <2>1. Smooth(raw, window) = [i \in 0 .. n - 1 |-> mean(i)]
    <3>1. DOMAIN raw = 0 .. n - 1
      OBVIOUS
    <3>2. Smooth(raw, window) = [i \in DOMAIN raw |-> mean(i)]
      BY <1>1, <1>3, Zenon DEF Smooth, SumOver
    <3> HIDE DEF mean
    <3> QED
      BY <3>1, <3>2
  <2>2. ASSUME NEW i \in 0 .. n - 1 PROVE mean(i) \in Nat
    <3>1. half \in Nat
      OBVIOUS
    <3> HIDE DEF half
    <3>2. /\ lo(i) = IF 0 >= i - half THEN 0 ELSE i - half
          /\ hi(i) = IF n <= i + half + 1 THEN n ELSE i + half + 1
      BY <3>1, LeastOfTwo, GreatestOfTwo
    <3> DEFINE a == lo(i)
               b == hi(i)
               S == a .. b - 1
    <3>3. a \in 0 .. i /\ b \in i + 1 .. n
      BY <3>1, <3>2
    <3> HIDE DEF a, b
    <3>4. IsFiniteSet(S) /\ \A x \in S : raw[x] \in Nat
      <4>1. a \in Int /\ b - 1 \in Int
        BY <3>3
      <4>2. IsFiniteSet(S)
        BY <4>1, FS_Interval
      <4>3. S \subseteq 0 .. n - 1
        BY <3>3
      <4> QED
        BY <4>2, <4>3
    <3> HIDE DEF S
    <3> DEFINE total == SumFunctionOnSet(raw, S)
    <3>5. total \in Nat
      BY <3>4, SumOfNaturals
    <3> HIDE DEF total
    <3>6. total \div (b - a) \in Nat
      BY <3>3, <3>5
    <3> QED
      BY <3>6 DEF total, S, a, b
  <2> HIDE DEF mean
  <2> QED
    BY <2>1, <2>2 DEF IsProfile
<1> QED
  BY <1>2, <1>3

\* A sheet has paper in finitely many columns of every row.
IsSheet(paper, n) ==
  n \in Nat /\ DOMAIN paper = 0 .. n - 1 /\ \A r \in 0 .. n - 1 : paper[r] \subseteq Nat /\ IsFiniteSet(paper[r])

\* A dark row inherits a span or has none.
LEMMA SpansAre ==
  ASSUME NEW n \in Nat, NEW own \in [0 .. n - 1 -> {NoSpan} \cup (Nat \X Nat)], NEW limit,
         NEW r \in 0 .. n - 1
  PROVE  FillEnclosedGaps(own, limit)[r] \in {NoSpan} \cup (Nat \X Nat)
<1> DEFINE flags == [i \in DOMAIN own |-> own[i] = NoSpan]
           dark == Runs(flags)
           around == CHOOSE run \in dark : Overlap(run, r)
<1>1. CASE own[r] # NoSpan
  <2>1. FillEnclosedGaps(own, limit)[r] = own[r]
    BY <1>1 DEF FillEnclosedGaps
  <2> QED
    BY <2>1
<1>2. CASE own[r] = NoSpan
  <2>1. DOMAIN flags = 0 .. n - 1 /\ \A i \in 0 .. n - 1 : (flags[i] <=> own[i] = NoSpan)
    OBVIOUS
  <2>2. Height(own) = n
    BY FS_Interval DEF Height
  <2>3. FillEnclosedGaps(own, limit)[r]
          = IF around[1] > 0 /\ around[2] < n /\ around[2] - around[1] <= limit
            THEN Wider(own[around[1] - 1], own[around[2]]) ELSE NoSpan
    BY <1>2, <2>2 DEF FillEnclosedGaps
  <2> HIDE DEF flags
  <2>4. \E run \in dark : Overlap(run, r)
    BY <1>2, <2>1, RunAround
  <2> HIDE DEF dark
  <2>5. around \in dark
    BY <2>4
  <2> HIDE DEF around
  <2>6. /\ around[1] \in 0 .. n /\ around[2] \in 0 .. n
        /\ around[1] = 0 \/ ~flags[around[1] - 1]
        /\ around[2] = n \/ ~flags[around[2]]
    BY <2>1, <2>5, RunsAre DEF IsRun, dark
  <2>7. CASE around[1] > 0 /\ around[2] < n
    <3>1. around[1] - 1 \in 0 .. n - 1 /\ around[2] \in 0 .. n - 1
      BY <2>6, <2>7
    <3>2. own[around[1] - 1] \in Nat \X Nat /\ own[around[2]] \in Nat \X Nat
      BY <2>1, <2>6, <2>7, <3>1
    <3>3. Wider(own[around[1] - 1], own[around[2]]) \in {own[around[1] - 1], own[around[2]]}
      BY DEF Wider
    <3> QED
      BY <2>3, <3>2, <3>3
  <2>8. CASE ~(around[1] > 0 /\ around[2] < n)
    BY <2>3, <2>8
  <2> QED
    BY <2>7, <2>8
<1> QED
  BY <1>1, <1>2

\* A row's share of ink is a natural number.
LEMMA RowIs ==
  ASSUME NEW span \in {NoSpan} \cup (Nat \X Nat), NEW marks
  PROVE  Row(span, marks) \in Nat
<1> DEFINE first == span[1] + 1
           last == span[2] - 1
           width == last - first + 1
           its == marks \cap (first .. last)
<1>1. CASE span = NoSpan
  BY <1>1 DEF Row
<1>2. CASE span # NoSpan
  <2>1. Row(span, marks) = IF width < MinPaperSpan THEN 0 ELSE (Scale * Cardinality(its)) \div width
    BY <1>2, Zenon DEF Row
  <2>2. first \in Int /\ last \in Int /\ width \in Int
    BY <1>2
  <2>3. Cardinality(its) \in Nat
    <3>1. IsFiniteSet(first .. last)
      BY <2>2, FS_Interval
    <3>2. its \in SUBSET (first .. last)
      OBVIOUS
    <3> HIDE DEF its, first, last
    <3> QED
      BY <3>1, <3>2, FS_Subset, FS_CardinalityType
  <2>4. Scale \in Nat /\ MinPaperSpan \in 1 .. 10
    BY SheetAssumption
  <2> DEFINE product == Scale * Cardinality(its)
  <2>5. product \in Nat
    BY <2>3, <2>4, ProductType
  <2> HIDE DEF product, width, first, last, its
  <2>6. ~(width < MinPaperSpan) => product \div width \in Nat
    BY <2>2, <2>4, <2>5
  <2> QED
    BY <2>1, <2>6 DEF product
<1> QED
  BY <1>1, <1>2

\* The bands of a sheet: the cores of the pieces of its runs, tall enough and not
\* too tall.
Cores(profile, runs) ==
  {TrimToCore(piece, profile) : piece \in UNION {SplitAtValleys(run, profile) : run \in runs}}
Bands(found, minHeight, n) ==
  {c \in Cores(found.profile, found.runs) : NotTooTall(c, n) /\ TallEnough(c, found.raw, minHeight)}

\* The runs of inked rows, the rows that merging flags, and the runs of these.
InkRuns(profile, n) == Runs([r \in 0 .. n - 1 |-> profile[r] >= RowInkFraction])
Bridges(r, s, i) == r[2] <= i /\ i < s[1] /\ s[1] - r[2] <= MergeGap
Merged(profile, n) ==
  [i \in 0 .. n - 1 |-> \/ \E r \in InkRuns(profile, n) : Overlap(r, i)
                        \/ \E r, s \in InkRuns(profile, n) : Bridges(r, s, i)]
MergedRuns(profile, n) == MergeGaps(InkRuns(profile, n), MergeGap, n)

\* What the stages of a sheet's analysis are.
IsAnalysis(found, n, window, minHeight) ==
  /\ found.raw \in [0 .. n - 1 -> Nat]
  /\ window <= 1 => found.profile = found.raw
  /\ IsProfile(found.profile, n)
  /\ found.runs = MergedRuns(found.profile, n)
  /\ found.bands = Bands(found, minHeight, n)

\* The analysis of a sheet is one.
LEMMA AnalysisIs ==
  ASSUME NEW n, NEW paper, IsSheet(paper, n), NEW ink, NEW window \in Nat, NEW minHeight
  PROVE  IsAnalysis(AnalyzeLines(paper, ink, window, minHeight), n, window, minHeight)
<1> DEFINE found == AnalyzeLines(paper, ink, window, minHeight)
           Limit(k) == RoundEven(MaxHeight[1] * k, MaxHeight[2])
           spans == FillEnclosedGaps(PaperSpans(paper), Limit(Height(paper)))
           Inked(profile) == [r \in DOMAIN profile |-> profile[r] >= RowInkFraction]
           rows == [r \in DOMAIN paper |-> Row(spans[r], ink[r])]
           flags == [r \in DOMAIN paper |-> spans[r] # NoSpan]
           raw == GuardPaperEdges(rows, flags, EdgeGuard)
           profile == Smooth(raw, window)
           Joint(k) == MergeGaps(Runs(Inked(profile)), MergeGap, k)
           KeptBands(k) ==
             {c \in {TrimToCore(piece, profile) :
                       piece \in UNION {SplitAtValleys(run, profile) : run \in Joint(k)}} :
                NotTooTall(c, k) /\ TallEnough(c, raw, minHeight)}
           Of(k) == [spans |-> spans, raw |-> raw, profile |-> profile, runs |-> Joint(k),
                     pieces |-> UNION {SplitAtValleys(run, profile) : run \in Joint(k)},
                     bands |-> KeptBands(k)]
<1>1. n \in Nat /\ DOMAIN paper = 0 .. n - 1 /\ Height(paper) = n
  BY FS_Interval DEF IsSheet, Height
<1>2. found = Of(Height(paper))
  BY Zenon DEF AnalyzeLines
<1>3. found = Of(n)
  <2> HIDE DEF Of
  <2> QED
    BY <1>1, <1>2
<1>4. found.raw = raw /\ found.profile = profile /\ found.runs = Joint(n) /\ found.bands = KeptBands(n)
  <2> HIDE DEF spans, raw, profile, Joint, KeptBands, found
  <2> QED
    BY <1>3
<1>5. found.profile = Smooth(found.raw, window)
  <2>1. profile = Smooth(raw, window)
    OBVIOUS
  <2> HIDE DEF found, profile, raw
  <2> QED
    BY <1>4, <2>1
<1>6. Bands(found, minHeight, n) = KeptBands(n)
  <2>1. KeptBands(n) = {c \in Cores(profile, Joint(n)) :
                        NotTooTall(c, n) /\ TallEnough(c, raw, minHeight)}
    BY Zenon DEF Cores
  <2> HIDE DEF found, profile, raw, Joint, KeptBands
  <2>2. Bands(found, minHeight, n)
          = {c \in Cores(profile, Joint(n)) : NotTooTall(c, n) /\ TallEnough(c, raw, minHeight)}
    BY <1>4, Zenon DEF Bands
  <2> QED
    BY <2>1, <2>2
<1>7. \A r \in 0 .. n - 1 : spans[r] \in {NoSpan} \cup (Nat \X Nat)
  <2> DEFINE own == PaperSpans(paper)
             limit == Limit(Height(paper))
  <2>1. own \in [0 .. n - 1 -> {NoSpan} \cup (Nat \X Nat)]
    <3>1. ASSUME NEW r \in 0 .. n - 1, paper[r] # {}
          PROVE  Min(paper[r]) \in Nat /\ Max(paper[r]) \in Nat
      <4> DEFINE S == paper[r]
      <4>1. S \subseteq Nat /\ IsFiniteSet(S) /\ S # {}
        BY <3>1 DEF IsSheet
      <4> HIDE DEF S
      <4>2. S \in SUBSET Int
        BY <4>1
      <4>3. Min(S) \in Nat /\ Max(S) \in Nat
        BY <4>1, <4>2, MinIs, MaxIs
      <4> QED
        BY <4>3 DEF S
    <3> QED
      BY <1>1, <3>1 DEF PaperSpans
  <2>2. spans = FillEnclosedGaps(own, limit)
    OBVIOUS
  <2> HIDE DEF own, limit, spans
  <2> QED
    BY <1>1, <2>1, <2>2, SpansAre
<1> HIDE DEF spans
<1>8. \A r \in 0 .. n - 1 : rows[r] \in Nat
  BY <1>1, <1>7, RowIs
<1>9. DOMAIN rows = 0 .. n - 1
  BY <1>1
<1> HIDE DEF rows, flags
<1>10. raw \in [0 .. n - 1 -> Nat]
  BY <1>8, <1>9 DEF GuardPaperEdges
<1> HIDE DEF raw, profile, found, KeptBands
<1>11. IsProfile(found.profile, n)
  BY <1>1, <1>4, <1>5, <1>10, SmoothIs
<1>12. found.runs = MergedRuns(found.profile, n)
  <2>1. DOMAIN found.profile = 0 .. n - 1
    BY <1>11 DEF IsProfile
  <2>2. Inked(profile) = [r \in 0 .. n - 1 |-> found.profile[r] >= RowInkFraction]
    BY <1>4, <2>1
  <2> HIDE DEF Inked
  <2> QED
    BY <1>4, <2>2, Zenon DEF MergedRuns, InkRuns
<1>13. window <= 1 => found.profile = found.raw
  BY <1>5 DEF Smooth
<1> QED
  <2>1. found.bands = Bands(found, minHeight, n) /\ found.raw \in [0 .. n - 1 -> Nat]
    BY <1>4, <1>6, <1>10
  <2> QED
    BY <2>1, <1>11, <1>12, <1>13, Zenon DEF IsAnalysis, found

\* The merged runs are the runs of the rows that merging flags.
LEMMA MergedRunsAre ==
  ASSUME NEW profile, NEW n
  PROVE  MergedRuns(profile, n) = Runs(Merged(profile, n)) /\ DOMAIN Merged(profile, n) = 0 .. n - 1
<1>1. MergedRuns(profile, n) = Runs(Merged(profile, n))
  BY Zenon DEF MergedRuns, MergeGaps, Merged, Bridges
<1>2. DOMAIN Merged(profile, n) = 0 .. n - 1
  BY DEF Merged
<1> QED
  BY <1>1, <1>2

\* Where a core comes from: a piece of a run that holds it.
IsCoreOf(core, piece, run, profile) ==
  /\ piece \in SplitAtValleys(run, profile) /\ core = TrimToCore(piece, profile)
  /\ core = <<core[1], core[2]>> /\ piece = <<piece[1], piece[2]>>
  /\ piece[1] \in run[1] .. run[2] - 1 /\ piece[2] \in piece[1] + 1 .. run[2]
  /\ core[1] \in piece[1] .. piece[2] - 1 /\ core[2] \in core[1] + 1 .. piece[2]
  /\ \E peak \in piece[1] .. piece[2] - 1 : IsCore(core, piece[1], piece[2], peak, profile)

\* Each piece of a run has a core in it.
LEMMA CoreOfPiece ==
  ASSUME NEW n, NEW profile, IsProfile(profile, n), NEW run \in MergedRuns(profile, n),
         NEW piece \in SplitAtValleys(run, profile)
  PROVE  IsRun(run, n) /\ IsCoreOf(TrimToCore(piece, profile), piece, run, profile)
<1>1. n \in Nat
  BY DEF IsProfile
<1>2. IsRun(run, n)
  BY <1>1, MergedRunsAre, RunsAre
<1> DEFINE x == piece[1]
           y == piece[2]
           core == TrimToCore(piece, profile)
<1>3. piece = <<x, y>> /\ x \in run[1] .. run[2] - 1 /\ y \in x + 1 .. run[2]
  BY <1>2, PieceIs
<1>4. run[1] \in 0 .. n /\ run[2] \in 0 .. n
  BY <1>2 DEF IsRun
<1> HIDE DEF x, y
<1>5. x \in 0 .. n - 1 /\ y \in x + 1 .. n
  BY <1>1, <1>3, <1>4
<1>6. PICK peak \in x .. y - 1 : IsCore(TrimToCore(<<x, y>>, profile), x, y, peak, profile)
  BY <1>5, CoreIs
<1>7. IsCore(core, x, y, peak, profile)
  BY <1>3, <1>6
<1> HIDE DEF core
<1>8. /\ core = <<core[1], core[2]>> /\ core[1] \in x .. peak /\ core[2] \in peak + 1 .. y
  BY <1>7 DEF IsCore
<1>9. core[1] \in x .. y - 1 /\ core[2] \in core[1] + 1 .. y
  BY <1>1, <1>5, <1>8
<1>10. core = TrimToCore(piece, profile)
  BY DEF core
<1> QED
  BY <1>2, <1>3, <1>7, <1>8, <1>9, <1>10, Zenon DEF IsCoreOf, x, y

\* Every core of a sheet is one of a piece of a run.
LEMMA CoresAre ==
  ASSUME NEW n, NEW profile, IsProfile(profile, n), NEW core \in Cores(profile, MergedRuns(profile, n))
  PROVE  \E run, piece : run \in MergedRuns(profile, n) /\ IsRun(run, n) /\ IsCoreOf(core, piece, run, profile)
<1>1. PICK run \in MergedRuns(profile, n) : \E piece \in SplitAtValleys(run, profile) :
         core = TrimToCore(piece, profile)
  BY Zenon DEF Cores
<1> QED
  BY <1>1, CoreOfPiece

\* No two of them share a row.
LEMMA CoresApart ==
  ASSUME NEW n, NEW profile, IsProfile(profile, n),
         NEW a \in Cores(profile, MergedRuns(profile, n)),
         NEW b \in Cores(profile, MergedRuns(profile, n)), a # b
  PROVE  a[2] <= b[1] \/ b[2] <= a[1]
<1> DEFINE runs == MergedRuns(profile, n)
<1>1. PICK g, p : g \in runs /\ IsRun(g, n) /\ IsCoreOf(a, p, g, profile)
  BY CoresAre
<1>2. PICK h, q : h \in runs /\ IsRun(h, n) /\ IsCoreOf(b, q, h, profile)
  BY CoresAre
<1>3. p # q
  BY <1>1, <1>2 DEF IsCoreOf
<1>4. /\ g[1] \in Int /\ g[2] \in Int /\ p[1] \in g[1] .. g[2] - 1 /\ p[2] \in p[1] + 1 .. g[2]
      /\ a[1] \in p[1] .. p[2] - 1 /\ a[2] \in a[1] + 1 .. p[2]
  BY <1>1 DEF IsCoreOf, IsRun
<1>5. /\ h[1] \in Int /\ h[2] \in Int /\ q[1] \in h[1] .. h[2] - 1 /\ q[2] \in q[1] + 1 .. h[2]
      /\ b[1] \in q[1] .. q[2] - 1 /\ b[2] \in b[1] + 1 .. q[2]
  BY <1>2 DEF IsCoreOf, IsRun
<1>6. p[2] <= q[1] \/ q[2] <= p[1]
  <2>1. CASE g = h
    <3> DEFINE E == CutAt(g, profile)
    <3>1. SplitAtValleys(g, profile) = Neighbours(E) /\ E \in SUBSET (g[1] .. g[2])
      BY <1>1, CutsAre
    <3>2. E \in SUBSET Int
      BY <1>4, <3>1
    <3>3. p \in Neighbours(E) /\ q \in Neighbours(E)
      BY <1>1, <1>2, <2>1, <3>1 DEF IsCoreOf
    <3> HIDE DEF E
    <3> QED
      BY <1>3, <3>2, <3>3, NeighboursApart
  <2>2. CASE g # h
    <3>1. n \in Nat
      BY DEF IsProfile
    <3>2. g[2] < h[1] \/ h[2] < g[1]
      BY <1>1, <1>2, <2>2, <3>1, MergedRunsAre, RunsApart
    <3> QED
      BY <1>4, <1>5, <3>2
  <2> QED
    BY <2>1, <2>2
<1> QED
  BY <1>4, <1>5, <1>6

\* Nor does one hold a valley, unless it is of a run that starts with a plateau.
LEMMA CoreSpansNoValley ==
  ASSUME NEW n, NEW profile, IsProfile(profile, n),
         NEW core \in Cores(profile, MergedRuns(profile, n)),
         NEW i \in core[1] .. core[2] - 1, NEW j \in core[1] .. core[2] - 1, i < j,
         ~\E run \in MergedRuns(profile, n) :
            /\ run[1] <= core[1] /\ core[2] <= run[2] /\ run[2] - run[1] > 1
            /\ profile[run[1]] = profile[run[1] + 1]
  PROVE  Valley[2] * Lowest(profile, i, j) >= Valley[1] * Min({profile[i], profile[j]})
<1>1. PICK run, piece : /\ run \in MergedRuns(profile, n) /\ IsRun(run, n)
                        /\ IsCoreOf(core, piece, run, profile)
  BY CoresAre
<1>2. /\ run[1] \in Int /\ run[2] \in Int
      /\ piece[1] \in run[1] .. run[2] - 1 /\ piece[2] \in piece[1] + 1 .. run[2]
      /\ core[1] \in piece[1] .. piece[2] - 1 /\ core[2] \in core[1] + 1 .. piece[2]
      /\ piece \in SplitAtValleys(run, profile)
  BY <1>1 DEF IsCoreOf, IsRun
<1>3. FallsAtOnce(run, profile)
  <2>1. run[1] <= core[1] /\ core[2] <= run[2]
    BY <1>2
  <2> QED
    BY <1>1, <2>1 DEF FallsAtOnce
<1>4. i \in piece[1] .. piece[2] - 1 /\ j \in piece[1] .. piece[2] - 1
  BY <1>2
<1> QED
  BY <1>1, <1>2, <1>3, <1>4, PieceSpansNoValley

--------------------------------------------------------------------------------
(* A sheet of equally dark rows. *)

\* A profile of rows that are equally dark or hold no ink.
TwoLevels(profile, n, top) ==
  /\ IsProfile(profile, n) /\ top \in Nat \ {0} /\ RowInkFraction <= top
  /\ \A i \in 0 .. n - 1 : profile[i] \in {0, top}

\* The runs of ink are the stretches of inked rows, with none beside them.
LEMMA InkRunsAre ==
  ASSUME NEW n, NEW profile, NEW top, TwoLevels(profile, n, top)
  PROVE  /\ \A w \in InkRuns(profile, n) :
              /\ w \in (0 .. n) \X (0 .. n) /\ w[1] < w[2]
              /\ \A i \in w[1] .. w[2] - 1 : profile[i] = top
              /\ w[1] = 0 \/ profile[w[1] - 1] = 0
              /\ w[2] = n \/ profile[w[2]] = 0
         /\ \A i \in 0 .. n - 1 :
              profile[i] = top => \E w \in InkRuns(profile, n) : w[1] <= i /\ i < w[2]
<1> DEFINE flags == [r \in 0 .. n - 1 |-> profile[r] >= RowInkFraction]
<1>1. n \in Nat /\ DOMAIN flags = 0 .. n - 1
  BY DEF TwoLevels, IsProfile
<1>2. \A i \in 0 .. n - 1 : flags[i] <=> profile[i] = top
  <2> SUFFICES ASSUME NEW i \in 0 .. n - 1 PROVE flags[i] <=> profile[i] = top
    OBVIOUS
  <2>1. /\ profile[i] \in {0, top} /\ top \in Nat \ {0} /\ RowInkFraction <= top
        /\ RowInkFraction \in Nat \ {0}
    BY SheetAssumption DEF TwoLevels
  <2>2. profile[i] >= RowInkFraction <=> profile[i] = top
    BY <2>1
  <2> QED
    BY <2>2
<1>3. \A i \in 0 .. n - 1 : ~flags[i] => profile[i] = 0
  BY <1>2 DEF TwoLevels
<1> HIDE DEF flags
<1>4. InkRuns(profile, n) = Runs(flags)
  BY DEF InkRuns, flags
<1>5. ASSUME NEW w \in Runs(flags)
      PROVE  /\ w \in (0 .. n) \X (0 .. n) /\ w[1] < w[2]
             /\ \A i \in w[1] .. w[2] - 1 : profile[i] = top
             /\ w[1] = 0 \/ profile[w[1] - 1] = 0
             /\ w[2] = n \/ profile[w[2]] = 0
  <2>1. /\ w \in (0 .. n) \X (0 .. n) /\ w[1] < w[2] /\ w[1] \in 0 .. n /\ w[2] \in 0 .. n
        /\ \A i \in w[1] .. w[2] - 1 : flags[i]
        /\ w[1] = 0 \/ ~flags[w[1] - 1]
        /\ w[2] = n \/ ~flags[w[2]]
    BY <1>1, RunsAre DEF IsRun
  <2>2. \A i \in w[1] .. w[2] - 1 : i \in 0 .. n - 1
    BY <1>1, <2>1
  <2>3. w[1] = 0 \/ w[1] - 1 \in 0 .. n - 1
    BY <1>1, <2>1
  <2>4. w[2] = n \/ w[2] \in 0 .. n - 1
    BY <1>1, <2>1
  <2> QED
    BY <1>2, <1>3, <2>1, <2>2, <2>3, <2>4
<1>6. ASSUME NEW i \in 0 .. n - 1, profile[i] = top
      PROVE  \E w \in Runs(flags) : w[1] <= i /\ i < w[2]
  BY <1>1, <1>2, <1>6, RunAround DEF Overlap
<1> QED
  BY <1>4, <1>5, <1>6

\* The merged runs start and end with written rows, and what is blank in them is
\* a gap that merging closes.
LEMMA MergedRowsAre ==
  ASSUME NEW n, NEW profile, NEW top, TwoLevels(profile, n, top), NEW i \in 0 .. n - 1
  PROVE  Merged(profile, n)[i] <=>
           profile[i] = top \/ \E r, s \in InkRuns(profile, n) : Bridges(r, s, i)
<1> DEFINE W == InkRuns(profile, n)
           bridged == \E r, s \in W : Bridges(r, s, i)
<1>1. /\ \A w \in W : \A j \in w[1] .. w[2] - 1 : profile[j] = top
      /\ \A w \in W : w[1] \in Int /\ w[2] \in Int
      /\ profile[i] = top => \E w \in W : w[1] <= i /\ i < w[2]
  BY InkRunsAre
<1>2. Merged(profile, n)[i] <=> (\E r \in W : Overlap(r, i)) \/ bridged
  BY DEF Merged
<1> HIDE DEF W, bridged
<1>3. (\E r \in W : Overlap(r, i)) <=> profile[i] = top
  BY <1>1 DEF Overlap
<1> QED
  BY <1>2, <1>3 DEF bridged, W

\* A merged run starts and ends with ink, and what is not ink in it is a gap
\* that merging bridged.
LEMMA MergedRunIs ==
  ASSUME NEW n, NEW profile, NEW top, TwoLevels(profile, n, top), NEW run \in MergedRuns(profile, n)
  PROVE  /\ IsRun(run, n) /\ profile[run[1]] = top
         /\ run[1] = 0 \/ profile[run[1] - 1] = 0
         /\ run[2] = n \/ profile[run[2]] = 0
         /\ \A i \in run[1] .. run[2] - 1 :
              profile[i] = top \/ \E r, s \in InkRuns(profile, n) : Bridges(r, s, i)
<1> DEFINE W == InkRuns(profile, n)
           flags == Merged(profile, n)
<1>1. n \in Nat /\ \A i \in 0 .. n - 1 : profile[i] \in {0, top}
  BY DEF TwoLevels, IsProfile
<1>2. /\ IsRun(run, n) /\ run[1] \in 0 .. n /\ run[2] \in 0 .. n /\ run[1] < run[2]
      /\ \A i \in run[1] .. run[2] - 1 : flags[i]
      /\ run[1] = 0 \/ ~flags[run[1] - 1]
      /\ run[2] = n \/ ~flags[run[2]]
  BY <1>1, MergedRunsAre, RunsAre DEF IsRun
<1>3. \A i \in 0 .. n - 1 :
        flags[i] <=> profile[i] = top \/ \E r, s \in W : Bridges(r, s, i)
  BY MergedRowsAre
<1>4. \A r \in W : /\ r[1] \in 0 .. n /\ r[2] \in 0 .. n /\ r[1] < r[2]
                   /\ \A i \in r[1] .. r[2] - 1 : profile[i] = top
  BY InkRunsAre
<1> HIDE DEF W, flags
<1>5. \A i \in run[1] .. run[2] - 1 : i \in 0 .. n - 1
  BY <1>1, <1>2
<1>6. \A i \in run[1] .. run[2] - 1 : profile[i] = top \/ \E r, s \in W : Bridges(r, s, i)
  BY <1>2, <1>3, <1>5
<1>7. run[1] = 0 \/ (run[1] - 1 \in 0 .. n - 1 /\ profile[run[1] - 1] # top)
  BY <1>1, <1>2, <1>3
<1>8. run[2] = n \/ (run[2] \in 0 .. n - 1 /\ profile[run[2]] # top)
  BY <1>1, <1>2, <1>3
<1>9. profile[run[1]] = top
  <2> SUFFICES ASSUME profile[run[1]] # top PROVE FALSE
    OBVIOUS
  <2>1. run[1] \in run[1] .. run[2] - 1
    BY <1>2
  <2>2. PICK r \in W, s \in W : Bridges(r, s, run[1])
    BY <1>6, <2>1
  <2>3. /\ r[1] \in 0 .. n /\ r[2] \in 0 .. n /\ r[1] < r[2] /\ r[2] <= run[1]
        /\ s[1] \in 0 .. n /\ run[1] < s[1] /\ s[1] - r[2] <= MergeGap
    BY <1>4, <2>2 DEF Bridges
  <2>4. run[1] - 1 \in 0 .. n - 1 /\ ~flags[run[1] - 1] /\ profile[run[1] - 1] # top
    BY <1>1, <1>2, <1>7, <2>3
  <2>5. CASE r[2] = run[1]
    <3>1. run[1] - 1 \in r[1] .. r[2] - 1
      BY <1>2, <2>3, <2>5
    <3> QED
      BY <1>4, <2>4, <3>1
  <2>6. CASE r[2] # run[1]
    <3>1. Bridges(r, s, run[1] - 1)
      BY <1>2, <2>3, <2>6 DEF Bridges
    <3> QED
      BY <1>3, <2>4, <3>1
  <2> QED
    BY <2>5, <2>6
<1> QED
  BY <1>1, <1>2, <1>6, <1>7, <1>8, <1>9 DEF W

\* Its peaks are the first rows of what is written, and all of them are kept.
LEMMA PeaksAreStarts ==
  ASSUME NEW n, NEW profile, NEW top, TwoLevels(profile, n, top), NEW run, IsRun(run, n),
         run[2] - run[1] >= 3, profile[run[1]] = top
  PROVE  \A i \in run[1] .. run[2] - 1 :
           i \in Peaks(run, profile) <=>
             /\ profile[i] = top
             /\ IF i = run[1] THEN profile[i + 1] = 0 ELSE profile[i - 1] = 0
<1> DEFINE start == run[1]
           last == run[2] - 1
<1>1. n \in Nat /\ top \in Nat \ {0} /\ \A i \in 0 .. n - 1 : profile[i] \in {0, top}
  BY DEF TwoLevels, IsProfile
<1>2. start \in 0 .. n /\ run[2] \in 0 .. n
  BY DEF IsRun
<1>3. last \in start + 2 .. n - 1 /\ profile[start] = top /\ start \in Nat /\ last \in Nat
  BY <1>1, <1>2
<1>4. ASSUME NEW i \in start .. last
      PROVE  i \in Peaks(run, profile) <=>
               /\ i = start \/ profile[i] > profile[i - 1]
               /\ CASE i = start -> profile[i] > profile[i + 1]
                    [] i = last  -> TRUE
                    [] OTHER     -> profile[i] >= profile[i + 1]
  BY Zenon DEF Peaks
<1> HIDE DEF start, last
<1> SUFFICES ASSUME NEW i \in start .. last
             PROVE  i \in Peaks(run, profile) <=>
                      /\ profile[i] = top
                      /\ IF i = start THEN profile[i + 1] = 0 ELSE profile[i - 1] = 0
  BY DEF start, last
<1>5. CASE i = start
  <2>1. i \in 0 .. n - 1 /\ i + 1 \in 0 .. n - 1
    BY <1>1, <1>2, <1>3, <1>5
  <2>2. profile[i] = top /\ profile[i + 1] \in {0, top}
    BY <1>1, <1>3, <1>5, <2>1
  <2>3. profile[i] > profile[i + 1] <=> profile[i + 1] = 0
    BY <1>1, <2>2
  <2>4. i # last
    BY <1>2, <1>3, <1>5
  <2>5. i \in Peaks(run, profile) <=> profile[i] > profile[i + 1]
    BY <1>4, <1>5, <2>4
  <2> QED
    BY <1>5, <2>2, <2>3, <2>5, Zenon
<1>6. CASE i # start
  <2>1. i \in 0 .. n - 1 /\ i - 1 \in 0 .. n - 1 /\ (i = last \/ i + 1 \in 0 .. n - 1)
    BY <1>1, <1>2, <1>3, <1>6
  <2>2. profile[i] \in {0, top} /\ profile[i - 1] \in {0, top}
    BY <1>1, <2>1
  <2>3. profile[i] > profile[i - 1] <=> profile[i] = top /\ profile[i - 1] = 0
    BY <1>1, <2>2
  <2>4. ASSUME profile[i] = top, i # last PROVE profile[i] >= profile[i + 1]
    <3>1. profile[i + 1] \in {0, top}
      BY <1>1, <2>1, <2>4
    <3> QED
      BY <1>1, <2>4, <3>1
  <2> QED
    BY <1>4, <1>6, <2>3, <2>4
<1> QED
  BY <1>5, <1>6

\* Of the rows of such a run every peak is kept: a gap parts each two.
LEMMA StartsAreKept ==
  ASSUME NEW n, NEW profile, NEW top, TwoLevels(profile, n, top), NEW run, IsRun(run, n),
         run[2] - run[1] >= 3, profile[run[1]] = top
  PROVE  Kept(run, profile) = Peaks(run, profile)
<1> DEFINE K == Kept(run, profile)
           P == Peaks(run, profile)
<1>1. IsProfile(profile, n) /\ n \in Nat /\ top \in Nat \ {0}
  BY DEF TwoLevels, IsProfile
<1>2. /\ K \subseteq P
      /\ \A i \in P : i \in K <=> \A k \in K : Higher(k, i, profile) => Separated(i, k, profile)
  BY <1>1, KeptIs DEF AreKept
<1>3. P \subseteq run[1] .. run[2] - 1
  BY DEF Peaks
<1>4. \A i \in P : profile[i] = top /\ (i # run[1] => profile[i - 1] = 0)
  BY <1>3, PeaksAreStarts
<1>5. run[1] \in 0 .. n /\ run[2] \in 0 .. n
  BY DEF IsRun
<1> HIDE DEF K, P
<1>6. ASSUME NEW i \in P, NEW k \in P, i # k PROVE Separated(i, k, profile)
  <2>0. i \in 0 .. n - 1 /\ k \in 0 .. n - 1 /\ run[1] <= i /\ run[1] <= k
    BY <1>1, <1>3, <1>5
  <2> DEFINE m == IF i < k THEN k - 1 ELSE i - 1
  <2>1. profile[m] = 0 /\ m \in 0 .. n - 1
    BY <1>1, <1>4, <1>5, <1>6, <2>0
  <2>2. (i <= m /\ m <= k) \/ (k <= m /\ m <= i)
    BY <1>1, <1>6, <2>0
  <2> HIDE DEF m
  <2>3. Valley[2] * 0 < Valley[1] * top
    <3>1. Valley[1] \in Nat \ {0} /\ Valley[2] \in Nat
      BY SheetAssumption
    <3> DEFINE v == Valley[1]
               share == v * top
    <3>2. share \in Nat \ {0}
      BY <1>1, <3>1
    <3> HIDE DEF share
    <3>3. Valley[2] * 0 = 0 /\ share > 0
      BY <3>1, <3>2
    <3> QED
      BY <3>3 DEF share, v
  <2>4. Valley[2] * profile[m] < Valley[1] * profile[i] /\ Valley[2] * profile[m] < Valley[1] * profile[k]
    BY <1>4, <2>1, <2>3
  <2> QED
    BY <1>1, <2>0, <2>1, <2>2, <2>4, SeparatedBy
<1>7. ASSUME NEW i \in P, NEW k \in P, Higher(k, i, profile) PROVE i # k
  BY <1>1, <1>4, <1>7, <1>3, <1>5 DEF Higher
<1> QED
  BY <1>2, <1>6, <1>7 DEF K, P

\* A peak holds its own level, and no blank row does.
LEMMA LevelIs ==
  ASSUME NEW top \in Nat, RowInkFraction <= top
  PROVE  Level(top) \in 1 .. top
<1> DEFINE a == Core[1]
           b == Core[2]
           share == a * top
           q == share \div b
<1>1. a \in Nat /\ b \in Nat \ {0} /\ a <= b /\ RowInkFraction \in Nat \ {0}
  BY SheetAssumption
<1>2. Level(top) = Max({RowInkFraction, q})
  BY Zenon DEF Level
<1> HIDE DEF a, b
<1>3. share \in Nat /\ share <= b * top
  BY <1>1, ProductType, ProductsGrow
<1>4. q \in Int /\ share = b * q + (share % b) /\ share % b \in 0 .. b - 1
  <2> HIDE DEF share
  <2> QED
    BY <1>1, <1>3, QuotientType
<1>5. q <= top
  <2> SUFFICES ASSUME top < q PROVE FALSE
    BY <1>4
  <2> HIDE DEF q, share
  <2>1. b * (top + 1) <= b * q
    BY <1>1, <1>4, ProductGrows
  <2>2. b * (top + 1) = b * top + b
    BY <1>1
  <2> DEFINE u == b * top
             v == b * q
             r == share % b
  <2>3. u \in Int /\ v \in Int /\ r \in 0 .. b - 1 /\ share <= u /\ share = v + r /\ u + b <= v
    BY <1>1, <1>3, <1>4, <2>1, <2>2
  <2> HIDE DEF u, v, r
  <2> QED
    BY <1>1, <2>3
<1> HIDE DEF q
<1>6. Max({RowInkFraction, q}) = IF RowInkFraction >= q THEN RowInkFraction ELSE q
  BY <1>1, <1>4, GreatestOfTwo
<1> QED
  BY <1>1, <1>2, <1>4, <1>5, <1>6

\* Written rows with none beside them are a run of ink.
LEMMA IsInkRun ==
  ASSUME NEW n, NEW profile, NEW top, TwoLevels(profile, n, top),
         NEW x \in 0 .. n - 1, NEW y \in x + 1 .. n,
         \A i \in x .. y - 1 : profile[i] = top,
         x = 0 \/ profile[x - 1] = 0, y = n \/ profile[y] = 0
  PROVE  <<x, y>> \in InkRuns(profile, n)
<1>1. n \in Nat /\ top # 0
  BY DEF TwoLevels, IsProfile
<1>2. profile[x] = top
  BY <1>1
<1>3. PICK w \in InkRuns(profile, n) : w[1] <= x /\ x < w[2]
  BY <1>2, InkRunsAre
<1>4. /\ w \in (0 .. n) \X (0 .. n) /\ w[1] < w[2]
      /\ \A i \in w[1] .. w[2] - 1 : profile[i] = top
      /\ w[2] = n \/ profile[w[2]] = 0
  BY InkRunsAre
<1>5. w[1] = x
  <2> SUFFICES ASSUME w[1] # x PROVE FALSE
    OBVIOUS
  <2>1. x - 1 \in w[1] .. w[2] - 1 /\ x # 0
    BY <1>1, <1>3, <1>4
  <2> QED
    BY <1>1, <1>4, <2>1
<1>6. w[2] = y
  <2>1. w[2] < y => FALSE
    <3> SUFFICES ASSUME w[2] < y PROVE FALSE
      OBVIOUS
    <3>1. w[2] \in x .. y - 1 /\ w[2] # n
      BY <1>1, <1>3, <1>4
    <3> QED
      BY <1>1, <1>4, <3>1
  <2>2. y < w[2] => FALSE
    <3> SUFFICES ASSUME y < w[2] PROVE FALSE
      OBVIOUS
    <3>1. y \in w[1] .. w[2] - 1 /\ y # n
      BY <1>1, <1>3, <1>4
    <3> QED
      BY <1>1, <1>4, <3>1
  <2> QED
    BY <1>1, <1>4, <2>1, <2>2
<1>7. w = <<x, y>>
  BY <1>4, <1>5, <1>6
<1> QED
  BY <1>7

\* Every piece of a run holds written rows, and is cut at blank ones, the first of
\* them after a peak that is kept.
LEMMA PieceHoldsInk ==
  ASSUME NEW n, NEW profile, NEW top, TwoLevels(profile, n, top), NEW run \in MergedRuns(profile, n),
         NEW piece \in SplitAtValleys(run, profile)
  PROVE  /\ \/ piece[1] = run[1]
            \/ /\ profile[piece[1]] = 0
               /\ \E k \in Kept(run, profile) : k < piece[1]
         /\ piece[2] = run[2] \/ profile[piece[2]] = 0
         /\ \E i \in piece[1] .. piece[2] - 1 : profile[i] = top
<1> DEFINE K == Kept(run, profile)
           E == CutAt(run, profile)
           x == piece[1]
           y == piece[2]
<1>1. IsProfile(profile, n) /\ n \in Nat /\ \A i \in 0 .. n - 1 : profile[i] \in {0, top}
  BY DEF TwoLevels, IsProfile
<1>2. IsRun(run, n) /\ run[1] \in 0 .. n /\ run[2] \in 0 .. n /\ profile[run[1]] = top
  BY MergedRunIs DEF IsRun
<1>3. /\ SplitAtValleys(run, profile) = Neighbours(E) /\ E \in SUBSET (run[1] .. run[2])
      /\ \A p \in Neighbours(K) :
           LET v == ValleyRow(p[1], p[2], profile)
           IN v \in E /\ p[1] < v /\ v < p[2] /\ IsValley(v, p[1], p[2], K, profile)
      /\ \A v \in E \ {run[1], run[2]} :
           \E p \in Neighbours(K) : v = ValleyRow(p[1], p[2], profile)
  BY <1>1, <1>2, CutsAre, Zenon
<1>4. K \in SUBSET (run[1] .. run[2] - 1) /\ \A k \in K : profile[k] = top
  <2>1. K \in SUBSET (run[1] .. run[2] - 1)
    BY <1>1, <1>2, KeptIs
  <2>2. CASE run[2] - run[1] < 3
    BY <2>1, <2>2 DEF Kept
  <2>3. CASE ~(run[2] - run[1] < 3)
    <3>1. K = Peaks(run, profile)
      BY <1>2, <2>3, StartsAreKept
    <3>2. \A i \in run[1] .. run[2] - 1 : i \in Peaks(run, profile) => profile[i] = top
      BY <1>2, <2>3, PeaksAreStarts
    <3> QED
      BY <2>1, <3>1, <3>2
  <2> QED
    BY <2>2, <2>3
<1>5. x \in run[1] .. run[2] - 1 /\ y \in x + 1 .. run[2]
  BY <1>1, <1>2, PieceIs
<1>6. x \in E /\ y \in E
  BY <1>3 DEF Neighbours
<1> HIDE DEF K, E, x, y
<1>7. ASSUME NEW p \in Neighbours(K)
      PROVE  LET v == ValleyRow(p[1], p[2], profile)
             IN  /\ p[1] \in K /\ p[2] \in K /\ p[1] \in Int /\ p[2] \in Int /\ v \in Int
                 /\ p[1] < v /\ v < p[2] /\ profile[v] = 0
  <2> DEFINE v == ValleyRow(p[1], p[2], profile)
  <2>1. p[1] \in K /\ p[2] \in K
    BY DEF Neighbours
  <2>2. v \in E /\ p[1] < v /\ v < p[2] /\ IsValley(v, p[1], p[2], K, profile)
    BY <1>3, Zenon
  <2> HIDE DEF v
  <2>3. p[1] \in Int /\ p[2] \in Int /\ v \in 0 .. n - 1
    <3>1. p[1] \in 0 .. n - 1 /\ p[2] \in 0 .. n - 1
      <4>1. \A k \in K : k \in 0 .. n - 1
        BY <1>1, <1>2, <1>4
      <4> QED
        BY <2>1, <4>1
    <3>2. v \in Int
      BY <1>2, <1>3, <2>2
    <3> DEFINE a == p[1]
               b == p[2]
    <3> HIDE DEF a, b
    <3>3. a \in 0 .. n - 1 /\ b \in 0 .. n - 1 /\ a < v /\ v < b
      BY <2>2, <3>1 DEF a, b
    <3>4. a \in Int /\ b \in Int /\ v \in 0 .. n - 1
      BY <1>1, <3>2, <3>3
    <3> QED
      BY <3>4 DEF a, b
  <2>4. profile[v] < profile[p[1]] /\ profile[p[1]] = top
    BY <1>4, <2>1, <2>2 DEF IsValley
  <2>5. profile[v] = 0
    <3>1. top \in Nat
      BY DEF TwoLevels
    <3> QED
      BY <1>1, <2>3, <2>4, <3>1
  <2> QED
    BY <2>1, <2>2, <2>3, <2>5 DEF v
<1>8. y = run[2] \/ \E q \in Neighbours(K) : y = ValleyRow(q[1], q[2], profile)
  BY <1>2, <1>3, <1>5, <1>6
<1>9. y = run[2] \/ profile[y] = 0
  BY <1>7, <1>8
<1>10. CASE x = run[1]
  <2>1. x \in x .. y - 1 /\ profile[x] = top
    BY <1>2, <1>5, <1>10
  <2> QED
    BY <1>9, <1>10, <2>1 DEF x, y
<1>11. CASE x # run[1]
  <2>1. PICK p \in Neighbours(K) : x = ValleyRow(p[1], p[2], profile)
    BY <1>2, <1>3, <1>5, <1>6, <1>11
  <2>2. p[1] \in K /\ p[2] \in K /\ p[1] \in Int /\ p[2] \in Int /\ p[1] < x /\ x < p[2] /\ profile[x] = 0
    BY <1>7, <2>1
  <2>3. p[2] < y
    <3>1. CASE y = run[2]
      BY <1>2, <1>4, <2>2, <3>1
    <3>2. CASE y # run[2]
      <4>1. PICK q \in Neighbours(K) : y = ValleyRow(q[1], q[2], profile)
        BY <1>8, <3>2
      <4>2. q[1] \in Int /\ q[2] \in Int /\ q[1] < y /\ y < q[2]
        BY <1>7, <4>1
      <4>3. x \in Int /\ y \in Int /\ x < y
        BY <1>2, <1>5
      <4>4. p # q
        BY <2>1, <4>1, <4>3
      <4>5. K \in SUBSET Int
        BY <1>2, <1>4
      <4>6. p[2] <= q[1] \/ q[2] <= p[1]
        BY <4>4, <4>5, NeighboursApart
      <4> QED
        BY <2>2, <4>2, <4>3, <4>6
    <3> QED
      BY <3>1, <3>2
  <2>4. p[2] \in x .. y - 1 /\ profile[p[2]] = top
    BY <1>2, <1>4, <1>5, <2>2, <2>3
  <2> QED
    BY <1>9, <2>2, <2>4 DEF x, y, K
<1> QED
  BY <1>10, <1>11

\* What a piece is trimmed to is the first run of ink in it.
LEMMA CoreIsInkRun ==
  ASSUME NEW n, NEW profile, NEW top, TwoLevels(profile, n, top), NEW run \in MergedRuns(profile, n),
         NEW piece, NEW core, IsCoreOf(core, piece, run, profile)
  PROVE  /\ core \in InkRuns(profile, n)
         /\ \A i \in piece[1] .. core[1] - 1 : profile[i] = 0
<1> DEFINE x == piece[1]
           y == piece[2]
           lo == core[1]
           hi == core[2]
<1>1. n \in Nat /\ top \in Nat \ {0} /\ RowInkFraction <= top /\ \A i \in 0 .. n - 1 : profile[i] \in {0, top}
  BY DEF TwoLevels, IsProfile
<1>2. /\ run[1] \in 0 .. n /\ run[2] \in 0 .. n
      /\ run[1] = 0 \/ profile[run[1] - 1] = 0
      /\ run[2] = n \/ profile[run[2]] = 0
  BY MergedRunIs DEF IsRun
<1>3. /\ piece \in SplitAtValleys(run, profile) /\ core = <<lo, hi>>
      /\ x \in run[1] .. run[2] - 1 /\ y \in x + 1 .. run[2]
      /\ lo \in x .. y - 1 /\ hi \in lo + 1 .. y
  BY Zenon DEF IsCoreOf
<1>4. PICK peak \in x .. y - 1 : IsCore(core, x, y, peak, profile)
  BY Zenon DEF IsCoreOf
<1>5. /\ x = run[1] \/ profile[x] = 0
      /\ y = run[2] \/ profile[y] = 0
      /\ \E i \in x .. y - 1 : profile[i] = top
  BY <1>3, PieceHoldsInk
<1> DEFINE level == Level(profile[peak])
<1>6. /\ lo \in x .. peak /\ hi \in peak + 1 .. y
      /\ \A i \in x .. y - 1 : profile[i] <= profile[peak]
      /\ \A i \in x .. peak - 1 : profile[i] < profile[peak]
      /\ \A i \in lo .. hi - 1 : i = peak \/ profile[i] >= level
      /\ lo = x \/ ~(profile[lo - 1] >= level)
      /\ hi = y \/ ~(profile[hi] >= level)
  BY <1>4, Zenon DEF IsCore
<1> HIDE DEF x, y, lo, hi, level
<1>7. x \in 0 .. n - 1 /\ y \in x + 1 .. n /\ lo \in 0 .. n - 1 /\ hi \in lo + 1 .. n /\ peak \in 0 .. n - 1
  BY <1>1, <1>2, <1>3
<1>8. profile[peak] = top
  <2>1. PICK i \in x .. y - 1 : profile[i] = top
    BY <1>5
  <2>2. top <= profile[peak] /\ profile[peak] \in {0, top}
    BY <1>1, <1>6, <1>7, <2>1
  <2> QED
    BY <1>1, <2>2
<1>9. level \in 1 .. top
  BY <1>1, <1>8, LevelIs DEF level
<1>10. \A i \in 0 .. n - 1 : profile[i] >= level <=> profile[i] = top
  BY <1>1, <1>9
<1>11. \A i \in lo .. hi - 1 : i \in 0 .. n - 1 /\ profile[i] = top
  <2> SUFFICES ASSUME NEW i \in lo .. hi - 1 PROVE i \in 0 .. n - 1 /\ profile[i] = top
    OBVIOUS
  <2>1. i \in 0 .. n - 1
    BY <1>1, <1>7
  <2> QED
    BY <1>6, <1>8, <1>10, <2>1
<1>12. \A i \in x .. peak - 1 : profile[i] = 0
  <2> SUFFICES ASSUME NEW i \in x .. peak - 1 PROVE profile[i] = 0
    OBVIOUS
  <2>1. i \in 0 .. n - 1 /\ profile[i] < top
    BY <1>1, <1>6, <1>7, <1>8
  <2> QED
    BY <1>1, <2>1
<1>13. lo = peak /\ profile[lo] = top
  <2>1. lo \in lo .. hi - 1
    BY <1>1, <1>7
  <2>2. lo \notin x .. peak - 1
    BY <1>1, <1>11, <1>12, <2>1
  <2> QED
    BY <1>1, <1>6, <1>7, <1>11, <2>1, <2>2
<1>14. lo = 0 \/ profile[lo - 1] = 0
  <2>1. CASE lo = x
    BY <1>1, <1>2, <1>5, <1>13, <2>1
  <2>2. CASE lo # x
    <3>1. lo - 1 \in 0 .. n - 1 /\ ~(profile[lo - 1] >= level)
      BY <1>1, <1>6, <1>7, <2>2
    <3> QED
      BY <1>1, <1>10, <3>1
  <2> QED
    BY <2>1, <2>2
<1>15. hi = n \/ profile[hi] = 0
  <2>1. CASE hi = y
    BY <1>2, <1>5, <2>1
  <2>2. CASE hi # y
    <3>1. hi \in 0 .. n - 1 /\ ~(profile[hi] >= level)
      BY <1>1, <1>3, <1>6, <1>7, <2>2
    <3> QED
      BY <1>1, <1>10, <3>1
  <2> QED
    BY <2>1, <2>2
<1>16. <<lo, hi>> \in InkRuns(profile, n)
  BY <1>7, <1>11, <1>14, <1>15, IsInkRun
<1>17. \A i \in x .. lo - 1 : profile[i] = 0
  BY <1>12, <1>13
<1> QED
  BY <1>3, <1>16, <1>17 DEF x, lo

\* A run of ink within the merge gap after one that starts a merged run with a
\* plateau: the first peak is not seen, so nothing parts the two.
HiddenRow(w, profile, n) ==
  \E o \in InkRuns(profile, n) :
     /\ o[2] < w[1] /\ w[1] - o[2] <= MergeGap
     /\ \A i \in o[2] .. w[1] - 1 : profile[i] = 0
     /\ o[2] - o[1] > 1
     /\ \E whole \in MergedRuns(profile, n) : whole[1] = o[1]

\* Two runs of ink have a row without ink between them.
LEMMA InkRunsApart ==
  ASSUME NEW n \in Nat, NEW profile, NEW p \in InkRuns(profile, n), NEW q \in InkRuns(profile, n), p # q
  PROVE  p[2] < q[1] \/ q[2] < p[1]
<1> DEFINE flags == [r \in 0 .. n - 1 |-> profile[r] >= RowInkFraction]
<1>1. DOMAIN flags = 0 .. n - 1 /\ InkRuns(profile, n) = Runs(flags)
  BY DEF InkRuns
<1> HIDE DEF flags
<1> QED
  BY <1>1, RunsApart

\* What a piece is trimmed to is no such run.
LEMMA CoreIsSeen ==
  ASSUME NEW n, NEW profile, NEW top, TwoLevels(profile, n, top),
         NEW core \in Cores(profile, MergedRuns(profile, n))
  PROVE  core \in InkRuns(profile, n) /\ ~HiddenRow(core, profile, n)
<1> DEFINE flags == Merged(profile, n)
           lo == core[1]
<1>1. IsProfile(profile, n) /\ n \in Nat /\ top \in Nat \ {0}
  BY DEF TwoLevels, IsProfile
<1>2. PICK run, piece : /\ run \in MergedRuns(profile, n) /\ IsRun(run, n)
                        /\ IsCoreOf(core, piece, run, profile)
  BY <1>1, CoresAre
<1>3. core \in InkRuns(profile, n) /\ \A i \in piece[1] .. lo - 1 : profile[i] = 0
  BY <1>2, CoreIsInkRun
<1>4. /\ run[1] \in 0 .. n /\ run[2] \in 0 .. n /\ piece[1] \in run[1] .. run[2] - 1
      /\ piece[2] \in piece[1] + 1 .. run[2] /\ lo \in piece[1] .. piece[2] - 1
      /\ piece \in SplitAtValleys(run, profile) /\ profile[run[1]] = top
  BY <1>2, MergedRunIs DEF IsCoreOf, IsRun
<1>5. ASSUME HiddenRow(core, profile, n) PROVE FALSE
  <2>1. PICK o \in InkRuns(profile, n) :
          /\ o[2] < lo /\ lo - o[2] <= MergeGap
          /\ \A i \in o[2] .. lo - 1 : profile[i] = 0
          /\ o[2] - o[1] > 1
          /\ \E whole \in MergedRuns(profile, n) : whole[1] = o[1]
    BY <1>5 DEF HiddenRow
  <2>2. /\ o[1] \in 0 .. n /\ o[2] \in 0 .. n /\ o[1] < o[2]
        /\ \A i \in o[1] .. o[2] - 1 : profile[i] = top
    BY InkRunsAre
  <2>3. PICK whole \in MergedRuns(profile, n) : whole[1] = o[1]
    BY <2>1
  <2>4. lo \in 0 .. n - 1 /\ profile[lo] = top
    <3>1. lo \in 0 .. n - 1 /\ lo \in Int
      BY <1>1, <1>4
    <3>2. core[1] < core[2] /\ core[2] \in 0 .. n /\ \A i \in core[1] .. core[2] - 1 : profile[i] = top
      BY <1>3, InkRunsAre
    <3>3. lo \in core[1] .. core[2] - 1
      BY <3>1, <3>2
    <3> QED
      BY <3>1, <3>2, <3>3
  <2> HIDE DEF lo
  <2>5. \A i \in o[1] .. lo : flags[i]
    <3> SUFFICES ASSUME NEW i \in o[1] .. lo PROVE flags[i]
      OBVIOUS
    <3>1. i \in 0 .. n - 1
      BY <1>1, <2>2, <2>4
    <3>2. CASE i < o[2]
      <4>1. i \in o[1] .. o[2] - 1
        BY <2>2, <3>1, <3>2
      <4> QED
        BY <2>2, <3>1, <4>1, MergedRowsAre
    <3>3. CASE i = lo
      BY <2>4, <3>1, <3>3, MergedRowsAre
    <3>4. CASE o[2] <= i /\ i # lo
      <4>1. Bridges(o, core, i)
        BY <2>1, <2>4, <3>1, <3>4 DEF Bridges, lo
      <4> QED
        BY <1>3, <3>1, <4>1, MergedRowsAre
    <3> QED
      BY <2>2, <3>1, <3>2, <3>3, <3>4
  <2>6. MergedRuns(profile, n) = Runs(flags) /\ DOMAIN flags = 0 .. n - 1
    BY MergedRunsAre
  <2>7. whole[1] \in 0 .. n /\ whole[2] \in 0 .. n /\ whole[1] < whole[2]
    BY MergedRunIs DEF IsRun
  <2> HIDE DEF flags
  <2>8. lo < whole[2]
    <3>1. o[1] \in whole[1] .. whole[2] - 1
      BY <1>1, <2>2, <2>3, <2>7
    <3> QED
      BY <1>1, <2>4, <2>5, <2>6, <3>1, RunReaches
  <2>9. whole = run
    <3>1. run[1] <= lo /\ lo < run[2] /\ whole[1] <= lo
      BY <1>1, <1>4, <2>1, <2>2, <2>3, <2>4
    <3>2. ~(whole[2] < run[1]) /\ ~(run[2] < whole[1])
      BY <1>4, <2>4, <2>7, <2>8, <3>1
    <3> QED
      BY <1>1, <1>2, <2>6, <3>2, RunsApart
  <2>10. piece[1] # run[1]
    <3> SUFFICES ASSUME piece[1] = run[1] PROVE FALSE
      OBVIOUS
    <3>1. o[1] \in piece[1] .. lo - 1 /\ o[1] \in o[1] .. o[2] - 1
      BY <1>1, <2>1, <2>2, <2>3, <2>4, <2>9
    <3> QED
      BY <1>1, <1>3, <2>2, <3>1 DEF lo
  <2>11. PICK k \in Kept(run, profile) : k < piece[1]
    BY <1>2, <1>4, <2>10, PieceHoldsInk
  <2>12. run[2] - run[1] >= 3
    <3>1. ~(run[2] - run[1] < 3)
      BY <2>11 DEF Kept
    <3> QED
      BY <1>4, <3>1
  <2>13. k \in Peaks(run, profile) /\ k \in run[1] .. run[2] - 1
    BY <1>1, <1>2, <1>4, <2>11, <2>12, StartsAreKept, KeptIs
  <2>14. profile[k] = top /\ IF k = run[1] THEN profile[k + 1] = 0 ELSE profile[k - 1] = 0
    BY <1>2, <1>4, <2>12, <2>13, PeaksAreStarts
  <2>15. CASE k = run[1]
    <3>1. k + 1 \in o[1] .. o[2] - 1
      BY <2>1, <2>2, <2>3, <2>9, <2>15
    <3> QED
      BY <1>1, <2>2, <2>14, <2>15, <3>1
  <2>16. CASE k # run[1] /\ k < o[2]
    <3>1. k - 1 \in o[1] .. o[2] - 1
      BY <1>4, <2>2, <2>3, <2>9, <2>13, <2>16
    <3> QED
      BY <1>1, <2>2, <2>14, <2>16, <3>1
  <2>17. CASE k >= o[2]
    <3>1. k \in o[2] .. lo - 1
      BY <1>4, <2>2, <2>4, <2>11, <2>13, <2>17 DEF lo
    <3> QED
      BY <1>1, <2>1, <2>14, <3>1
  <2> QED
    BY <1>4, <2>2, <2>13, <2>15, <2>16, <2>17
<1> QED
  BY <1>3, <1>5

\* And every other run of ink is what some piece is trimmed to.
LEMMA SeenIsCore ==
  ASSUME NEW n, NEW profile, NEW top, TwoLevels(profile, n, top),
         NEW w \in InkRuns(profile, n), ~HiddenRow(w, profile, n)
  PROVE  w \in Cores(profile, MergedRuns(profile, n))
<1> DEFINE flags == Merged(profile, n)
           W == InkRuns(profile, n)
           b == w[1]
<1>1. /\ IsProfile(profile, n) /\ n \in Nat /\ top \in Nat \ {0}
      /\ \A i \in 0 .. n - 1 : profile[i] \in {0, top}
  BY DEF TwoLevels, IsProfile
<1>2. \A r \in W : /\ r[1] \in 0 .. n /\ r[2] \in 0 .. n /\ r[1] < r[2]
                   /\ \A i \in r[1] .. r[2] - 1 : profile[i] = top
                   /\ r[1] = 0 \/ profile[r[1] - 1] = 0
  BY InkRunsAre
<1>3. b \in 0 .. n - 1 /\ b < w[2] /\ w[2] \in 0 .. n /\ profile[b] = top
  <2>1. b \in 0 .. n - 1 /\ b < w[2] /\ w[2] \in 0 .. n /\ b \in w[1] .. w[2] - 1
    BY <1>1, <1>2
  <2> QED
    BY <1>2, <2>1
<1>4. MergedRuns(profile, n) = Runs(flags) /\ DOMAIN flags = 0 .. n - 1
  BY MergedRunsAre
<1>5. PICK run \in MergedRuns(profile, n) : run[1] <= b /\ b < run[2]
  <2>1. flags[b]
    BY <1>3, MergedRowsAre
  <2> HIDE DEF flags, b
  <2> QED
    BY <1>1, <1>3, <1>4, <2>1, RunAround DEF Overlap
<1>6. /\ IsRun(run, n) /\ run[1] \in 0 .. n /\ run[2] \in 0 .. n /\ profile[run[1]] = top
      /\ run[1] = 0 \/ profile[run[1] - 1] = 0
      /\ \A i \in run[1] .. run[2] - 1 : profile[i] = top \/ \E r, s \in W : Bridges(r, s, i)
  BY MergedRunIs DEF IsRun
<1> HIDE DEF flags, W, b
<1>7. PICK piece \in SplitAtValleys(run, profile) : piece[1] <= b /\ b < piece[2]
  <2> DEFINE E == CutAt(run, profile)
  <2>1. /\ SplitAtValleys(run, profile) = Neighbours(E)
        /\ E \in SUBSET (run[1] .. run[2]) /\ run[1] \in E /\ run[2] \in E
    BY <1>1, <1>6, CutsAre
  <2> HIDE DEF E
  <2>2. E \in SUBSET Nat /\ b \in Nat
    BY <1>3, <1>6, <2>1
  <2> QED
    BY <1>5, <2>1, <2>2, NeighboursAround
<1> DEFINE core == TrimToCore(piece, profile)
           K == Kept(run, profile)
<1>8. IsCoreOf(core, piece, run, profile)
  BY <1>1, CoreOfPiece
<1>9. core \in Cores(profile, MergedRuns(profile, n))
  BY Zenon DEF Cores
<1> HIDE DEF core
<1>10. core \in W /\ \A i \in piece[1] .. core[1] - 1 : profile[i] = 0
  BY <1>8, CoreIsInkRun DEF W
<1>11. /\ piece[1] \in run[1] .. run[2] - 1 /\ piece[2] \in piece[1] + 1 .. run[2]
       /\ core[1] \in piece[1] .. piece[2] - 1
  BY <1>8 DEF IsCoreOf
<1>12. piece[1] \in 0 .. n - 1 /\ piece[2] \in 0 .. n /\ core[1] \in 0 .. n - 1 /\ core[2] \in Int
  BY <1>1, <1>2, <1>6, <1>10, <1>11
<1>13. \A i \in core[1] .. b - 1 : i \in 0 .. n - 1 /\ i \in Int
  <2> DEFINE c == core[1]
  <2>1. c \in 0 .. n - 1
    BY <1>12
  <2> HIDE DEF c
  <2>2. \A i \in c .. b - 1 : i \in 0 .. n - 1 /\ i \in Int
    BY <1>1, <1>3, <2>1
  <2> QED
    BY <2>2 DEF c
<1>14. core[1] <= b
  <2> SUFFICES ASSUME b < core[1] PROVE FALSE
    BY <1>3, <1>12
  <2>1. b \in piece[1] .. core[1] - 1
    BY <1>3, <1>7, <1>12
  <2> QED
    BY <1>1, <1>3, <1>10, <2>1
<1>15. \A p, q \in W : p # q => p[2] < q[1] \/ q[2] < p[1]
  BY <1>1, InkRunsApart DEF W
<1>16. w \in W
  BY DEF W
<1>17. core # w => FALSE
  <2> SUFFICES ASSUME core # w PROVE FALSE
    OBVIOUS
  <2>1. core[2] < b /\ core[1] < core[2]
    <3>1. core[2] < b \/ w[2] < core[1]
      BY <1>10, <1>15, <1>16 DEF b
    <3> QED
      BY <1>2, <1>3, <1>10, <1>12, <1>14, <3>1
  <2> DEFINE S == {i \in core[1] .. b - 1 : profile[i] = top}
  <2>2. core[1] \in S
    <3>1. core[1] \in core[1] .. core[2] - 1
      BY <1>12, <2>1
    <3> QED
      BY <1>2, <1>3, <1>10, <1>12, <2>1, <3>1
  <2>3. PICK last \in S : \A i \in S : i <= last
    <3>1. S \in SUBSET (core[1] .. b - 1) /\ S \in SUBSET Int
      OBVIOUS
    <3>2. IsFiniteSet(S)
      <4>1. IsFiniteSet(core[1] .. b - 1)
        BY <1>3, <1>12, FS_Interval
      <4> QED
        BY <3>1, <4>1, FS_Subset
    <3> HIDE DEF S
    <3>3. Max(S) \in S /\ \A i \in S : Max(S) >= i
      BY <2>2, <3>1, <3>2, MaxIs
    <3> QED
      BY <3>1, <3>3
  <2>4. last \in core[1] .. b - 1 /\ profile[last] = top
    BY <2>3
  <2>5. \A i \in last + 1 .. b - 1 : profile[i] = 0
    <3> SUFFICES ASSUME NEW i \in last + 1 .. b - 1 PROVE profile[i] = 0
      OBVIOUS
    <3>0. i \in core[1] .. b - 1 /\ ~(i <= last)
      BY <1>3, <1>12, <2>4
    <3>1. i \in core[1] .. b - 1 /\ i \in 0 .. n - 1 /\ ~(i <= last)
      BY <1>13, <3>0
    <3>2. i \notin S
      BY <2>3, <3>1
    <3> QED
      BY <1>1, <3>1, <3>2
  <2> HIDE DEF S
  <2>6. PICK o \in W : o[1] <= last /\ last < o[2]
    <3>1. last \in 0 .. n - 1
      BY <1>13, <2>4
    <3> QED
      BY <2>4, <3>1, InkRunsAre DEF W
  <2>7. o[1] \in 0 .. n /\ o[2] \in 0 .. n /\ \A i \in o[1] .. o[2] - 1 : profile[i] = top
    BY <1>2
  <2>8. o[2] < b
    <3>1. o # w
      BY <1>3, <1>12, <2>4, <2>6, <2>7 DEF b
    <3>2. o[2] < w[1] \/ w[2] < o[1]
      BY <1>15, <1>16, <3>1
    <3> QED
      BY <1>3, <1>12, <2>4, <2>6, <2>7, <3>2 DEF b
  <2>9. \A i \in o[2] .. b - 1 : profile[i] = 0
    BY <1>12, <2>4, <2>5, <2>6, <2>7
  <2>10. b - o[2] <= MergeGap
    <3>1. b - 1 \in run[1] .. run[2] - 1 /\ b - 1 \in o[2] .. b - 1
      BY <1>3, <1>5, <1>6, <1>11, <1>12, <2>1, <2>7, <2>8
    <3>2. profile[b - 1] # top
      BY <1>1, <2>9, <3>1
    <3>3. PICK r \in W, s \in W : Bridges(r, s, b - 1)
      BY <1>6, <3>1, <3>2
    <3>4. /\ r[1] \in 0 .. n /\ r[2] \in 0 .. n /\ r[1] < r[2] /\ s[1] \in 0 .. n
          /\ r[2] <= b - 1 /\ b - 1 < s[1] /\ s[1] - r[2] <= MergeGap
      BY <1>2, <3>3 DEF Bridges
    <3>5. r[2] <= o[2]
      <4> SUFFICES ASSUME o[2] < r[2] PROVE FALSE
        BY <2>7, <3>4
      <4>1. r[2] - 1 \in o[2] .. b - 1 /\ r[2] - 1 \in r[1] .. r[2] - 1
        BY <1>3, <2>7, <3>4
      <4> QED
        BY <1>1, <1>2, <2>9, <4>1
    <3>6. MergeGap \in Nat
      BY SheetAssumption
    <3> QED
      BY <1>3, <2>7, <3>4, <3>5, <3>6
  <2>11. ~(o[2] - o[1] > 1) \/ run[1] # o[1]
    <3>1. o \in InkRuns(profile, n)
      BY DEF W
    <3> QED
      BY <2>8, <2>9, <2>10, <3>1 DEF HiddenRow, b
  <2>12. run[1] <= o[1] /\ piece[1] <= o[1]
    <3>1. ASSUME NEW x \in 0 .. n - 1, x <= core[1], o[1] < x PROVE x \in o[1] .. o[2] - 1 /\ x - 1 \in o[1] .. o[2] - 1
      BY <1>12, <2>4, <2>6, <2>7, <3>1
    <3>2. run[1] <= o[1]
      <4> SUFFICES ASSUME o[1] < run[1] PROVE FALSE
        BY <1>6, <2>7
      <4>1. run[1] \in 0 .. n - 1 /\ run[1] <= core[1] /\ run[1] # 0
        BY <1>1, <1>6, <1>11, <1>12, <2>7
      <4>2. run[1] - 1 \in o[1] .. o[2] - 1
        BY <3>1, <4>1
      <4> QED
        BY <1>1, <1>6, <2>7, <4>1, <4>2
    <3>3. piece[1] <= o[1]
      <4> SUFFICES ASSUME o[1] < piece[1] PROVE FALSE
        BY <1>12, <2>7
      <4>1. profile[piece[1]] = 0
        <5>1. piece[1] # run[1]
          BY <1>6, <1>12, <2>7, <3>2
        <5> QED
          BY <5>1, PieceHoldsInk
      <4>2. piece[1] \in o[1] .. o[2] - 1
        BY <1>11, <1>12, <3>1
      <4> QED
        BY <1>1, <2>7, <4>1, <4>2
    <3> QED
      BY <3>2, <3>3
  <2>13. run[2] - run[1] >= 3
    BY <1>3, <1>5, <1>6, <2>6, <2>7, <2>8, <2>12, <2>4, <1>12
  <2>14. o[1] \in run[1] .. run[2] - 1 /\ b \in run[1] .. run[2] - 1 /\ o[1] < b /\ b # run[1]
    BY <1>3, <1>5, <1>6, <2>4, <2>6, <2>7, <2>8, <2>12, <1>12
  <2>15. o[1] \in Peaks(run, profile)
    <3>1. profile[o[1]] = top
      <4>1. o[1] \in o[1] .. o[2] - 1
        BY <1>12, <2>4, <2>6, <2>7
      <4> QED
        BY <2>7, <4>1
    <3>2. CASE o[1] = run[1]
      <4>1. o[2] = o[1] + 1
        BY <1>12, <2>4, <2>6, <2>7, <2>11, <3>2
      <4>2. o[2] \in o[2] .. b - 1
        BY <1>3, <2>7, <2>8
      <4>3. profile[o[1] + 1] = 0
        BY <2>9, <4>1, <4>2
      <4> QED
        BY <1>6, <2>13, <2>14, <3>1, <3>2, <4>3, PeaksAreStarts
    <3>3. CASE o[1] # run[1]
      <4>1. o[1] # 0
        BY <1>6, <2>7, <2>12, <3>3
      <4>2. profile[o[1] - 1] = 0
        BY <1>2, <4>1
      <4> QED
        BY <1>6, <2>13, <2>14, <3>1, <3>3, <4>2, PeaksAreStarts
    <3> QED
      BY <3>2, <3>3
  <2>16. b \in Peaks(run, profile)
    <3>1. b - 1 \in o[2] .. b - 1
      BY <1>3, <2>7, <2>8
    <3>2. profile[b - 1] = 0
      BY <2>9, <3>1
    <3> QED
      BY <1>3, <1>6, <2>13, <2>14, <3>2, PeaksAreStarts
  <2>17. K = Peaks(run, profile)
    BY <1>6, <2>13, StartsAreKept
  <2>18. \A x, y \in K : ~(piece[1] <= x /\ x < y /\ y < piece[2])
    BY <1>1, <1>6, PieceIs
  <2> QED
    BY <1>7, <2>12, <2>14, <2>15, <2>16, <2>17, <2>18
<1> QED
  BY <1>9, <1>17

\* The sheet that fills its frame: no row is dark, none is guarded, and a row holds
\* as many tenths of ink as its level.
LEMMA FullSheetIs ==
  ASSUME NEW levels \in [Rows -> 0 .. 10], NEW window, NEW minHeight
  PROVE  /\ IsSheet(FullPaper, 8)
         /\ AnalyzeLines(FullPaper, InkOf(levels), window, minHeight).raw
              = [r \in Rows |-> (Scale * levels[r]) \div 10]
<1> DEFINE found == AnalyzeLines(FullPaper, InkOf(levels), window, minHeight)
           ink == InkOf(levels)
           paper == FullPaper
           own == PaperSpans(paper)
           limit == RoundEven(MaxHeight[1] * Height(paper), MaxHeight[2])
           spans == FillEnclosedGaps(own, limit)
           flags == [r \in DOMAIN paper |-> spans[r] # NoSpan]
           rows == [r \in DOMAIN paper |-> Row(spans[r], ink[r])]
           full == <<0, 11>>
<1>1. DOMAIN paper = Rows /\ Rows = 0 .. 8 - 1 /\ \A r \in Rows : paper[r] = AllColumns
  BY DEF FullPaper, Rows
<1>2. AllColumns \subseteq Nat /\ IsFiniteSet(AllColumns) /\ Min(AllColumns) = 0 /\ Max(AllColumns) = 11
  <2>1. IsFiniteSet(0 .. 11)
    <3>1. 0 \in Int /\ 11 \in Int
      OBVIOUS
    <3> QED
      BY <3>1, FS_Interval, Zenon
  <2>2. Min(AllColumns) = 0 /\ Max(AllColumns) = 11
    BY DEF AllColumns, Min, Max
  <2> QED
    BY <2>1, <2>2 DEF AllColumns
<1>3. full # NoSpan /\ full[1] = 0 /\ full[2] = 11
  BY SheetAssumption
<1>4. found.raw = GuardPaperEdges(rows, flags, EdgeGuard)
  BY Zenon DEF AnalyzeLines
<1>5. \A r \in Rows : own[r] = full
  <2>1. AllColumns # {}
    BY DEF AllColumns
  <2>2. \A r \in Rows : own[r] = IF paper[r] = {} THEN NoSpan ELSE <<Min(paper[r]), Max(paper[r])>>
    BY <1>1 DEF PaperSpans
  <2> QED
    BY <1>1, <1>2, <2>1, <2>2
<1>6. DOMAIN own = Rows
  BY <1>1 DEF PaperSpans
<1> HIDE DEF own, limit, full
<1>7. \A r \in Rows : spans[r] = full
  <2> SUFFICES ASSUME NEW r \in Rows PROVE spans[r] = full
    OBVIOUS
  <2>1. r \in DOMAIN own /\ own[r] # NoSpan
    BY <1>3, <1>5, <1>6
  <2>2. spans[r] = own[r]
    BY <2>1 DEF FillEnclosedGaps
  <2> QED
    BY <1>5, <2>2
<1> HIDE DEF spans, paper
<1>8. DOMAIN flags = 0 .. 8 - 1 /\ \A r \in 0 .. 8 - 1 : flags[r]
  BY <1>1, <1>3, <1>7
<1>9. DOMAIN rows = Rows /\ \A r \in Rows : rows[r] = Row(full, ink[r])
  BY <1>1, <1>7
<1> HIDE DEF flags, rows
<1>10. found.raw = [r \in Rows |-> rows[r]]
  <2>1. ASSUME NEW run \in Runs(flags) PROVE run[1] = 0 /\ run[2] = 8
    <3>1. 8 \in Nat
      OBVIOUS
    <3>2. /\ run[1] \in 0 .. 8 /\ run[2] \in 0 .. 8 /\ run[1] < run[2]
          /\ run[1] = 0 \/ ~flags[run[1] - 1]
          /\ run[2] = 8 \/ ~flags[run[2]]
      BY <1>8, <3>1, RunsAre, Zenon DEF IsRun
    <3> QED
      BY <1>8, <3>2
  <2>2. Height(flags) = 8
    <3>1. \A n \in Nat : Cardinality(0 .. n - 1) = n
      BY FS_Interval
    <3>2. 8 \in Nat
      OBVIOUS
    <3> QED
      BY <1>8, <3>1, <3>2, Zenon DEF Height
  <2> HIDE DEF found
  <2> QED
    BY <1>4, <1>9, <2>1, <2>2 DEF GuardPaperEdges
<1>11. ASSUME NEW r \in Rows PROVE rows[r] = (Scale * levels[r]) \div 10
  <2> DEFINE first == full[1] + 1
             last == full[2] - 1
             width == last - first + 1
             level == levels[r]
  <2>1. first = 1 /\ last = 10 /\ width = 10 /\ ~(width < MinPaperSpan)
    <3>1. MinPaperSpan \in 1 .. 10
      BY SheetAssumption
    <3> QED
      BY <1>3, <3>1
  <2>2. level \in 0 .. 10 /\ ink[r] = 1 .. level
    BY DEF InkOf
  <2>3. ink[r] \cap (first .. last) = 1 .. level
    BY <2>1, <2>2
  <2>4. Cardinality(1 .. level) = level
    BY <2>2, FS_Interval
  <2>5. Row(full, ink[r]) = IF width < MinPaperSpan THEN 0
                            ELSE (Scale * Cardinality(ink[r] \cap (first .. last))) \div width
    BY <1>3, Zenon DEF Row
  <2> HIDE DEF first, last, width, level
  <2>6. Row(full, ink[r]) = (Scale * level) \div 10
    BY <2>1, <2>3, <2>4, <2>5
  <2> QED
    BY <1>9, <2>6 DEF level
<1>12. found.raw = [r \in Rows |-> (Scale * levels[r]) \div 10]
  <2> HIDE DEF found
  <2> QED
    BY <1>10, <1>11
<1>13. IsSheet(paper, 8)
  BY <1>1, <1>2 DEF IsSheet
<1> QED
  BY <1>12, <1>13 DEF found, paper

\* As many rows of ink as a run of it has.
LEMMA InkRunIsTall ==
  ASSUME NEW n, NEW profile, NEW top, TwoLevels(profile, n, top), NEW w \in InkRuns(profile, n),
         NEW minHeight
  PROVE  TallEnough(w, profile, minHeight) <=> w[2] - w[1] >= minHeight
<1> DEFINE S == {r \in w[1] .. w[2] - 1 : profile[r] >= RowInkFraction}
<1>1. top \in Nat /\ RowInkFraction \in Nat /\ RowInkFraction <= top
  BY SheetAssumption DEF TwoLevels
<1>2. /\ w[1] \in 0 .. n /\ w[2] \in 0 .. n /\ w[1] < w[2] /\ n \in Nat
      /\ \A i \in w[1] .. w[2] - 1 : profile[i] = top
  <2>1. n \in Nat
    BY DEF TwoLevels, IsProfile
  <2> QED
    BY <2>1, InkRunsAre
<1>3. S = w[1] .. w[2] - 1
  BY <1>1, <1>2
<1> DEFINE a == w[1]
           b == w[2] - 1
<1>4. a \in Int /\ b \in Int /\ a <= b /\ b - a + 1 = w[2] - w[1]
  BY <1>2
<1> HIDE DEF a, b
<1>5. Cardinality(a .. b) = b - a + 1
  BY <1>4, FS_Interval
<1>6. Cardinality(S) = w[2] - w[1]
  BY <1>3, <1>4, <1>5 DEF a, b
<1>7. TallEnough(w, profile, minHeight) <=> Cardinality(S) >= minHeight
  BY Zenon DEF TallEnough
<1> HIDE DEF S
<1> QED
  BY <1>6, <1>7

\* Every row of a band of an unsmoothed profile holds ink.
LEMMA BandHoldsInk ==
  ASSUME NEW n, NEW profile, IsProfile(profile, n),
         NEW core \in Cores(profile, MergedRuns(profile, n)), NEW minHeight \in Nat \ {0}, TallEnough(core, profile, minHeight),
         NEW i \in core[1] .. core[2] - 1
  PROVE  core[1] \in 0 .. n - 1 /\ core[2] \in core[1] + 1 .. n /\ profile[i] > 0
<1>1. PICK run, piece : /\ run \in MergedRuns(profile, n) /\ IsRun(run, n)
                        /\ IsCoreOf(core, piece, run, profile)
  BY CoresAre
<1> DEFINE x == piece[1]
           y == piece[2]
<1>2. n \in Nat /\ RowInkFraction \in Nat \ {0} /\ \A j \in 0 .. n - 1 : profile[j] \in Nat
  BY SheetAssumption DEF IsProfile
<1>3. PICK peak \in x .. y - 1 : IsCore(core, x, y, peak, profile)
  BY <1>1 DEF IsCoreOf
<1>4. /\ run[1] \in 0 .. n /\ run[2] \in 0 .. n
      /\ x \in run[1] .. run[2] - 1 /\ y \in x + 1 .. run[2]
  BY <1>1 DEF IsCoreOf, IsRun
<1> HIDE DEF x, y
<1> DEFINE level == Level(profile[peak])
<1>5. /\ core[1] \in x .. peak /\ core[2] \in peak + 1 .. y
      /\ \A j \in x .. y - 1 : profile[j] <= profile[peak]
      /\ \A j \in core[1] .. core[2] - 1 : j = peak \/ profile[j] >= level
  BY <1>3, Zenon DEF IsCore
<1>6. x \in 0 .. n - 1 /\ y \in x + 1 .. n /\ peak \in 0 .. n - 1
  BY <1>2, <1>4
<1>7. core[1] \in 0 .. n - 1 /\ core[2] \in core[1] + 1 .. n /\ core[2] <= y
  BY <1>2, <1>5, <1>6
<1>8. PICK r \in core[1] .. core[2] - 1 : profile[r] >= RowInkFraction
  <2> DEFINE S == {j \in core[1] .. core[2] - 1 : profile[j] >= RowInkFraction}
  <2>1. Cardinality(S) >= minHeight
    BY Zenon DEF TallEnough
  <2>2. S # {}
    <3> HIDE DEF S
    <3> QED
      BY <2>1, FS_EmptySet
  <2> QED
    BY <2>2
<1>9. r \in x .. y - 1 /\ r \in 0 .. n - 1 /\ i \in 0 .. n - 1
  BY <1>2, <1>5, <1>6, <1>7
<1>10. profile[peak] \in Nat /\ RowInkFraction <= profile[peak]
  BY <1>2, <1>5, <1>6, <1>8, <1>9
<1>11. level \in 1 .. profile[peak]
  BY <1>10, LevelIs
<1>12. profile[i] > 0
  BY <1>2, <1>5, <1>9, <1>10, <1>11
<1> QED
  BY <1>7, <1>12

--------------------------------------------------------------------------------
(* The rows of a sheet, as an invariant. *)

\* Of a sheet of equally dark rows the bands are the runs of ink of a legal height,
\* but for those hidden behind a plateau.
LEMMA EqualBandsAre ==
  ASSUME NEW levels \in [Rows -> {0, 10}], NEW minHeight
  PROVE  LET found == AnalyzeLines(FullPaper, InkOf(levels), 1, minHeight)
         IN  /\ TwoLevels(found.profile, 8, Scale)
             /\ found.runs = MergedRuns(found.profile, 8)
             /\ \A r \in Rows : found.profile[r] = 0 <=> levels[r] # 10
             /\ InkRuns(found.profile, 8) = Runs([r \in Rows |-> levels[r] = 10])
             /\ found.bands = {w \in InkRuns(found.profile, 8) :
                                 /\ w[2] - w[1] >= minHeight /\ NotTooTall(w, 8)
                                 /\ ~HiddenRow(w, found.profile, 8)}
<1> DEFINE found == AnalyzeLines(FullPaper, InkOf(levels), 1, minHeight)
           profile == found.profile
<1>1. levels \in [Rows -> 0 .. 10]
  OBVIOUS
<1>2. /\ IsSheet(FullPaper, 8)
      /\ found.raw = [r \in Rows |-> (Scale * levels[r]) \div 10]
  BY <1>1, FullSheetIs
<1>3. /\ found.raw \in [0 .. 8 - 1 -> Nat]
      /\ profile = found.raw
      /\ IsProfile(profile, 8)
      /\ found.runs = MergedRuns(profile, 8)
      /\ found.bands = Bands(found, minHeight, 8)
  <2>1. IsAnalysis(found, 8, 1, minHeight)
    <3>1. 1 \in Nat
      OBVIOUS
    <3> QED
      BY <1>2, <3>1, AnalysisIs, Zenon
  <2> HIDE DEF found
  <2> QED
    BY <2>1 DEF IsAnalysis
<1> HIDE DEF found
<1>4. profile = found.raw
  BY <1>3
<1>5. Scale \in Nat \ {0} /\ RowInkFraction \in 1 .. Scale
  BY SheetAssumption
<1>6. \A r \in Rows : profile[r] = IF levels[r] = 10 THEN Scale ELSE 0
  <2> SUFFICES ASSUME NEW r \in Rows PROVE profile[r] = IF levels[r] = 10 THEN Scale ELSE 0
    OBVIOUS
  <2>1. profile[r] = (Scale * levels[r]) \div 10 /\ levels[r] \in {0, 10}
    BY <1>2, <1>4
  <2>2. (Scale * 10) \div 10 = Scale /\ (Scale * 0) \div 10 = 0
    BY <1>5
  <2> QED
    BY <2>1, <2>2
<1>7. Rows = 0 .. 8 - 1
  BY DEF Rows
<1> HIDE DEF profile
<1>8. TwoLevels(profile, 8, Scale)
  BY <1>3, <1>5, <1>6, <1>7 DEF TwoLevels
<1>9. \A r \in Rows : (profile[r] = 0 <=> levels[r] # 10) /\ (profile[r] >= RowInkFraction <=> levels[r] = 10)
  BY <1>5, <1>6
<1>10. InkRuns(profile, 8) = Runs([r \in Rows |-> levels[r] = 10])
  <2>1. [r \in 0 .. 8 - 1 |-> profile[r] >= RowInkFraction] = [r \in Rows |-> levels[r] = 10]
    BY <1>7, <1>9
  <2> QED
    BY <2>1, Zenon DEF InkRuns
<1> DEFINE cores == Cores(profile, MergedRuns(profile, 8))
           seen == {w \in InkRuns(profile, 8) : ~HiddenRow(w, profile, 8)}
<1>11. cores = seen
  <2>1. ASSUME NEW c \in cores PROVE c \in seen
    BY <1>8, CoreIsSeen
  <2>2. ASSUME NEW w \in seen PROVE w \in cores
    BY <1>8, SeenIsCore
  <2> HIDE DEF cores, seen
  <2> QED
    BY <2>1, <2>2
<1>12. found.bands = {c \in cores : NotTooTall(c, 8) /\ TallEnough(c, profile, minHeight)}
  <2>1. Bands(found, minHeight, 8)
          = {c \in Cores(found.profile, found.runs) :
               NotTooTall(c, 8) /\ TallEnough(c, found.raw, minHeight)}
    BY Zenon DEF Bands
  <2>2. found.profile = profile /\ found.raw = profile
    BY <1>4 DEF profile
  <2> QED
    BY <1>3, <2>1, <2>2
<1>13. \A w \in InkRuns(profile, 8) : TallEnough(w, profile, minHeight) <=> w[2] - w[1] >= minHeight
  BY <1>8, InkRunIsTall
<1>14. found.bands = {w \in InkRuns(profile, 8) :
                        /\ w[2] - w[1] >= minHeight /\ NotTooTall(w, 8)
                        /\ ~HiddenRow(w, profile, 8)}
  <2> HIDE DEF cores
  <2> QED
    BY <1>11, <1>12, <1>13
<1> QED
  BY <1>3, <1>8, <1>9, <1>10, <1>14 DEF found, profile

\* Every sheet's bands are apart, and none spans a valley unless its run starts with
\* a plateau (line_detection.py): of any height, ink and smoothing.
THEOREM BandsAreApart ==
  ASSUME NEW n, NEW paper, IsSheet(paper, n), NEW ink, NEW window \in Nat, NEW minHeight
  PROVE  LET found == AnalyzeLines(paper, ink, window, minHeight)
             Plateau(band) == \E run \in found.runs :
                                 /\ run[1] <= band[1] /\ band[2] <= run[2] /\ run[2] - run[1] > 1
                                 /\ found.profile[run[1]] = found.profile[run[1] + 1]
         IN  /\ \A band \in found.bands : \A i, j \in band[1] .. band[2] - 1 :
                  i < j /\ ~Plateau(band) =>
                    Valley[2] * Lowest(found.profile, i, j)
                      >= Valley[1] * Min({found.profile[i], found.profile[j]})
             /\ \A a, b \in found.bands : a # b => a[2] <= b[1] \/ b[2] <= a[1]
<1> DEFINE found == AnalyzeLines(paper, ink, window, minHeight)
           profile == found.profile
<1>1. /\ IsProfile(profile, n) /\ found.runs = MergedRuns(profile, n)
      /\ found.bands = Bands(found, minHeight, n)
  <2>1. IsAnalysis(found, n, window, minHeight)
    BY AnalysisIs
  <2> HIDE DEF found
  <2> QED
    BY <2>1 DEF IsAnalysis
<1> HIDE DEF found
<1>2. found.bands \subseteq Cores(profile, MergedRuns(profile, n))
  <2>1. Bands(found, minHeight, n) \subseteq Cores(found.profile, found.runs)
    BY DEF Bands
  <2> QED
    BY <1>1, <2>1
<1> HIDE DEF profile
<1>3. ASSUME NEW a \in found.bands, NEW b \in found.bands, a # b
      PROVE  a[2] <= b[1] \/ b[2] <= a[1]
  BY <1>1, <1>2, <1>3, CoresApart
<1>4. ASSUME NEW band \in found.bands,
             NEW i \in band[1] .. band[2] - 1, NEW j \in band[1] .. band[2] - 1, i < j,
             ~\E run \in MergedRuns(profile, n) :
                /\ run[1] <= band[1] /\ band[2] <= run[2] /\ run[2] - run[1] > 1
                /\ profile[run[1]] = profile[run[1] + 1]
      PROVE  Valley[2] * Lowest(profile, i, j) >= Valley[1] * Min({profile[i], profile[j]})
  <2>1. band \in Cores(profile, MergedRuns(profile, n))
    BY <1>2
  <2> QED
    BY <1>1, <1>4, <2>1, CoreSpansNoValley
<1> DEFINE Plateau(band) == \E run \in MergedRuns(profile, n) :
                               /\ run[1] <= band[1] /\ band[2] <= run[2] /\ run[2] - run[1] > 1
                               /\ profile[run[1]] = profile[run[1] + 1]
           Holds(i, j) == Valley[2] * Lowest(profile, i, j) >= Valley[1] * Min({profile[i], profile[j]})
<1>5. \A band \in found.bands : \A i, j \in band[1] .. band[2] - 1 :
        i < j /\ ~Plateau(band) => Holds(i, j)
  BY <1>4, Zenon
<1> HIDE DEF Holds
<1>6. \A a, b \in found.bands : a # b => a[2] <= b[1] \/ b[2] <= a[1]
  BY <1>3
<1> QED
  BY <1>1, <1>5, <1>6, Zenon DEF found, profile, Holds

\* A band has paper at its first row or above it, and at its last or below.
BetweenPaper(band, paper, n) ==
  /\ \E r \in 0 .. n - 1 : r <= band[1] /\ paper[r] # {}
  /\ \E r \in 0 .. n - 1 : r >= band[2] - 1 /\ paper[r] # {}

\* Every band of an unsmoothed sheet lies between paper (line_detection.py),
\* whatever is dark around it.
THEOREM BandsLieInPaper ==
  ASSUME NEW n, NEW paper, IsSheet(paper, n), NEW ink,
         NEW window \in 0 .. 1, NEW minHeight \in Nat \ {0}
  PROVE  \A band \in AnalyzeLines(paper, ink, window, minHeight).bands : BetweenPaper(band, paper, n)
<1> DEFINE found == AnalyzeLines(paper, ink, window, minHeight)
           raw == found.raw
<1>1. /\ raw \in [0 .. n - 1 -> Nat] /\ found.profile = raw
      /\ IsProfile(found.profile, n) /\ found.runs = MergedRuns(found.profile, n)
      /\ found.bands = Bands(found, minHeight, n)
  <2>1. window \in Nat /\ window <= 1
    OBVIOUS
  <2>2. IsAnalysis(found, n, window, minHeight)
    BY <2>1, AnalysisIs
  <2> HIDE DEF found
  <2> QED
    BY <2>1, <2>2 DEF IsAnalysis
<1>2. n \in Nat /\ DOMAIN paper = 0 .. n - 1
  BY DEF IsSheet
<1>3. \A r \in 0 .. n - 1 :
        raw[r] # 0 =>
          \/ paper[r] # {}
          \/ \E above \in 0 .. r - 1, below \in r + 1 .. n - 1 : paper[above] # {} /\ paper[below] # {}
  <2> SUFFICES ASSUME NEW r \in 0 .. n - 1, raw[r] # 0
               PROVE  \/ paper[r] # {}
                      \/ \E above \in 0 .. r - 1, below \in r + 1 .. n - 1 :
                           paper[above] # {} /\ paper[below] # {}
    OBVIOUS
  <2>1. paper[r] # {} \/ Enclosed(paper, r, n)
    BY <1>2, InkNeedsPaper
  <2> QED
    BY <2>1, Zenon DEF Enclosed
<1> HIDE DEF found
<1>4. SUFFICES ASSUME NEW band \in found.bands PROVE BetweenPaper(band, paper, n)
  BY Zenon DEF found
<1>5. found.profile = raw
  BY <1>1
<1>6. band \in Cores(raw, MergedRuns(raw, n)) /\ TallEnough(band, raw, minHeight)
  BY <1>1, <1>4, <1>5 DEF Bands
<1> HIDE DEF raw
<1>7. \A i \in band[1] .. band[2] - 1 :
        band[1] \in 0 .. n - 1 /\ band[2] \in band[1] + 1 .. n /\ raw[i] > 0
  BY <1>1, <1>5, <1>6, BandHoldsInk
<1>8. band[1] \in 0 .. n - 1 /\ band[2] \in band[1] + 1 .. n
  <2>1. \E i : i \in band[1] .. band[2] - 1
    <3>1. \E run, piece : run \in MergedRuns(raw, n) /\ IsRun(run, n) /\ IsCoreOf(band, piece, run, raw)
      BY <1>1, <1>5, <1>6, CoresAre
    <3>2. PICK run, piece : IsRun(run, n) /\ IsCoreOf(band, piece, run, raw)
      BY <3>1
    <3>3. run[1] \in Int /\ run[2] \in Int /\ piece[1] \in run[1] .. run[2] - 1
          /\ piece[2] \in piece[1] + 1 .. run[2]
          /\ band[1] \in piece[1] .. piece[2] - 1 /\ band[2] \in band[1] + 1 .. piece[2]
      BY <3>2 DEF IsRun, IsCoreOf
    <3>4. band[1] \in band[1] .. band[2] - 1
      BY <3>3
    <3> QED
      BY <3>4
  <2> QED
    BY <1>7, <2>1
<1> DEFINE first == band[1]
           last == band[2] - 1
<1>9. first \in 0 .. n - 1 /\ last \in first .. n - 1 /\ raw[first] # 0 /\ raw[last] # 0
  <2>1. first \in 0 .. n - 1 /\ last \in first .. n - 1
    BY <1>2, <1>8
  <2>2. first \in band[1] .. band[2] - 1 /\ last \in band[1] .. band[2] - 1
    BY <1>2, <1>8
  <2>3. raw[first] > 0 /\ raw[last] > 0
    BY <1>7, <2>2
  <2> HIDE DEF first, last
  <2> QED
    BY <2>1, <2>3
<1> HIDE DEF first, last
<1>10. \E r \in 0 .. n - 1 : r <= first /\ paper[r] # {}
  BY <1>2, <1>3, <1>9
<1>11. \E r \in 0 .. n - 1 : r >= last /\ paper[r] # {}
  BY <1>2, <1>3, <1>9
<1> QED
  BY <1>10, <1>11 DEF first, last, BetweenPaper

\* The rows of a sheet are found where they are (line_detection.py), for every sheet
\* and capture: equal rows exactly, none across a valley or over another, and none
\* of the surround's ink.
THEOREM RowsAreAlwaysFound == Spec => []RowsAreFound
<1> SUFFICES ASSUME CallsRan PROVE RowsAreFound
  BY CallsRun, PTL
<1> DEFINE in == call.in
           out == call.out
<1>1. Ran("full") => out = AnalyzeLines(FullPaper, InkOf(in.levels), in.window, in.minHeight)
                     /\ in.levels \in [Rows -> 0 .. 10] /\ in.window \in Nat \ {0}
  <2>1. Ran("full") => in \in Inputs["full"] /\ out = Answer("full", in)
    BY RanIs
  <2>2. Answer("full", in) = AnalyzeLines(FullPaper, InkOf(in.levels), in.window, in.minHeight)
    BY DEF Answer
  <2> QED
    BY <2>1, <2>2, SheetAssumption
<1>2. Ran("capture") => out = AnalyzeLines(PaperOf(in), InkOfKinds(in), 1, 1)
                        /\ in \in [CaptureRows -> RowKinds]
  <2>1. Ran("capture") => in \in Inputs["capture"] /\ out = Answer("capture", in)
    BY RanIs
  <2>2. Answer("capture", in) = AnalyzeLines(PaperOf(in), InkOfKinds(in), 1, 1)
    BY DEF Answer
  <2> QED
    BY <2>1, <2>2, SheetAssumption
<1>3. EqualRowsAreBands
  <2> SUFFICES ASSUME Ran("full"), in.window = 1, \A r \in Rows : in.levels[r] \in {0, 10}
               PROVE  LET written == Runs([r \in Rows |-> in.levels[r] = 10])
                          Hidden(run) == \E other \in written :
                                            /\ other[2] < run[1] /\ run[1] - other[2] <= MergeGap
                                            /\ \A i \in other[2] .. run[1] - 1 : in.levels[i] # 10
                                            /\ other[2] - other[1] > 1
                                            /\ \E whole \in out.runs : whole[1] = other[1]
                          Legal(run) == run[2] - run[1] >= in.minHeight /\ NotTooTall(run, 8)
                      IN out.bands = {run \in written : Legal(run) /\ ~Hidden(run)}
    BY Zenon DEF EqualRowsAreBands
  <2> DEFINE levels == in.levels
             minHeight == in.minHeight
             profile == out.profile
             written == Runs([r \in Rows |-> levels[r] = 10])
             Hidden(run) == \E other \in written :
                               /\ other[2] < run[1] /\ run[1] - other[2] <= MergeGap
                               /\ \A i \in other[2] .. run[1] - 1 : levels[i] # 10
                               /\ other[2] - other[1] > 1
                               /\ \E whole \in out.runs : whole[1] = other[1]
  <2>1. levels \in [Rows -> {0, 10}]
    BY <1>1
  <2>2. out = AnalyzeLines(FullPaper, InkOf(levels), 1, minHeight)
    BY <1>1
  <2>3. /\ TwoLevels(profile, 8, Scale)
        /\ out.runs = MergedRuns(profile, 8)
        /\ \A r \in Rows : profile[r] = 0 <=> levels[r] # 10
        /\ InkRuns(profile, 8) = written
        /\ out.bands = {w \in InkRuns(profile, 8) :
                          /\ w[2] - w[1] >= minHeight /\ NotTooTall(w, 8)
                          /\ ~HiddenRow(w, profile, 8)}
    <3> DEFINE found == AnalyzeLines(FullPaper, InkOf(levels), 1, minHeight)
    <3>1. /\ TwoLevels(found.profile, 8, Scale)
          /\ found.runs = MergedRuns(found.profile, 8)
          /\ \A r \in Rows : found.profile[r] = 0 <=> levels[r] # 10
          /\ InkRuns(found.profile, 8) = Runs([r \in Rows |-> levels[r] = 10])
          /\ found.bands = {w \in InkRuns(found.profile, 8) :
                              /\ w[2] - w[1] >= minHeight /\ NotTooTall(w, 8)
                              /\ ~HiddenRow(w, found.profile, 8)}
      <4> HIDE DEF levels, minHeight
      <4> QED
        BY <2>1, EqualBandsAre, Zenon
    <3>2. out = found
      BY <2>2
    <3> HIDE DEF levels, minHeight, out, found
    <3> QED
      BY <3>1, <3>2, Zenon DEF profile, written
  <2> HIDE DEF levels, minHeight, profile, written, out
  <2>4. ASSUME NEW run \in written PROVE HiddenRow(run, profile, 8) <=> Hidden(run)
    <3>1. \A other \in written : /\ other[1] \in 0 .. 8 /\ other[2] \in 0 .. 8 /\ other[1] < other[2]
      <4>1. \A other \in InkRuns(profile, 8) : other \in (0 .. 8) \X (0 .. 8) /\ other[1] < other[2]
        BY <2>3, InkRunsAre, Zenon
      <4> QED
        BY <2>3, <4>1
    <3>2. ASSUME NEW other \in written, NEW i \in other[2] .. run[1] - 1 PROVE i \in Rows
      BY <3>1 DEF Rows
    <3>3. ASSUME NEW other \in written
          PROVE  (\A i \in other[2] .. run[1] - 1 : profile[i] = 0)
                   <=> \A i \in other[2] .. run[1] - 1 : levels[i] # 10
      BY <2>3, <3>2
    <3> QED
      BY <2>3, <3>3, Zenon DEF HiddenRow
  <2> HIDE DEF Hidden
  <2>5. out.bands = {run \in written : (run[2] - run[1] >= minHeight /\ NotTooTall(run, 8)) /\ ~Hidden(run)}
    BY <2>3, <2>4
  <2> QED
    BY <2>5, Zenon DEF levels, minHeight, written, Hidden
<1>4. BandSpansNoValley
  <2>1. CASE Ran("full")
    <3>1. IsSheet(FullPaper, 8) /\ in.window \in Nat
      BY <1>1, <2>1, FullSheetIs
    <3> HIDE DEF in, out
    <3>2. out = AnalyzeLines(FullPaper, InkOf(in.levels), in.window, in.minHeight)
      BY <1>1, <2>1
    <3> DEFINE Plateau(band) == \E run \in out.runs :
                                   /\ run[1] <= band[1] /\ band[2] <= run[2] /\ run[2] - run[1] > 1
                                   /\ out.profile[run[1]] = out.profile[run[1] + 1]
    <3>3. /\ \A band \in out.bands : \A i, j \in band[1] .. band[2] - 1 :
               i < j /\ ~Plateau(band) =>
                 Valley[2] * Lowest(out.profile, i, j)
                   >= Valley[1] * Min({out.profile[i], out.profile[j]})
          /\ \A a, b \in out.bands : a # b => a[2] <= b[1] \/ b[2] <= a[1]
      BY <3>1, <3>2, BandsAreApart, Zenon
    <3> QED
      BY <3>3, Zenon DEF BandSpansNoValley, out
  <2> QED
    BY <2>1, Zenon DEF BandSpansNoValley
<1>5. SurroundNeverCounts
  <2> SUFFICES ASSUME Ran("capture")
               PROVE  LET paper == PaperOf(in)
                          ink == InkOfKinds(in)
                          Inside(span) == IF span = NoSpan THEN {} ELSE span[1] + 1 .. span[2] - 1
                      IN out.bands = AnalyzeLines(paper,
                           [r \in CaptureRows |-> ink[r] \cap Inside(out.spans[r])], 1, 1).bands
    BY Zenon DEF SurroundNeverCounts
  <2> DEFINE paper == PaperOf(in)
             ink == InkOfKinds(in)
             Inside(span) == IF span = NoSpan THEN {} ELSE span[1] + 1 .. span[2] - 1
  <2>1. DOMAIN paper = CaptureRows
    BY DEF PaperOf
  <2>2. out = AnalyzeLines(paper, ink, 1, 1)
    BY <1>2
  <2> HIDE DEF paper, ink, out
  <2>3. AnalyzeLines(paper, [r \in DOMAIN paper |-> ink[r] \cap Inside(out.spans[r])], 1, 1) = out
    BY <2>2, SurroundIsIgnored, Zenon
  <2>4. AnalyzeLines(paper, [r \in CaptureRows |-> ink[r] \cap Inside(out.spans[r])], 1, 1) = out
    BY <2>1, <2>3
  <2> QED
    BY <2>4, Zenon DEF paper, ink
<1>6. BandsInsidePaper
  <2> SUFFICES ASSUME Ran("capture"), NEW band \in out.bands
               PROVE  /\ \E r \in CaptureRows : r <= band[1] /\ PaperOf(in)[r] # {}
                      /\ \E r \in CaptureRows : r >= band[2] - 1 /\ PaperOf(in)[r] # {}
    BY Zenon DEF BandsInsidePaper
  <2> DEFINE paper == PaperOf(in)
  <2>1. IsSheet(paper, 6) /\ CaptureRows = 0 .. 6 - 1
    <3>1. CaptureRows = 0 .. 6 - 1 /\ DOMAIN paper = CaptureRows
      BY DEF CaptureRows, PaperOf
    <3>2. \A k \in Nat : IsFiniteSet(0 .. k) /\ IsFiniteSet(2 .. k) /\ IsFiniteSet({})
      BY FS_Interval, FS_EmptySet
    <3>3. \A r \in CaptureRows : paper[r] \in {{}, 2 .. 11, AllColumns}
      BY DEF PaperOf
    <3>4. {} \subseteq Nat /\ 2 .. 11 \subseteq Nat /\ AllColumns \subseteq Nat /\ 11 \in Nat
      BY DEF AllColumns
    <3>5. IsFiniteSet({}) /\ IsFiniteSet(2 .. 11) /\ IsFiniteSet(AllColumns)
      BY <3>2, <3>4, Zenon DEF AllColumns
    <3> HIDE DEF paper
    <3> QED
      BY <3>1, <3>3, <3>4, <3>5 DEF IsSheet
  <2>2. band \in AnalyzeLines(paper, InkOfKinds(in), 1, 1).bands
    BY <1>2
  <2>3. 1 \in 0 .. 1 /\ 1 \in Nat \ {0}
    OBVIOUS
  <2> HIDE DEF paper
  <2>4. BetweenPaper(band, paper, 6)
    BY <2>1, <2>2, <2>3, BandsLieInPaper, Zenon
  <2> QED
    BY <2>1, <2>4 DEF paper, BetweenPaper
<1> QED
  BY <1>3, <1>4, <1>5, <1>6, Zenon DEF RowsAreFound
================================================================================
