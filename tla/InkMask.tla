------------------------------- MODULE InkMask -------------------------------
(* What counts as paper, as ink and as tilt on a sheet (line_detection.py): *)
(* Otsu's threshold over the grey histogram, the stroke mask that compares  *)
(* a pixel with the closing of its row, and the search for the rotation     *)
(* that makes the written rows sharpest.  Pure functions; the float         *)
(* comparisons of the code are exact here, and angles are counted in fine   *)
(* steps of a quarter of a degree.                                          *)
EXTENDS Integers, Sequences, FiniteSets, SequencesExt, Rounding

CONSTANTS
  NoThreshold,        \* the 128 returned for an empty or one-tone histogram
  StrokeWindow,       \* _STROKE_WINDOW, a power of two
  InkDrop,            \* _INK_DROP
  SkewRange,          \* _SKEW_RANGE, in fine steps
  CoarseStep,         \* _SKEW_COARSE_STEP, in fine steps
  FineSteps           \* _SKEW_FINE_STEPS

Count(histogram, levels) == SumFunctionOnSet(histogram, levels)
Weighted(histogram, levels) ==
  SumFunctionOnSet([v \in DOMAIN histogram |-> v * histogram[v]], levels)

Darker(histogram, t)  == {v \in DOMAIN histogram : v < t}
Lighter(histogram, t) == {v \in DOMAIN histogram : v >= t}

\* Thresholds that leave both classes some pixels.
Splits(histogram) ==
  {t \in DOMAIN histogram : /\ Count(histogram, Darker(histogram, t)) > 0
                            /\ Count(histogram, Lighter(histogram, t)) > 0}

\* Seeded bug: the class sizes do not weigh the distance of the means.
VarianceUnweighted(histogram, t) ==
  LET darkCount == Count(histogram, Darker(histogram, t))
      lightCount == Count(histogram, Lighter(histogram, t))
      spread == Weighted(histogram, Darker(histogram, t)) * lightCount
                  - Weighted(histogram, Lighter(histogram, t)) * darkCount
  IN <<spread * spread, darkCount * lightCount * darkCount * lightCount>>

\* Between-class variance at t, as a fraction <<numerator, denominator>>.
Variance(histogram, t) ==
  LET darkCount == Count(histogram, Darker(histogram, t))
      lightCount == Count(histogram, Lighter(histogram, t))
      spread == Weighted(histogram, Darker(histogram, t)) * lightCount
                  - Weighted(histogram, Lighter(histogram, t)) * darkCount
  IN <<spread * spread, darkCount * lightCount>>

AtLeast(f, g) == f[1] * g[2] >= g[1] * f[2]

\* The middle of the thresholds whose variance is largest.
OtsuThreshold(histogram) ==
  LET plateau == {t \in Splits(histogram) : \A u \in Splits(histogram) :
                     AtLeast(Variance(histogram, t), Variance(histogram, u))}
  IN IF plateau = {} THEN NoThreshold
     ELSE RoundEven(SumSet(plateau), Cardinality(plateau))

\* A whole power of two: halving it again and again ends at one.
PowerOfTwo(n) ==
  \E P \in SUBSET (1 .. n) : n \in P /\ \A m \in P \ {1} : m % 2 = 0 /\ m \div 2 \in P
ASSUME WindowAssumption == StrokeWindow \in Nat \ {0} /\ PowerOfTwo(StrokeWindow)

\* The lightest pixels (sign 1) or the darkest (-1) of a window, by doubling
\* shifted copies of a row; ImageChops.offset wraps around.
Doubled(row, sign, direction) ==
  LET width == Cardinality(DOMAIN row)
      Over[n \in 1 .. StrokeWindow] ==
        LET shift == n \div 2
            before == Over[shift]
        IN IF n = 1 THEN row
           ELSE [x \in DOMAIN row |-> sign * Max({sign * before[x],
                                                  sign * before[(x - direction * shift) % width]})]
  IN Over[StrokeWindow]

HorizontalMax(row) == Doubled(row, 1, 1)

\* Seeded bug: the erosion runs over the pixels ending at each pixel too.
HorizontalMinBackwards(row) == Doubled(row, -1, 1)

HorizontalMin(row) == Doubled(row, -1, -1)

\* The pixels at least InkDrop darker than the closing of their row.
StrokeMask(row) ==
  {x \in DOMAIN row : HorizontalMin(HorizontalMax(row))[x] - row[x] >= InkDrop}

Magnitude(angle) == IF angle < 0 THEN -angle ELSE angle

\* The first candidate with the largest score, a tie going to the smaller turn.
Sharpest(candidates, score) ==
  LET best == {a \in candidates : \A b \in candidates : score[a] >= score[b]}
      least == {a \in best : \A b \in best : Magnitude(a) <= Magnitude(b)}
  IN Min(least)

\* Seeded bug: range() without the + 1 that keeps its last step.
FineAnglesShort(best) == best - FineSteps .. best + FineSteps - 1

\* The candidates of the fine pass round a coarse angle.
FineAngles(best) == best - FineSteps .. best + FineSteps

\* A coarse sweep of the whole range, then a fine one round its winner.
SkewAngle(score) ==
  LET coarse == {a \in -SkewRange .. SkewRange : (a + SkewRange) % CoarseStep = 0}
  IN Sharpest(FineAngles(Sharpest(coarse, score)), score)
=============================================================================
