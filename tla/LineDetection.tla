---------------------------- MODULE LineDetection ----------------------------
(* The written rows of a sheet (app/line_detection.py), as pure functions.  *)
(* A sheet is its deskewed paper and ink masks averaged into columns: for   *)
(* each row the columns that are paper and the columns that are ink.  Rows  *)
(* and columns count from 0, an interval <<a, b>> of rows excludes b and a  *)
(* paper span <<a, b>> includes b, as in the code.  Lists of disjoint       *)
(* intervals are sets of them: the code keeps them top to bottom.  Ink      *)
(* fractions are integers in units of 1 / Scale.                            *)
EXTENDS Integers, Sequences, FiniteSets, SequencesExt, Rounding

CONSTANTS
  Scale,              \* a common multiple of the divisors met by Row and Smooth
  RowInkFraction,     \* _ROW_INK_FRACTION, in units of 1 / Scale
  MinPaperSpan,       \* _MIN_PAPER_SPAN_FRACTION of the columns
  EdgeGuard,          \* _EDGE_GUARD_FRACTION of the height
  MergeGap,           \* _MERGE_GAP_FRACTION of the height
  MaxHeight,          \* _MAX_HEIGHT_FRACTION, as <<numerator, denominator>>
  Valley,             \* _VALLEY_RATIO, as <<numerator, denominator>>
  Core,               \* _CORE_RATIO, as <<numerator, denominator>>
  NoSpan

Height(rows) == Cardinality(DOMAIN rows)
Overlap(run, row) == run[1] <= row /\ row < run[2]

\* Maximal runs of rows whose flag is set.
Runs(flags) ==
  LET n == Height(flags)
      Edge(i) == i \notin DOMAIN flags \/ ~flags[i]
  IN { run \in (0 .. n) \X (0 .. n) :
         /\ run[1] < run[2]
         /\ \A i \in run[1] .. run[2] - 1 : flags[i]
         /\ Edge(run[1] - 1) /\ Edge(run[2]) }

\* Runs whose gap is at most maxGap rows become one.
MergeGaps(runs, maxGap, n) ==
  Runs([i \in 0 .. n - 1 |->
          \/ \E r \in runs : Overlap(r, i)
          \/ \E r, s \in runs : r[2] <= i /\ i < s[1] /\ s[1] - r[2] <= maxGap])

\* The first and last paper column of every row.
PaperSpans(paper) ==
  [r \in DOMAIN paper |->
     IF paper[r] = {} THEN NoSpan ELSE <<Min(paper[r]), Max(paper[r])>>]

Wider(above, below) ==
  IF above[2] - above[1] >= below[2] - below[1] THEN above ELSE below

\* Seeded bug: an all-dark run at the frame's edge takes the one span it has.
FillFromEitherSide(spans, maxRun) ==
  LET n == Height(spans)
      dark == Runs([r \in DOMAIN spans |-> spans[r] = NoSpan])
      Around(r) == CHOOSE run \in dark : Overlap(run, r)
  IN [r \in DOMAIN spans |->
        IF spans[r] # NoSpan \/ Around(r) = <<0, n>> THEN spans[r]
        ELSE LET a == Around(r)
                 above == IF a[1] > 0 THEN spans[a[1] - 1] ELSE spans[a[2]]
                 below == IF a[2] < n THEN spans[a[2]] ELSE above
             IN IF a[2] - a[1] <= maxRun THEN Wider(above, below) ELSE NoSpan]

\* An all-dark run inherits the wider span beside it, but only when paper
\* encloses it and it is not too tall.
FillEnclosedGaps(spans, maxRun) ==
  LET n == Height(spans)
      dark == Runs([r \in DOMAIN spans |-> spans[r] = NoSpan])
      Around(r) == CHOOSE run \in dark : Overlap(run, r)
  IN [r \in DOMAIN spans |->
        IF spans[r] # NoSpan THEN spans[r]
        ELSE LET a == Around(r)
             IN IF a[1] > 0 /\ a[2] < n /\ a[2] - a[1] <= maxRun
                THEN Wider(spans[a[1] - 1], spans[a[2]])
                ELSE NoSpan]

\* Seeded bug: the straddling buckets at both ends of the span are counted.
RowWithoutInset(span, ink) ==
  LET width == span[2] - span[1] + 1
      dark == Cardinality(ink \cap (span[1] .. span[2]))
  IN IF span = NoSpan \/ width < MinPaperSpan THEN 0 ELSE (Scale * dark) \div width

\* The share of ink inside a row's paper, one bucket in from either end.
Row(span, ink) ==
  IF span = NoSpan THEN 0
  ELSE LET first == span[1] + 1
           last == span[2] - 1
           width == last - first + 1
       IN IF width < MinPaperSpan THEN 0
          ELSE (Scale * Cardinality(ink \cap (first .. last))) \div width

\* Seeded bug: the frame's own top and bottom are guarded like paper edges.
GuardEveryEdge(profile, hasSpan, guard) ==
  [r \in DOMAIN profile |->
     IF \E run \in Runs(hasSpan) :
           Overlap(run, r) /\ (r < run[1] + guard \/ r >= run[2] - guard)
     THEN 0 ELSE profile[r]]

\* The rows just inside an edge of the paper hold no ink; the frame's own top
\* and bottom are no edges.
GuardPaperEdges(profile, hasSpan, guard) ==
  [r \in DOMAIN profile |->
     IF \E run \in Runs(hasSpan) :
           /\ Overlap(run, r)
           /\ \/ run[1] > 0 /\ r < run[1] + guard
              \/ run[2] < Height(hasSpan) /\ r >= run[2] - guard
     THEN 0 ELSE profile[r]]

SumOver(values, lo, hi) == SumFunctionOnSet(values, lo .. hi - 1)

\* The mean over a centred window, shorter at the ends.
Smooth(values, window) ==
  LET n == Height(values)
      half == window \div 2
      Lo(i) == Max({0, i - half})
      Hi(i) == Min({n, i + half + 1})
  IN IF window <= 1 THEN values
     ELSE [i \in DOMAIN values |->
             SumOver(values, Lo(i), Hi(i)) \div (Hi(i) - Lo(i))]

Lowest(profile, a, b) == Min({profile[i] : i \in a .. b})

\* Seeded bug: a peak must rise above both neighbours, so a plateau has none.
PeaksStrict(run, profile) ==
  LET start == run[1]
      last == run[2] - 1
  IN { i \in start .. last :
         /\ i = start \/ profile[i] > profile[i - 1]
         /\ i = last \/ profile[i] > profile[i + 1] }

\* The local maxima of a run; a plateau counts at its first row, except the one
\* the run starts with.
Peaks(run, profile) ==
  LET start == run[1]
      last == run[2] - 1
  IN { i \in start .. last :
         /\ i = start \/ profile[i] > profile[i - 1]
         /\ CASE i = start -> profile[i] > profile[i + 1]
              [] i = last  -> TRUE
              [] OTHER     -> profile[i] >= profile[i + 1] }

Separated(a, b, profile) ==
  Valley[2] * Lowest(profile, Min({a, b}), Max({a, b}))
    < Valley[1] * Min({profile[a], profile[b]})

Higher(i, j, profile) == profile[i] > profile[j] \/ (profile[i] = profile[j] /\ i < j)

\* From the highest peak down, the first of equals first, those a valley separates
\* from all kept before: the higher ones of the kept decide on a peak.
KeptPeaks(peaks, profile) ==
  CHOOSE kept \in SUBSET peaks :
    \A i \in peaks :
      i \in kept <=> \A other \in kept : Higher(other, i, profile) => Separated(i, other, profile)

Neighbours(S) == {p \in S \X S : p[1] < p[2] /\ ~\E x \in S : p[1] < x /\ x < p[2]}

\* The first lowest row between two peaks.
ValleyRow(a, b, profile) == Min({i \in a .. b : profile[i] = Lowest(profile, a, b)})

\* A run cut between each two neighbouring kept peaks.
SplitAtValleys(run, profile) ==
  LET kept == IF run[2] - run[1] < 3 THEN {} ELSE KeptPeaks(Peaks(run, profile), profile)
  IN Neighbours({run[1], run[2]} \cup {ValleyRow(p[1], p[2], profile) : p \in Neighbours(kept)})

Level(peak) == Max({RowInkFraction, (Core[1] * peak) \div Core[2]})

\* The rows next to a piece's peak that hold at least the level, contiguously.
TrimToCore(run, profile) ==
  LET rows == run[1] .. run[2] - 1
      high == Max({profile[i] : i \in rows})
      peak == Min({i \in rows : profile[i] = high})
      Solid(a, b) == \A i \in (a .. b) \ {peak} : profile[i] >= Level(high)
  IN << Min({a \in run[1] .. peak : Solid(a, peak)}),
        Max({b \in peak .. run[2] - 1 : Solid(peak, b)}) + 1 >>

\* Rows of raw ink, not the piece's extent, tell a written row from a speck.
TallEnough(piece, raw, minHeight) ==
  Cardinality({r \in piece[1] .. piece[2] - 1 : raw[r] >= RowInkFraction}) >= minHeight

NotTooTall(piece, n) == MaxHeight[2] * (piece[2] - piece[1]) <= MaxHeight[1] * n

\* analyze_lines on a sheet with contrast, every stage of it.  The smoothing
\* window and the least height follow from the frame's height.
AnalyzeLines(paper, ink, window, minHeight) ==
  LET n == Height(paper)
      spans == FillEnclosedGaps(PaperSpans(paper), RoundEven(MaxHeight[1] * n, MaxHeight[2]))
      raw == GuardPaperEdges([r \in DOMAIN paper |-> Row(spans[r], ink[r])],
                             [r \in DOMAIN paper |-> spans[r] # NoSpan], EdgeGuard)
      profile == Smooth(raw, window)
      runs == MergeGaps(Runs([r \in DOMAIN profile |-> profile[r] >= RowInkFraction]),
                        MergeGap, n)
      pieces == UNION {SplitAtValleys(run, profile) : run \in runs}
      cores == {TrimToCore(piece, profile) : piece \in pieces}
  IN [ spans |-> spans, raw |-> raw, profile |-> profile, runs |-> runs, pieces |-> pieces,
       bands |-> {c \in cores : /\ NotTooTall(c, n)
                                 /\ TallEnough(c, raw, minHeight)} ]
=============================================================================
