------------------------------ MODULE Learning ------------------------------
(* What a review changed (app/learning.py) and the reports built from it    *)
(* (routers/learning.py, scripts/evaluate_recognition.py), as pure          *)
(* functions of documents.  Only the longest-match alignment of difflib is  *)
(* external.  Rates are integers per thousand tokens.                       *)
EXTENDS Stf, Rounding

CONSTANTS
  SheetTarget,      \* BASELINE_SHEET_TARGET
  LadderGate        \* LADDER_GATE, in ten-thousandths

\* ------------------------------------------------------------------- tokens
StfTokens(doc) ==
  LET Of(line) == <<[k |-> "line", n |-> line.n, kind |-> line.kind]>> \o line.text
                    \o <<[k |-> "eol"]>>
  IN << [k |-> "header", field |-> "concert", value |-> doc.header.concert],
        [k |-> "header", field |-> "alto", value |-> doc.header.alto],
        [k |-> "header", field |-> "beat", value |-> doc.header.beat] >>
     \o FlattenSeq([i \in DOMAIN doc.lines |-> Of(doc.lines[i])])

Categories == {"header", "layout", "curve", "rhythm", "barline", "accidental",
               "octave", "letter", "alien_letter"}

MarksOf(note, marks) ==
  [m \in marks |-> Len(SelectSeq(note.mods, LAMBDA x : x = m))]
NoMarks(marks) == [m \in marks |-> 0]

SymbolCategory(s) ==
  CASE s \in {"(", ")"}     -> "curve"
    [] s \in {"-", "+"}     -> "rhythm"
    [] s \in {"|", "//"}    -> "barline"
    [] s \in Accidentals    -> "accidental"
    [] s \in OctaveDots     -> "octave"
    [] s \in Aliens         -> "alien_letter"
    [] OTHER                -> "layout"

Category(token) ==
  CASE token.k = "header"          -> "header"
    [] token.k \in {"line", "eol"} -> "layout"
    [] token.k = "sym"             -> SymbolCategory(token.s)
    [] token.k = "note" ->
         IF MarksOf(token, Accidentals) # NoMarks(Accidentals) THEN "accidental"
         ELSE IF MarksOf(token, OctaveDots) # NoMarks(OctaveDots) THEN "octave"
         ELSE "letter"

\* Seeded bug: a replaced token is charged to what the model wrote only.
AttributeToRaw(raw, corrected) ==
  IF IsNote(raw) /\ IsNote(corrected)
  THEN {c \in {"letter", "accidental", "octave"} :
          CASE c = "letter"     -> raw.letter # corrected.letter
            [] c = "accidental" -> MarksOf(raw, Accidentals) # MarksOf(corrected, Accidentals)
            [] c = "octave"     -> MarksOf(raw, OctaveDots) # MarksOf(corrected, OctaveDots)}
  ELSE {Category(raw)}

\* The categories a replaced token is charged to: between notes the aspects
\* that differ, otherwise what each of the two is.
AttributeReplacement(raw, corrected) ==
  IF IsNote(raw) /\ IsNote(corrected)
  THEN {c \in {"letter", "accidental", "octave"} :
          CASE c = "letter"     -> raw.letter # corrected.letter
            [] c = "accidental" -> MarksOf(raw, Accidentals) # MarksOf(corrected, Accidentals)
            [] c = "octave"     -> MarksOf(raw, OctaveDots) # MarksOf(corrected, OctaveDots)}
  ELSE {Category(raw), Category(corrected)}

\* ---------------------------------------------------------------- alignment
\* The blocks common to a and b after one place in both and up to another, each
\* by where it starts in either and its length.
CommonBlocks(a, b, from, to) ==
  {x \in (from[1] + 1 .. to[1]) \X (from[2] + 1 .. to[2]) \X (1 .. to[1] - from[1]) :
     /\ x[1] + x[3] - 1 <= to[1] /\ x[2] + x[3] - 1 <= to[2]
     /\ \A d \in 0 .. x[3] - 1 : a[x[1] + d] = b[x[2] + d]}

\* The first in a and then in b of the longest blocks.
LongestBlock(blocks) ==
  CHOOSE x \in blocks : \A y \in blocks :
     \/ x[3] > y[3]
     \/ x[3] = y[3] /\ (x[1] < y[1] \/ (x[1] = y[1] /\ x[2] <= y[2]))

\* difflib without junk: the longest common block, and the same on either side
\* of it; as the set of matched positions.
MatchedPairs(a, b) ==
  LET Places == (0 .. Len(a)) \X (0 .. Len(b))
      Between[part \in Places \X Places] ==
        LET blocks == CommonBlocks(a, b, part[1], part[2])
            m == LongestBlock(blocks)
        IN IF blocks = {} THEN {}
           ELSE {<<m[1] + d, m[2] + d>> : d \in 0 .. m[3] - 1}
                  \cup Between[<<part[1], <<m[1] - 1, m[2] - 1>>>>]
                  \cup Between[<<<<m[1] + m[3] - 1, m[2] + m[3] - 1>>, part[2]>>]
  IN Between[<<<<0, 0>>, <<Len(a), Len(b)>>>>]

\* ------------------------------------------------------------------ summary
\* Seeded bug: zip stops at the shorter side and the tail goes uncharged.
GapEditsZipped(raw, corrected, from, to) ==
  LET before == SubSeq(raw, from[1] + 1, to[1] - 1)
      after == SubSeq(corrected, from[2] + 1, to[2] - 1)
  IN [i \in 1 .. Max({Len(before), Len(after)}) |->
        IF i <= Min({Len(before), Len(after)})
        THEN AttributeReplacement(before[i], after[i]) ELSE {}]

\* The edits between two neighbouring matches: tokens replaced pairwise, the
\* rest of the longer side deleted or inserted.
GapEdits(raw, corrected, from, to) ==
  LET before == SubSeq(raw, from[1] + 1, to[1] - 1)
      after == SubSeq(corrected, from[2] + 1, to[2] - 1)
      both == Min({Len(before), Len(after)})
  IN [i \in 1 .. Max({Len(before), Len(after)}) |->
        IF i <= both THEN AttributeReplacement(before[i], after[i])
        ELSE {Category(IF i <= Len(before) THEN before[i] ELSE after[i])}]

\* The charges of every edit, by gap (its match before) and place in the gap.
Edits(raw, corrected) ==
  LET places == MatchedPairs(raw, corrected)
                  \cup {<<0, 0>>, <<Len(raw) + 1, Len(corrected) + 1>>}
      Following(p) == CHOOSE q \in places : q[1] > p[1] /\ \A r \in places : r[1] > p[1] => q[1] <= r[1]
      gaps == [p \in places \ {<<Len(raw) + 1, Len(corrected) + 1>>} |->
                 GapEdits(raw, corrected, p, Following(p))]
  IN [e \in UNION {{p} \X (DOMAIN gaps[p]) : p \in DOMAIN gaps} |-> gaps[e[1]][e[2]]]

CorrectionSummary(rawStf, correctedStf) ==
  LET raw == StfTokens(rawStf)
      corrected == StfTokens(correctedStf)
      edits == Edits(raw, corrected)
  IN [ rawTokens |-> Len(raw), correctedTokens |-> Len(corrected), changed |-> Cardinality(DOMAIN edits),
       exact |-> raw = corrected,
       categories |-> [c \in Categories |->
                         Cardinality({i \in DOMAIN edits : c \in edits[i]})] ]

\* Seeded bug: the lines one document lacks are not counted.
EvaluationMetricsShared(expected, candidate) ==
  LET summary == CorrectionSummary(candidate, expected)
      shared == 1 .. Min({Len(expected.lines), Len(candidate.lines)})
  IN [ summary |-> summary,
       rightTokens |-> Max({0, summary.correctedTokens - summary.changed}),
       rightLines |-> Cardinality({i \in shared : expected.lines[i] = candidate.lines[i]}),
       lineCount |-> Cardinality(shared) ]

\* The summary with the accuracies, as numbers of right tokens and lines.
EvaluationMetrics(expected, candidate) ==
  LET summary == CorrectionSummary(candidate, expected)
      shared == 1 .. Min({Len(expected.lines), Len(candidate.lines)})
  IN [ summary |-> summary,
       rightTokens |-> Max({0, summary.correctedTokens - summary.changed}),
       rightLines |-> Cardinality({i \in shared : expected.lines[i] = candidate.lines[i]}),
       lineCount |-> Max({Len(expected.lines), Len(candidate.lines)}) ]

\* ------------------------------------------------------------------- report
SumOf(results, Of(_)) == SumFunction([i \in DOMAIN results |-> Of(results[i])])

\* baseline_report on the metrics of each reviewed sheet.
BaselineReport(results) ==
  LET sheets == Cardinality(DOMAIN results)
      totals == [c \in Categories |-> SumOf(results, LAMBDA r : r.summary.categories[c])]
      tokens == SumOf(results, LAMBDA r : r.summary.correctedTokens)
  IN [ sheets |-> sheets, ready |-> sheets >= SheetTarget,
       needed |-> Max({0, SheetTarget - sheets}),
       exact |-> SumOf(results, LAMBDA r : IF r.summary.exact THEN 1 ELSE 0),
       corrections |-> totals,
       perK |-> [c \in Categories |->
                   IF tokens = 0 THEN 0 ELSE RoundEven(1000 * totals[c], tokens)],
       affected |-> [c \in Categories |->
                       SumOf(results, LAMBDA r : IF r.summary.categories[c] > 0 THEN 1 ELSE 0)] ]

\* Seeded bug: a draft nobody reviewed counts as right.
PairsUnreviewed(rows, owner) ==
  {i \in DOMAIN rows : rows[i].outcome = "succeeded" /\ rows[i].owner = owner}

\* Seeded bug: a transcription is joined with every run of its page.
RowsByPage(db) ==
  [r \in {r \in DOMAIN db.runs : db.runs[r].scan \in DOMAIN db.transcriptions} |->
     LET page == db.runs[r].scan
     IN [ status |-> db.transcriptions[page].status, outcome |-> db.runs[r].outcome,
          owner |-> db.songs[db.scans[page]], raw |-> db.runs[r].raw,
          corrected |-> db.transcriptions[page].corrected ]]

\* The joins of _PAIRS over tables by their keys (a scan has one transcription):
\* the run a transcription points at, if any, its scan and the scan's song.
JoinedRows(db) ==
  LET Run(page) == db.transcriptions[page].run
  IN [page \in {p \in DOMAIN db.transcriptions : Run(p) \in DOMAIN db.runs} |->
        [ status |-> db.transcriptions[page].status, outcome |-> db.runs[Run(page)].outcome,
          owner |-> db.songs[db.scans[page]], raw |-> db.runs[Run(page)].raw,
          corrected |-> db.transcriptions[page].corrected ]]

\* Its WHERE: the caller's reviewed transcriptions of a run that succeeded.
Pairs(rows, owner) ==
  {i \in DOMAIN rows : /\ rows[i].status = "reviewed" /\ rows[i].outcome = "succeeded"
                       /\ rows[i].owner = owner}

SheetsReport(rows, owner) ==
  BaselineReport([i \in Pairs(rows, owner) |->
                    EvaluationMetrics(rows[i].corrected, rows[i].raw)])

RecognitionBaseline(db, owner) == SheetsReport(JoinedRows(db), owner)

\* ----------------------------------------------------------------- verdicts
\* Seeded bug: the arms' best runs are compared.
VerdictOfBest(control, candidate, lowerIsBetter) ==
  LET Best(arm) == IF lowerIsBetter THEN -Min(arm) ELSE Max(arm)
  IN IF Best(candidate) > Best(control) THEN "better"
     ELSE IF Best(candidate) < Best(control) THEN "worse" ELSE "inside_noise"

\* Only arms whose runs do not overlap differ.
Verdict(control, candidate, lowerIsBetter) ==
  LET below == Max(candidate) < Min(control)
      above == Min(candidate) > Max(control)
      won == IF lowerIsBetter THEN below ELSE above
      lost == IF lowerIsBetter THEN above ELSE below
  IN IF won THEN "better" ELSE IF lost THEN "worse" ELSE "inside_noise"

\* Seeded bug: beating the worst control run is taken for beating the noise.
CompareReportsWithWorst(control, tiled) ==
  LET base == RoundEven(SumFunction(control), Len(control))
  IN [ pass |-> base # 0 /\ RoundEven(10000 * (base - tiled), base) >= LadderGate,
       beyondNoise |-> Len(control) > 1 /\ tiled < Max(ToSet(control)) ]

\* compare_reports on the combined rate of every control run (a sequence) and
\* the tiled run's: the ladder gate and the noise guardrail.
CompareReports(control, tiled) ==
  LET base == RoundEven(SumFunction(control), Len(control))
  IN [ pass |-> base # 0 /\ RoundEven(10000 * (base - tiled), base) >= LadderGate,
       beyondNoise |-> Len(control) > 1 /\ tiled < Min(ToSet(control)) ]
=============================================================================
