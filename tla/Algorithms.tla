------------------------------ MODULE Algorithms ------------------------------
(* The program's pure functions, each called once on one of its inputs and   *)
(* then returning: `call' holds the function, its input and its result.      *)
EXTENDS LineDetection, InkMask, Recognizer, Transpose, Learning

CONSTANTS
  Inputs,           \* the inputs of every function, by its name
  Pending           \* a call without an input or without a result yet

\* Notes are the parser's: a letter of the scale and marks.  Texts are of such
\* notes and of symbols, and an interval is one that transposeSemitones chooses.
Interval == -5 .. 6
Notes == [k : {"note"}, letter : DOMAIN NaturalPC, mods : Seq(Accidentals \cup OctaveDots)]
IsText(text) ==
  /\ text \in Seq(ToSet(text))
  /\ \A i \in DOMAIN text : text[i] \in Notes \/ text[i].k = "sym"

ASSUME NoteAssumption == \A in \in Inputs["note"] : in.note \in Notes /\ in.k \in Interval
ASSUME LineAssumption == \A in \in Inputs["line"] : IsText(in.text) /\ in.k \in Interval
ASSUME AdviceAssumption ==
  \A in \in Inputs["advice"] :
     /\ in.concert \in Seq(ToSet(in.concert)) /\ in.alto \in Seq(ToSet(in.alto))
     /\ in.plain \in Nat /\ in.curved \in Nat
ASSUME RowAssumption ==
  \A in \in Inputs["row"] : in.bands \in Nat /\ in.lines \in Nat \ {0} /\ in.topExtra \in Int

\* A histogram counts the pixels of each level, a row of pixels has a width of
\* eight, and sharpness falls off on either side; the coarse step divides the
\* range, and the fine pass reaches the step before the next coarse angle.
ASSUME HistogramAssumption ==
  \A in \in Inputs["otsu"] :
     in \in [DOMAIN in -> Nat] /\ DOMAIN in \subseteq Nat /\ IsFiniteSet(DOMAIN in)
ASSUME StrokeAssumption == InkDrop \in Int /\ \A in \in Inputs["strokes"] : in \in [0 .. 7 -> Nat]
ASSUME TiltAssumption ==
  /\ SkewRange \in Nat /\ CoarseStep \in Nat \ {0} /\ SkewRange % CoarseStep = 0
  /\ FineSteps \in Nat /\ FineSteps >= CoarseStep - 1
  /\ \A in \in Inputs["skew"] :
       /\ in.from \in Int /\ in.to \in Int /\ in.from <= in.to
       /\ in.left \in Nat \ {0} /\ in.right \in Nat \ {0}

\* Images and pages have a size.  A page is read as one band or as two halves,
\* whose first begins with the page and whose second ends with it; a reply ends
\* for one of the model's reasons, and is an object, another value or no JSON.
Answered == [error : BOOLEAN, stop : {"end_turn", "max_tokens", "refusal"},
             json : {InvalidJson, "value", "object"}]
ASSUME BoxAssumption ==
  NoCap \notin Nat /\ \A in \in Inputs["box"] : in \in (Nat \ {0}) \X (Nat \ {0})
ASSUME BandsAssumption ==
  /\ OverlapFraction \in Nat \X (Nat \ {0})
  /\ \A in \in Inputs["bands"] : in.h \in Nat \ {0} /\ in.tiles \in Nat \ {0}
ASSUME ReplyAssumption == \A in \in Inputs["reply"] : in \in Seq(ToSet(in))
ASSUME StitchAssumption ==
  \A in \in Inputs["stitch"] :
     /\ in.page \in Seq([kind : STRING, text : STRING])
     /\ in.from \in 1 .. Len(in.page) /\ in.to \in 0 .. Len(in.page) /\ in.from <= in.to + 1
ASSUME PageAssumption ==
  /\ <<"a", "b">> \notin Alike
  /\ \A in \in Inputs["page"] :
       /\ in.hasKey \in BOOLEAN /\ in.hasSdk \in BOOLEAN
       /\ in.answers \in Seq(Answered) /\ Len(in.answers) \in 1 .. 2

\* A document is a header and lines of text, a run that succeeded has one for its
\* draft, an arm has runs, and a rate is a natural number.
IsDoc(doc) ==
  /\ doc = [header |-> [concert |-> doc.header.concert, alto |-> doc.header.alto,
                        beat |-> doc.header.beat],
            lines |-> doc.lines]
  /\ doc.lines \in Seq(ToSet(doc.lines))
  /\ \A i \in DOMAIN doc.lines :
       LET line == doc.lines[i]
       IN line = [n |-> line.n, kind |-> line.kind, text |-> line.text] /\ IsText(line.text)
ASSUME MetricsAssumption ==
  \A in \in Inputs["metrics"] : IsDoc(in.expected) /\ IsDoc(in.candidate)
ASSUME BaselineAssumption ==
  /\ SheetTarget \in Nat
  /\ \A in \in Inputs["baseline"] :
       /\ IsFiniteSet(DOMAIN in.transcriptions)
       /\ \A p \in DOMAIN in.transcriptions : IsDoc(in.transcriptions[p].corrected)
       /\ \A r \in DOMAIN in.runs : in.runs[r].outcome = "succeeded" => IsDoc(in.runs[r].raw)
ASSUME VerdictAssumption ==
  \A in \in Inputs["verdict"] :
     /\ in.lowerIsBetter \in BOOLEAN
     /\ \A arm \in {in.control, in.candidate} :
          arm \subseteq Nat /\ arm # {} /\ IsFiniteSet(arm)
ASSUME LadderAssumption ==
  /\ LadderGate \in Nat \ {0}
  /\ \A in \in Inputs["ladder"] : in.control \in Seq(Nat) \ {<<>>} /\ in.tiled \in Nat

VARIABLE call

NoCall == [fn |-> "none", in |-> Pending, out |-> Pending]
Init == call = NoCall
Calls(fn) ==
  call = NoCall /\ \E in \in Inputs[fn] : call' = [fn |-> fn, in |-> in, out |-> Pending]
Returns(fn, out) == call.fn = fn /\ call.out = Pending /\ call' = [call EXCEPT !.out = out]

\* ------------------------------------------------------------------- sheets
Rows == 0 .. 7
CaptureRows == 0 .. 5
AllColumns == 0 .. 11
FullPaper == [r \in Rows |-> AllColumns]
\* The inset leaves columns 1 .. 10, so k inked columns are k tenths of a row.
InkOf(levels) == [r \in Rows |-> 1 .. levels[r]]
\* Rows of the desk, of blank and written paper, and of a sheet that starts
\* late, with the desk's own strokes beside it.
RowKinds == {"desk", "blank", "written", "edge"}
PaperOf(kinds) ==
  [r \in CaptureRows |-> CASE kinds[r] = "desk" -> {}
                    [] kinds[r] = "edge" -> 2 .. 11
                    [] OTHER             -> AllColumns]
InkOfKinds(kinds) ==
  [r \in CaptureRows |-> CASE kinds[r] = "blank" -> {}
                    [] kinds[r] = "edge"  -> 0 .. 2
                    [] OTHER              -> AllColumns]

\* Valleys and cores are shares, at most the whole; a full row is written, and the
\* paper of a whole sheet is wide enough for its ink to count.
ASSUME SheetAssumption ==
  /\ Scale \in Nat \ {0} /\ RowInkFraction \in 1 .. Scale
  /\ MinPaperSpan \in 1 .. 10 /\ MergeGap \in Nat /\ NoSpan \notin Nat \X Nat
  /\ Valley \in (Nat \ {0}) \X (Nat \ {0}) /\ Valley[1] <= Valley[2]
  /\ Core \in Nat \X (Nat \ {0}) /\ Core[1] <= Core[2]
  /\ \A in \in Inputs["full"] :
       in.levels \in [Rows -> 0 .. 10] /\ in.window \in Nat \ {0} /\ in.minHeight \in Nat \ {0}
  /\ \A in \in Inputs["capture"] : in \in [CaptureRows -> RowKinds]

AnalyzeFull ==
  \/ Calls("full")
  \/ Returns("full", AnalyzeLines(FullPaper, InkOf(call.in.levels),
                                  call.in.window, call.in.minHeight))

AnalyzeCapture ==
  \/ Calls("capture")
  \/ Returns("capture", AnalyzeLines(PaperOf(call.in), InkOfKinds(call.in), 1, 1))

\* ---------------------------------------------------------------------- ink
ThresholdOf ==
  \/ Calls("otsu")
  \/ Returns("otsu", OtsuThreshold(call.in))

StrokesOf ==
  \/ Calls("strokes")
  \/ Returns("strokes", StrokeMask(call.in))

\* A sharpness that falls off on either side of a plateau, at its own rate.
Sharpness(s) ==
  [a \in -SkewRange - FineSteps .. SkewRange + FineSteps |->
     IF a < s.from THEN (a - s.from) * s.left
     ELSE IF a > s.to THEN (s.to - a) * s.right ELSE 0]

SkewOf ==
  \/ Calls("skew")
  \/ Returns("skew", SkewAngle(Sharpness(call.in)))

\* --------------------------------------------------------------- recognizer
BoxEdge == 6
BoxPixels == 20
BoxOf ==
  \/ Calls("box")
  \/ Returns("box", FitBox(call.in, BoxEdge, BoxPixels))

BandsOf ==
  \/ Calls("bands")
  \/ Returns("bands", HorizontalBands(call.in.h, call.in.tiles))

ReplyOf ==
  \/ Calls("reply")
  \/ Returns("reply", ExtractJson(call.in))

Read(page, from, to) == [i \in 1 .. to - from + 1 |->
                           [n |-> i, kind |-> page[from + i - 1].kind,
                            text |-> page[from + i - 1].text]]

\* Every row is read exactly, the rows of the overlap by both bands.
StitchOf ==
  \/ Calls("stitch")
  \/ Returns("stitch", StitchTiles(<<Read(call.in.page, 1, call.in.to),
                                     Read(call.in.page, call.in.from, Len(call.in.page))>>))

AnswerOf(a, i) ==
  [error |-> a.error, stop |-> a.stop, json |-> a.json, header |-> i, tokens |-> i,
   lines |-> <<[n |-> 1, kind |-> "sargam", text |-> IF i = 1 THEN "a" ELSE "b"]>>]
PageOf ==
  \/ Calls("page")
  \/ Returns("page", RecognizeBands(call.in.hasKey, call.in.hasSdk,
                 [i \in DOMAIN call.in.answers |-> AnswerOf(call.in.answers[i], i)]))

\* ------------------------------------------------------------------ notation
NoteOf ==
  \/ Calls("note")
  \/ Returns("note", TransposeLine(<<call.in.note>>, call.in.k)[1])

LineOf ==
  \/ Calls("line")
  \/ Returns("line", TransposeLine(call.in.text, call.in.k))

SheetDoc(sheet) ==
  [header |-> [concert |-> sheet.concert, alto |-> sheet.alto, beat |-> ""],
   lines |-> [i \in 1 .. sheet.plain + sheet.curved |->
                [n |-> i, kind |-> "sargam",
                 text |-> IF i <= sheet.plain THEN <<Sym("-")>>
                          ELSE <<Sym("("), Note("R", <<>>), Note("G", <<>>), Sym(")")>>]]]
AdviceOf ==
  \/ Calls("advice")
  \/ Returns("advice", ValidateStf(SheetDoc(call.in)))

RowOf ==
  \/ Calls("row")
  \/ Returns("row", [index \in -1 .. call.in.lines + 1 |->
                      BandForLine(call.in.bands, index, call.in.lines, call.in.topExtra)])

\* ------------------------------------------------------------------ learning
MetricsOf ==
  \/ Calls("metrics")
  \/ Returns("metrics", EvaluationMetrics(call.in.expected, call.in.candidate))

Owners == {"one", "two"}
BaselineOf ==
  \/ Calls("baseline")
  \/ Returns("baseline", [o \in Owners |-> RecognitionBaseline(call.in, o)])

Rates == 0 .. 4
VerdictOf ==
  \/ Calls("verdict")
  \/ Returns("verdict", Verdict(call.in.control, call.in.candidate, call.in.lowerIsBetter))
LadderOf ==
  \/ Calls("ladder")
  \/ Returns("ladder", CompareReports(call.in.control, call.in.tiled))

Next ==
  \/ AnalyzeFull \/ AnalyzeCapture
  \/ ThresholdOf \/ StrokesOf \/ SkewOf
  \/ BoxOf \/ BandsOf \/ ReplyOf \/ StitchOf \/ PageOf
  \/ NoteOf \/ LineOf \/ AdviceOf \/ RowOf
  \/ MetricsOf \/ BaselineOf \/ VerdictOf \/ LadderOf

Spec == Init /\ [][Next]_call

-------------------------------------------------------------------------------
(* Properties. *)

Ran(fn) == call.fn = fn /\ call.out # Pending

\* A sheet whose written rows are equally dark yields one band per row of a
\* legal height, exactly where it is, whatever merging, splitting and trimming
\* do in between.  The one row missed is the next within the merge gap of a row
\* that starts a run with a plateau, whose peak the split does not see
\* (_split_at_valleys looks for a peak at the start only when it falls at once).
EqualRowsAreBands ==
  Ran("full") /\ call.in.window = 1 /\ (\A r \in Rows : call.in.levels[r] \in {0, 10}) =>
    LET written == Runs([r \in Rows |-> call.in.levels[r] = 10])
        Hidden(run) == \E other \in written :
                          /\ other[2] < run[1] /\ run[1] - other[2] <= MergeGap
                          /\ \A i \in other[2] .. run[1] - 1 : call.in.levels[i] # 10
                          /\ other[2] - other[1] > 1
                          /\ \E whole \in call.out.runs : whole[1] = other[1]
        Legal(run) == /\ run[2] - run[1] >= call.in.minHeight
                      /\ NotTooTall(run, 8)
    IN call.out.bands = {run \in written : Legal(run) /\ ~Hidden(run)}

\* No band holds two written rows: between two rows of a band the profile never
\* falls below half of both, again but for a run that starts with a plateau;
\* and no two bands share a row.
BandSpansNoValley ==
  Ran("full") =>
    LET out == call.out
        Plateau(band) == \E run \in out.runs :
                            /\ run[1] <= band[1] /\ band[2] <= run[2] /\ run[2] - run[1] > 1
                            /\ out.profile[run[1]] = out.profile[run[1] + 1]
    IN /\ \A band \in out.bands : \A i, j \in band[1] .. band[2] - 1 :
            i < j /\ ~Plateau(band) =>
              Valley[2] * Lowest(out.profile, i, j)
                >= Valley[1] * Min({out.profile[i], out.profile[j]})
       /\ \A a, b \in out.bands : a # b => a[2] <= b[1] \/ b[2] <= a[1]

\* What lies on the desk or across the edge of the paper never changes a band:
\* the bands are those of the ink strictly inside each row's paper span.
SurroundNeverCounts ==
  Ran("capture") =>
    LET paper == PaperOf(call.in)
        ink == InkOfKinds(call.in)
        Inside(span) == IF span = NoSpan THEN {} ELSE span[1] + 1 .. span[2] - 1
    IN call.out.bands =
         AnalyzeLines(paper, [r \in CaptureRows |-> ink[r] \cap Inside(call.out.spans[r])], 1, 1).bands

\* A dark row is writing only when paper encloses it: every band has paper at or
\* above its first row and at or below its last, however dark the surround.
BandsInsidePaper ==
  Ran("capture") =>
    \A band \in call.out.bands :
       /\ \E r \in CaptureRows : r <= band[1] /\ PaperOf(call.in)[r] # {}
       /\ \E r \in CaptureRows : r >= band[2] - 1 /\ PaperOf(call.in)[r] # {}

(* The rows of a sheet are found where they are: no row is lost, split, joined *)
(* with its neighbour or moved by smoothing, and no ink of the surround becomes *)
(* one (analyze_lines).                                                        *)
RowsAreFound ==
  /\ EqualRowsAreBands
  /\ BandSpansNoValley
  /\ SurroundNeverCounts
  /\ BandsInsidePaper

\* Otsu's threshold is the one that leaves the classes tightest: the scatter
\* within them (the total less what the means explain) is least, unless the
\* two classes can be cut as well in different places.
OtsuIsTightest ==
  Ran("otsu") =>
    LET h == call.in
        Part(levels) == <<Weighted(h, levels), Count(h, levels)>>
        \* what the two means explain, over the product of the class sizes
        Explained(t) ==
          LET dark == Part(Darker(h, t))
              light == Part(Lighter(h, t))
          IN <<dark[1] * dark[1] * light[2] + light[1] * light[1] * dark[2],
               dark[2] * light[2]>>
        best == {t \in Splits(h) : \A u \in Splits(h) : AtLeast(Explained(t), Explained(u))}
        Same(t, u) == Part(Darker(h, t)) = Part(Darker(h, u))
    IN IF best = {} THEN call.out = NoThreshold
       ELSE /\ Min(best) <= call.out /\ call.out <= Max(best)
            /\ (\A t, u \in best : Same(t, u)) =>
                 \E t \in best : Same(t, call.out)

\* A pixel is ink when every stretch of the window's length through it holds a
\* pixel enough lighter: short dark strokes are ink and long shadows are not.
StrokesAreLocal ==
  Ran("strokes") =>
    LET Lightest(from) == Max({call.in[(from + d) % 8] : d \in 0 .. StrokeWindow - 1})
    IN call.out = {x \in 0 .. 7 : \A back \in 0 .. StrokeWindow - 1 :
                      Lightest((x - back) % 8) - call.in[x] >= InkDrop}

\* The two passes find the sharpest of all rotations in range, the smallest of
\* them, whenever sharpness falls off on either side of its peak.
SkewIsSharpest ==
  Ran("skew") =>
    LET s == call.in
        nearest == IF s.from > 0 THEN s.from ELSE IF s.to < 0 THEN s.to ELSE 0
    IN nearest \in -SkewRange .. SkewRange => call.out = nearest

(* What the rows are found in is right: the threshold, the mask of strokes and *)
(* the tilt that the photo is measured with are the best ones there are.       *)
InkIsFound ==
  /\ OtsuIsTightest
  /\ StrokesAreLocal
  /\ SkewIsSharpest

\* An image is sent under both caps, in its own proportions and never enlarged.
BoxFits ==
  Ran("box") =>
    LET w == call.in[1]
        h == call.in[2]
        a == call.out[1]
        b == call.out[2]
    IN /\ a <= BoxEdge /\ b <= BoxEdge /\ a * b <= BoxPixels
       /\ a <= w /\ b <= h
       /\ a > 1 /\ b > 1 => a * h - b * w < w /\ b * w - a * h < h

\* The bands of the half-page recognizer leave no row out, and a written row no
\* taller than the overlap is whole in one of them, whichever way cuts round.
BandsCoverPage ==
  Ran("bands") =>
    LET h == call.in.h
        row == 2 * (((h * OverlapFraction[1]) \div OverlapFraction[2]) \div 2)
    IN \A top \in 0 .. h - 1 :
         \E i \in 1 .. call.in.tiles :
            /\ call.out[i][1] <= top
            /\ Min({h, Max({top + 1, top + row})}) <= call.out[i][2]

\* The one object of a reply is found whatever surrounds it, unless the reply
\* starts with a fence that closes before it; two objects are never one.
ReplyHoldsOneObject ==
  Ran("reply") =>
    LET reply == call.in
        opens == Positions(reply, "open")
        closes == Positions(reply, "close")
        object == SubSeq(reply, Min(opens), Min(closes))
        fences == Positions(reply, "fence")
        reached == \/ 1 \notin fences
                   \/ \A f \in fences \ {1} : f > Min(closes)
    IN /\ Cardinality(opens) = 1 /\ Cardinality(closes) = 1 /\ IsObject(object) /\ reached
            => call.out = object
       /\ 1 \notin fences /\ opens # {} /\ Cardinality({c \in closes : c > Min(opens)}) > 1
            => call.out = InvalidJson

\* Stitching the bands of a page whose rows all differ gives the page back; a
\* page with like rows may lose some (the widest overlap wins), never gains any.
StitchRestoresPage ==
  Ran("stitch") =>
    LET page == call.in.page
        Bare(line) == [kind |-> line.kind, text |-> line.text]
    IN /\ Len(call.out) <= Len(page)
       /\ \A i \in DOMAIN call.out : call.out[i].n = i
       /\ (\A i, j \in DOMAIN page : i # j => ~LinesMatch(page[i], page[j]))
            => [i \in DOMAIN call.out |-> Bare(call.out[i])] = page

\* A page is every band or nothing: one band that cannot be read fails it with
\* that band's code, and the usage counts every band.
PageIsWholeOrFailed ==
  Ran("page") =>
    LET answers == call.in.answers
        Readable(a) == ~a.error /\ a.stop = "end_turn" /\ a.json = "object"
        whole == call.in.hasKey /\ call.in.hasSdk /\ \A i \in DOMAIN answers : Readable(answers[i])
    IN /\ call.out.code = "ok" <=> whole
       /\ whole => /\ Len(call.out.lines) = Len(answers) /\ call.out.header = 1
                    /\ call.out.tokens = IF Len(answers) = 1 THEN 1 ELSE 3

(* A page goes to the model and comes back whole: no row outside the bands, no *)
(* answer misread, no line twice, and no page with a band missing.             *)
PageIsRead ==
  /\ BoxFits
  /\ BandsCoverPage
  /\ ReplyHoldsOneObject
  /\ StitchRestoresPage
  /\ PageIsWholeOrFailed

\* The server's advice and the reader's transposition agree on what is a note:
\* one is left as it is exactly when the other warns of it.
WarnedIsNotRotated ==
  Ran("note") /\ call.in.k # 0 =>
    (call.out = call.in.note <=> NoteWarnings(call.in.note) # {})

\* Transposing moves a legal note by the interval, across any octave, and
\* transposing back restores it, to the mark when it was written canonically.
TranspositionReverses ==
  Ran("note") /\ LegalNote(call.in.note) =>
    LET note == call.in.note
        back == TransposeLine(<<call.out>>, -call.in.k)[1]
    IN /\ Absolute(call.out) = Absolute(note) + call.in.k
       /\ LegalNote(call.out)
       /\ Absolute(back) = Absolute(note)
       /\ note = RenderAbsolute(Absolute(note)) => back = note

\* A transposed view shows the advice of the sheet it is derived from: no
\* warning of a line appears or goes away.
TranspositionKeepsAdvice ==
  Ran("line") => LineWarnings(call.out) = LineWarnings(call.in.text)

\* Advice is about what is wrong: the scales when both are named and the alto
\* does not read three semitones below, the curves when a sheet of several
\* lines has none at all.
AdviceIsWarranted ==
  Ran("advice") =>
    LET in == call.in
        Named(scale) == ParsePitchClass(scale) # NoPitch
    IN /\ <<Sheet, "header">> \in call.out <=>
            /\ Named(in.concert) /\ Named(in.alto)
            /\ TransposeSemitones(ParsePitchClass(in.concert), ParsePitchClass(in.alto)) # -3
       /\ <<Sheet, "noCurves">> \in call.out <=> in.plain >= MinSargamLines /\ in.curved = 0

\* Lines read top to bottom never scroll the photo up, each lands on a detected
\* row, and as many rows as lines map one to one.
RowsFollowLines ==
  Ran("row") /\ call.in.bands > 0 =>
    /\ \A i \in DOMAIN call.out : call.out[i] \in 0 .. call.in.bands - 1
    /\ \A i \in -1 .. call.in.lines : call.out[i] <= call.out[i + 1]
    /\ call.in.bands = call.in.lines => \A i \in 0 .. call.in.lines - 1 : call.out[i] = i
    /\ call.in.lines > 1 => call.out[call.in.lines - 1] = call.in.bands - 1

(* Server and reader agree on a text: what is advised, what is transposed, and *)
(* which row of the photo a line is shown at.                                  *)
NotesKeepTheirMeaning ==
  /\ WarnedIsNotRotated
  /\ TranspositionReverses
  /\ TranspositionKeepsAdvice
  /\ AdviceIsWarranted
  /\ RowsFollowLines

\* What a class shows of a token (of a note its accidentals), and of a text: what
\* its tokens show, each with its place among them.
ShownOf(token) == IF IsNote(token) THEN MarksOf(token, Accidentals) ELSE token
OfClass(tokens, c) ==
  LET its == {i \in DOMAIN tokens : Category(tokens[i]) = c}
  IN {<<Cardinality({j \in its : j <= i}), ShownOf(tokens[i])>> : i \in its}

\* A class of symbols no correction is charged to is untouched: what the model
\* wrote in it and what the reviewer left are the same, one after the other.
\* (A plain letter or a dot can vanish with an accidental of the same token.)
UnchargedClassUntouched ==
  Ran("metrics") =>
    \A c \in Categories \ {"letter", "octave"} :
       call.out.summary.categories[c] = 0 =>
         OfClass(StfTokens(call.in.candidate), c) = OfClass(StfTokens(call.in.expected), c)

\* The one change no class is charged for: a note's marks in another order.
OnlyReordered(raw, corrected) ==
  /\ raw # corrected /\ IsNote(raw) /\ IsNote(corrected) /\ raw.letter = corrected.letter
  /\ MarksOf(raw, Accidentals) = MarksOf(corrected, Accidentals)
  /\ MarksOf(raw, OctaveDots) = MarksOf(corrected, OctaveDots)

\* Every edit is charged, to at most the three aspects of a note, except the
\* one that only reorders a note's marks (its token differs, no aspect does).
EveryEditIsCharged ==
  Ran("metrics") =>
    LET s == call.out.summary
        charges == SumFunction(s.categories)
        raw == StfTokens(call.in.candidate)
        corrected == StfTokens(call.in.expected)
    IN /\ charges <= 3 * s.changed
       /\ s.exact <=> s.changed = 0
       /\ \/ \E i \in DOMAIN raw, j \in DOMAIN corrected : OnlyReordered(raw[i], corrected[j])
          \/ charges >= s.changed

\* The two accuracies are perfect together exactly when nothing was corrected,
\* and right lines alone leave only the header to correct.
PerfectIsUncorrected ==
  Ran("metrics") =>
    LET out == call.out
        tokensRight == out.rightTokens = out.summary.correctedTokens
        linesRight == out.rightLines = out.lineCount
    IN /\ tokensRight /\ linesRight <=> call.in.expected = call.in.candidate
       /\ linesRight => \A c \in Categories \ {"header"} : out.summary.categories[c] = 0

(* A correction is charged to the classes it touched and to no other, and an  *)
(* untouched draft is exact (correction_summary, evaluation_metrics).          *)
CorrectionsAreCharged ==
  /\ UnchargedClassUntouched
  /\ EveryEditIsCharged
  /\ PerfectIsUncorrected

\* A page counts for its owner alone, once, and only after a review of a run
\* that succeeded, whatever other runs it has: exact are the pages left as the
\* run they point at read them, and a class affects the pages it was changed in,
\* none that is exact and none without a correction of it.
BaselineIsOwn ==
  Ran("baseline") =>
    LET db == call.in
        trs == db.transcriptions
        Run(p) == db.runs[trs[p].run]
        Counted(p) == /\ trs[p].status = "reviewed" /\ trs[p].run \in DOMAIN db.runs
                      /\ Run(p).outcome = "succeeded"
        Of(o) == {p \in DOMAIN trs : Counted(p) /\ db.songs[db.scans[p]] = o}
        wrong(o) == {p \in Of(o) : Run(p).raw # trs[p].corrected}
        ChangedIn(p, c) == OfClass(StfTokens(Run(p).raw), c) # OfClass(StfTokens(trs[p].corrected), c)
    IN \A o \in Owners :
         LET report == call.out[o]
         IN /\ report.sheets = Cardinality(Of(o))
            /\ report.exact = Cardinality(Of(o)) - Cardinality(wrong(o))
            /\ \A c \in Categories :
                 /\ report.affected[c] <= Cardinality(wrong(o))
                 /\ report.affected[c] <= report.corrections[c]
                 /\ c \notin {"letter", "octave"} =>
                      Cardinality({p \in Of(o) : ChangedIn(p, c)}) <= report.affected[c]
            /\ report.ready <=> report.needed = 0

\* Swapping the arms swaps the verdict, and one more run of either arm never
\* turns noise into a verdict nor one verdict into the other.
VerdictIsFair ==
  Ran("verdict") =>
    LET control == call.in.control
        candidate == call.in.candidate
        lower == call.in.lowerIsBetter
        Swapped == [better |-> "worse", worse |-> "better", inside_noise |-> "inside_noise"]
    IN /\ Verdict(candidate, control, lower) = Swapped[call.out]
       /\ \A r \in Rates :
            /\ Verdict(control \cup {r}, candidate, lower) \in {call.out, "inside_noise"}
            /\ Verdict(control, candidate \cup {r}, lower) \in {call.out, "inside_noise"}

\* A tiled run beyond the noise is better than the control arm by the verdict of
\* the model comparison, and reduces the rate the ladder gate looks at.
LadderAgrees ==
  Ran("ladder") =>
    LET control == ToSet(call.in.control)
    IN /\ call.out.beyondNoise <=>
            Len(call.in.control) > 1 /\ Verdict(control, {call.in.tiled}, TRUE) = "better"
       /\ call.out.pass => Verdict(control, {call.in.tiled}, TRUE) # "worse"

(* The reports on the recognizer count a sheet once, for its owner, and favour *)
(* neither arm of a comparison.                                                *)
ReportsAreFair ==
  /\ BaselineIsOwn
  /\ VerdictIsFair
  /\ LadderAgrees
===============================================================================
