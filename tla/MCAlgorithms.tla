---------------------------- MODULE MCAlgorithms -----------------------------
(* The inputs that the functions of Algorithms are called on.                *)
EXTENDS Algorithms

MCValley == <<1, 2>>
MCMaxHeight == <<1, 2>>
MCCore == <<3, 10>>
MCOverlap == <<12, 100>>
MCAlike == {<<"a", "aa">>, <<"aa", "a">>}
MCAliens == {"B"}

Sheets == {s \in [levels : [Rows -> {0, 4, 10}], window : {1, 2}, minHeight : {1, 2}] :
             s.window = 2 => s.minHeight = 1}

Tilts == {[from |-> a, to |-> a + width, left |-> l, right |-> r] :
            a \in -SkewRange .. SkewRange, width \in 0 .. 7, l, r \in {1, 9}}

PageLines == {[kind |-> "sargam", text |-> t] : t \in {"", "a", "aa", "b"}}
               \cup {[kind |-> "lyric", text |-> "a"]}
Pages == {p \in [page : BoundedSeq(PageLines, 4), from : 1 .. 4, to : 1 .. 4] :
            p.from <= p.to + 1 /\ p.from <= Len(p.page) /\ p.to <= Len(p.page)}

AllNotes == {Note(l, m) : l \in DOMAIN NaturalPC, m \in BoundedSeq(Accidentals \cup OctaveDots, 3)}
LineTokens == {Note("R", <<>>), Note("R", <<"_">>), Note("M", <<"_">>)}
                \cup {Sym(s) : s \in {"(", ")", "-", "B"}}
ScaleNames == {<<>>, <<"word">>}
                \cup {<<l>> \o m : l \in DOMAIN NoteBase,
                                   m \in {<<>>, <<"#">>, <<"b">>, <<"b", "b">>, <<"word", "#">>}}

DocTokens == {Note("R", <<>>), Note("G", <<>>), Note("R", <<"_", ",">>), Note("R", <<",", "_">>),
              Note("R", <<",">>), Sym("("), Sym("-"), Sym("B")}
Doc(beat, texts) ==
  [header |-> [concert |-> "", alto |-> "", beat |-> beat],
   lines |-> [i \in DOMAIN texts |-> [n |-> i, kind |-> "sargam", text |-> texts[i]]]]
OneLine == {Doc("", <<t>>) : t \in BoundedSeq(DocTokens, 2)}
FewLines == {Doc(b, ts) : b \in {"", "4/4"},
                          ts \in BoundedSeq({<<>>, <<Sym("-")>>, <<Note("R", <<>>)>>}, 2)}

Draft == Doc("", <<<<Note("R", <<>>)>>>>)
\* The tables of a report: two pages, one of them recognized twice.  A run that
\* failed has no draft, and a transcription points at a run of its page that
\* succeeded, or at none (it was never recognized, or before runs were recorded).
RunPages == <<"p", "p", "q">>
Ended == {[outcome |-> "failed", raw |-> Pending]}
           \cup [outcome : {"succeeded"}, raw : {Draft, Doc("", <<<<Sym("B")>>>>)}]
Reviews(page, runs) ==
  [status : {"draft", "reviewed"}, corrected : {Draft},
   run : {0} \cup {r \in DOMAIN runs : runs[r].scan = page /\ runs[r].outcome = "succeeded"}]
Tables ==
  UNION { LET runs == [r \in 1 .. 3 |-> [scan |-> RunPages[r], outcome |-> ended[r].outcome,
                                         raw |-> ended[r].raw]]
          IN UNION { [transcriptions : {t \in [pages -> UNION {Reviews(p, runs) : p \in pages}] :
                                          \A p \in pages : t[p] \in Reviews(p, runs)},
                      runs : {runs}, scans : [{"p", "q"} -> {"s"}] \cup {[p |-> "s", q |-> "t"]},
                      songs : [{"s", "t"} -> Owners]] : pages \in SUBSET {"p", "q"} } :
          ended \in [1 .. 3 -> Ended] }
Arms == (SUBSET Rates) \ {{}}

MCInputs ==
  [ full     |-> Sheets,
    capture  |-> [CaptureRows -> RowKinds],
    otsu     |-> [0 .. 5 -> 0 .. 2],
    strokes  |-> [0 .. 7 -> 0 .. 2],
    skew     |-> Tilts,
    box      |-> (1 .. 20) \X (1 .. 20),
    bands    |-> [h : 1 .. 40, tiles : 1 .. 4],
    reply    |-> BoundedSeq({"open", "close", "fence", "json", "word", "value"}, 5),
    stitch   |-> Pages,
    page     |-> [answers : BoundedSeq(Answered, 2) \ {<<>>}, hasKey : BOOLEAN, hasSdk : BOOLEAN],
    note     |-> [note : AllNotes, k : Interval],
    line     |-> [text : BoundedSeq(LineTokens, 4), k : {-5, 6}],
    advice   |-> [concert : ScaleNames, alto : ScaleNames, plain : 2 .. 3, curved : 0 .. 1],
    row      |-> [bands : 0 .. 5, lines : 1 .. 5, topExtra : 0 .. 3],
    metrics  |-> [expected : OneLine, candidate : OneLine] \cup [expected : FewLines, candidate : FewLines],
    baseline |-> Tables,
    verdict  |-> [control : Arms, candidate : Arms, lowerIsBetter : BOOLEAN],
    ladder   |-> [control : BoundedSeq(Rates, 3) \ {<<>>}, tiled : Rates] ]
===============================================================================
