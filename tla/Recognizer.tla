----------------------------- MODULE Recognizer -----------------------------
(* From a stored scan to a draft (app/recognition.py), as pure functions:   *)
(* the size an image is sent at, the overlapping bands of the half-page     *)
(* recognizer, what a model's answer becomes, and how the lines read from   *)
(* the bands are stitched into one page.  The model and its SDK are         *)
(* external: an answer is an outcome and the lines it carries.              *)
EXTENDS Integers, Sequences, FiniteSets, SequencesExt, Rounding

CONSTANTS
  NoCap,            \* max_pixels=None
  OverlapFraction,  \* _TILE_OVERLAP_FRACTION, as <<numerator, denominator>>
  Alike             \* pairs of texts whose ratio reaches _OVERLAP_SIMILARITY

\* ---------------------------------------------------------------- image size
\* The floor of the square root of a / b.
RootOf(a, b) == CHOOSE s \in 0 .. a : s * s * b <= a /\ (s + 1) * (s + 1) * b > a

\* Seeded bug: the area is taken after one scaling, not two.
FitBoxAreaOnce(size, maxEdge, maxPixels) ==
  LET w == size[1]
      h == size[2]
      edge == Max({w, h, maxEdge})
  IN IF maxPixels = NoCap THEN <<maxEdge, maxEdge>>
     ELSE IF w * h * maxEdge > maxPixels * edge
     THEN <<Max({1, RootOf(maxPixels * w, h)}), Max({1, RootOf(maxPixels * h, w)})>>
     ELSE <<Max({1, (w * maxEdge) \div edge}), Max({1, (h * maxEdge) \div edge})>>

\* The box that fits an image under both caps: scaled by the long edge, then,
\* when that is still too large an area, by the square root of the ratio.
FitBox(size, maxEdge, maxPixels) ==
  LET w == size[1]
      h == size[2]
      edge == Max({w, h, maxEdge})
      tooLarge == w * h * maxEdge * maxEdge > maxPixels * edge * edge
  IN IF maxPixels = NoCap THEN <<maxEdge, maxEdge>>
     ELSE IF tooLarge
     THEN <<Max({1, RootOf(maxPixels * w, h)}), Max({1, RootOf(maxPixels * h, w)})>>
     ELSE <<Max({1, (w * maxEdge) \div edge}), Max({1, (h * maxEdge) \div edge})>>

\* -------------------------------------------------------------------- bands
\* Seeded bug: the overlap is taken from above every cut only.
HorizontalBandsUpward(h, tiles) ==
  LET overlap == (h * OverlapFraction[1]) \div OverlapFraction[2]
      Cut(i) == RoundEven(i * h, tiles)
  IN [i \in 1 .. tiles |->
        <<IF i = 1 THEN 0 ELSE Max({0, Cut(i - 1) - overlap \div 2}),
          IF i = tiles THEN h ELSE Min({h, Cut(i)})>>]

\* The rows of each band: the internal cuts, widened by half the overlap.
HorizontalBands(h, tiles) ==
  LET overlap == (h * OverlapFraction[1]) \div OverlapFraction[2]
      Cut(i) == RoundEven(i * h, tiles)
  IN [i \in 1 .. tiles |->
        <<IF i = 1 THEN 0 ELSE Max({0, Cut(i - 1) - overlap \div 2}),
          IF i = tiles THEN h ELSE Min({h, Cut(i) + overlap \div 2})>>]

\* ------------------------------------------------------------------ the reply
\* A reply is a sequence of "open" and "close" (the braces), "fence", "json",
\* "word" and "value", a list, number, string or null without a brace in it.
\* Both strip calls only drop white space, which has no symbol; json.loads
\* accepts one object (of words here) or one value, and nothing beside it.
InvalidJson == "invalid_json"

IsObject(text) ==
  /\ Len(text) >= 2 /\ Head(text) = "open" /\ text[Len(text)] = "close"
  /\ \A i \in 2 .. Len(text) - 1 : text[i] = "word"

IsJson(text) == IsObject(text) \/ text = <<"value">>

Positions(text, symbol) == {i \in DOMAIN text : text[i] = symbol}

\* split("```", 2)[1] of a text that starts with a fence, without its tag.
Unfenced(text) ==
  LET body == Tail(text)
      ends == Positions(body, "fence")
      inner == IF ends = {} THEN body ELSE SubSeq(body, 1, Min(ends) - 1)
  IN IF inner # <<>> /\ Head(inner) = "json" THEN Tail(inner) ELSE inner

\* Seeded bug: the fall-back ends at the first closing brace.
ExtractJsonFirstClose(text) ==
  LET body == IF text # <<>> /\ Head(text) = "fence" THEN Unfenced(text) ELSE text
      opens == Positions(body, "open")
      closes == Positions(body, "close")
      span == IF opens # {} /\ closes # {} THEN SubSeq(body, Min(opens), Min(closes)) ELSE <<>>
  IN IF IsJson(body) THEN body ELSE IF IsJson(span) THEN span ELSE InvalidJson

\* The fenced part when the reply starts with a fence, else all of it; failing
\* that, everything from the first opening brace to the last closing one.
ExtractJson(text) ==
  LET body == IF text # <<>> /\ Head(text) = "fence" THEN Unfenced(text) ELSE text
      opens == Positions(body, "open")
      closes == Positions(body, "close")
      span == IF opens # {} /\ closes # {} THEN SubSeq(body, Min(opens), Max(closes)) ELSE <<>>
  IN IF IsJson(body) THEN body ELSE IF IsJson(span) THEN span ELSE InvalidJson

\* One call of the model: the checks in their order, the first that fails wins.
\* A value that is no object passes them all, and fails where its caller takes a
\* field of it; the request records that as an internal error.
RecognizeImage(answer) ==
  IF answer.error THEN "api_error"
  ELSE IF answer.stop \in {"max_tokens", "refusal"} THEN answer.stop
  ELSE IF answer.json = InvalidJson THEN InvalidJson
  ELSE IF answer.json = "value" THEN "internal_error"
  ELSE "ok"

BuildClient(hasKey, hasSdk) ==
  IF ~hasKey THEN "configuration" ELSE IF ~hasSdk THEN "dependency" ELSE "ok"

\* ------------------------------------------------------------------ stitching
\* Two lines are one physical row seen in both bands: of one kind, with equal
\* texts (two blank ones are) or alike ones.
LinesMatch(a, b) ==
  /\ a.kind = b.kind
  /\ a.text = b.text \/ <<a.text, b.text>> \in Alike

Matches(top, bottom, k) ==
  \A i \in 1 .. k : LinesMatch(top[Len(top) - k + i], bottom[i])

\* Seeded bug: the shortest overlap is taken.
OverlapLengthShortest(top, bottom) ==
  LET ks == {k \in 1 .. Min({Len(top), Len(bottom)}) : Matches(top, bottom, k)}
  IN IF ks = {} THEN 0 ELSE Min(ks)

\* The most lines that end one list and begin the other.
OverlapLength(top, bottom) ==
  LET ks == {k \in 1 .. Min({Len(top), Len(bottom)}) : Matches(top, bottom, k)}
  IN IF ks = {} THEN 0 ELSE Max(ks)

\* The bands' lines in order without the repeated overlaps, numbered from 1.
StitchTiles(bands) ==
  LET Join(merged, band) ==
        merged \o SubSeq(band, OverlapLength(merged, band) + 1, Len(band))
      merged == FoldLeft(Join, <<>>, bands)
  IN [i \in DOMAIN merged |-> [merged[i] EXCEPT !.n = i]]

\* ------------------------------------------------------- the two recognizers
Failed(code) == [code |-> code, lines |-> <<>>, header |-> "", tokens |-> 0]

\* Seeded bug: a band that cannot be read is left out of the page.
RecognizeBandsSkipping(hasKey, hasSdk, answers) ==
  LET read == SelectSeq(answers, LAMBDA a : RecognizeImage(a) = "ok")
  IN IF BuildClient(hasKey, hasSdk) # "ok" THEN Failed(BuildClient(hasKey, hasSdk))
     ELSE [code |-> "ok", lines |-> StitchTiles([i \in DOMAIN read |-> read[i].lines]),
           header |-> answers[1].header,
           tokens |-> SumFunction([i \in DOMAIN read |-> read[i].tokens])]

\* The bands in order, one call each: the first band that fails fails the page.
\* The header comes from the top band, the usage is that of all of them.  The
\* whole-page recognizer is the case of one band, whose lines it keeps as read.
RecognizeBands(hasKey, hasSdk, answers) ==
  LET failed == {i \in DOMAIN answers : RecognizeImage(answers[i]) # "ok"}
  IN IF BuildClient(hasKey, hasSdk) # "ok" THEN Failed(BuildClient(hasKey, hasSdk))
     ELSE IF failed # {} THEN Failed(RecognizeImage(answers[Min(failed)]))
     ELSE [code |-> "ok",
           lines |-> IF Len(answers) = 1 THEN answers[1].lines
                     ELSE StitchTiles([i \in DOMAIN answers |-> answers[i].lines]),
           header |-> answers[1].header,
           tokens |-> SumFunction([i \in DOMAIN answers |-> answers[i].tokens])]
=============================================================================
