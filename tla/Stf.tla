--------------------------------- MODULE Stf ---------------------------------
(* The text format of a sheet and its advisory checks (app/stf.py).  A text *)
(* is the sequence of its tokens: a note is a letter with its marks in the  *)
(* order they were written, anything else is a symbol; white space has no   *)
(* token.  Warnings are sets: their wording and order are left out.         *)
EXTENDS Integers, Sequences, FiniteSets, SequencesExt

CONSTANT Aliens                 \* capital letters that are no sargam note

Note(letter, mods) == [k |-> "note", letter |-> letter, mods |-> mods]
Sym(s) == [k |-> "sym", s |-> s]

NaturalPC == [S |-> 0, R |-> 2, G |-> 4, M |-> 5, P |-> 7, D |-> 9, N |-> 11]
FlatAllowed == {"R", "G", "D", "N"}
Accidentals == {"_", "^"}
OctaveDots == {"'", ","}
NoteKinds == {"sargam", "run"}
MinSargamLines == 3             \* _MIN_SARGAM_LINES_FOR_CURVE_CHECK

IsNote(token) == token.k = "note"
Is(token, s) == token.k = "sym" /\ token.s = s
Has(note, mark) == Contains(note.mods, mark)

\* Seeded bug: a flat is allowed on every letter but S and P.
NoteWarningsAnyFlat(note) ==
  LET flat == Has(note, "_")
      sharp == Has(note, "^")
  IN {w \in {"both", "fixed", "sharp"} :
        \/ w = "both"  /\ flat /\ sharp
        \/ w = "fixed" /\ note.letter \in {"S", "P"} /\ (flat \/ sharp)
        \/ w = "sharp" /\ sharp /\ note.letter # "M"}

NoteWarnings(note) ==
  LET flat == Has(note, "_")
      sharp == Has(note, "^")
  IN {w \in {"both", "fixed", "flat", "sharp"} :
        \/ w = "both"  /\ flat /\ sharp
        \/ w = "fixed" /\ note.letter \in {"S", "P"} /\ (flat \/ sharp)
        \/ w = "flat"  /\ flat /\ note.letter \notin FlatAllowed
        \/ w = "sharp" /\ sharp /\ note.letter # "M"}

\* The innermost curve groups, as the places of their brackets.
CurveGroups(text) ==
  {g \in (DOMAIN text) \X (DOMAIN text) :
     /\ g[1] < g[2] /\ Is(text[g[1]], "(") /\ Is(text[g[2]], ")")
     /\ \A i \in g[1] + 1 .. g[2] - 1 : ~Is(text[i], "(") /\ ~Is(text[i], ")")}

Slots(text, g) ==
  {i \in g[1] + 1 .. g[2] - 1 : IsNote(text[i]) \/ Is(text[i], "-") \/ Is(text[i], "+")}

LineWarnings(text) ==
  LET notes == {i \in DOMAIN text : IsNote(text[i])}
  IN (UNION {{i} \X NoteWarnings(text[i]) : i \in notes})
     \cup {<<0, a>> : a \in {b \in Aliens : \E i \in DOMAIN text : Is(text[i], b)}}
     \cup {<<g[1], "shortCurve">> :
              g \in {h \in CurveGroups(text) : Cardinality(Slots(text, h)) < 2}}

\* A western scale name is a letter, its accidentals and maybe a quality word.
NoteBase == [C |-> 0, D |-> 2, E |-> 4, F |-> 5, G |-> 7, A |-> 9, B |-> 11]
NoPitch == -1

ParsePitchClass(scale) ==
  IF scale = <<>> \/ scale[1] \notin DOMAIN NoteBase THEN NoPitch
  ELSE LET word == {i \in 2 .. Len(scale) : scale[i] \notin {"#", "b"}}
           marks == 2 .. (IF word = {} THEN Len(scale) ELSE Min(word) - 1)
           Of(s) == Cardinality({i \in marks : scale[i] = s})
       IN (NoteBase[scale[1]] + Of("#") - Of("b")) % 12

\* A warning is of a line, by its number, or of the whole sheet.
Sheet == 0

\* Seeded bug: the alto scale is taken nine semitones below.
ValidateStfBelow(doc) ==
  LET concert == ParsePitchClass(doc.header.concert)
      alto == ParsePitchClass(doc.header.alto)
      noted == {i \in DOMAIN doc.lines : doc.lines[i].kind \in NoteKinds}
  IN (UNION {{<<doc.lines[i].n, w>> : w \in LineWarnings(doc.lines[i].text)} : i \in noted})
     \cup {a \in {<<Sheet, "header">>} :
              NoPitch \notin {concert, alto} /\ (alto + 9) % 12 # concert}

ValidateStf(doc) ==
  LET concert == ParsePitchClass(doc.header.concert)
      alto == ParsePitchClass(doc.header.alto)
      noted == {i \in DOMAIN doc.lines : doc.lines[i].kind \in NoteKinds}
      sargam == {i \in noted : doc.lines[i].kind = "sargam"}
      curved == \E i \in noted : \E j \in DOMAIN doc.lines[i].text : Is(doc.lines[i].text[j], "(")
  IN (UNION {{<<doc.lines[i].n, w>> : w \in LineWarnings(doc.lines[i].text)} : i \in noted})
     \cup {a \in {<<Sheet, "header">>} :
              NoPitch \notin {concert, alto} /\ (concert + 9) % 12 # alto}
     \cup {a \in {<<Sheet, "noCurves">>} :
              Cardinality(sargam) >= MinSargamLines /\ ~curved}
=============================================================================
