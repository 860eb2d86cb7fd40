------------------------------ MODULE Transpose ------------------------------
(* The derived views of a sheet (frontend: stfTranspose.ts, lineBands.ts):  *)
(* a line rotated to another scale, and the row of the photo that belongs   *)
(* to a line.                                                               *)
EXTENDS Stf, Rounding

\* The one spelling of each pitch class: its letter and accidental.
PcToken ==
  <<  <<"S", <<>> >>, <<"R", <<"_">> >>, <<"R", <<>> >>, <<"G", <<"_">> >>,
      <<"G", <<>> >>, <<"M", <<>> >>, <<"M", <<"^">> >>, <<"P", <<>> >>,
      <<"D", <<"_">> >>, <<"D", <<>> >>, <<"N", <<"_">> >>, <<"N", <<>> >> >>

\* The shift from one tonic to another nearest to zero.
TransposeSemitones(source, target) ==
  LET k == (target - source) % 12 IN IF k > 6 THEN k - 12 ELSE k

\* Seeded bug: an accidental is refused on S and P only.
LegalNoteLax(note) ==
  /\ ~(Has(note, "_") /\ Has(note, "^"))
  /\ (Has(note, "_") \/ Has(note, "^")) => note.letter \notin {"S", "P"}

\* parseLegalNote answers null for every other note.
LegalNote(note) ==
  /\ ~(Has(note, "_") /\ Has(note, "^"))
  /\ Has(note, "_") => note.letter \in FlatAllowed
  /\ Has(note, "^") => note.letter = "M"

Written(note, mark) == Cardinality({i \in DOMAIN note.mods : note.mods[i] = mark})
Octave(note) == Written(note, "'") - Written(note, ",")

Absolute(note) ==
  12 * Octave(note) + NaturalPC[note.letter]
    + (IF Has(note, "_") THEN -1 ELSE IF Has(note, "^") THEN 1 ELSE 0)

\* Seeded bug: the quotient is truncated towards zero, as / and | 0 do.
RenderTruncated(absolute) ==
  LET octave == IF absolute < 0 THEN -((-absolute) \div 12) ELSE absolute \div 12
      spelling == PcToken[(absolute % 12) + 1]
      dots == IF octave > 0 THEN [i \in 1 .. octave |-> "'"] ELSE [i \in 1 .. -octave |-> ","]
  IN Note(spelling[1], dots \o spelling[2])

\* The canonical token of a pitch: letter, dots, accidental.
RenderAbsolute(absolute) ==
  LET octave == absolute \div 12
      spelling == PcToken[(absolute % 12) + 1]
      dots == IF octave > 0 THEN [i \in 1 .. octave |-> "'"] ELSE [i \in 1 .. -octave |-> ","]
  IN Note(spelling[1], dots \o spelling[2])

\* Every legal note rotated, everything else kept; no shift keeps all of it.
TransposeLine(text, semitones) ==
  IF semitones = 0 THEN text
  ELSE [i \in DOMAIN text |->
          IF IsNote(text[i]) /\ LegalNote(text[i])
          THEN RenderAbsolute(Absolute(text[i]) + semitones) ELSE text[i]]

NoBand == -1

\* Seeded bug: the rows above the first line are skipped without looking.
BandForLineBlind(bands, index, lineCount, topExtra) ==
  LET line == Min({Max({index, 0}), Max({lineCount - 1, 0})})
      extra == Min({Max({topExtra, 0}), bands - 1})
      usable == bands - extra
  IN IF bands = 0 THEN NoBand
     ELSE IF usable <= 1 \/ lineCount <= 1 THEN extra
     ELSE IF usable = lineCount THEN extra + line
     ELSE extra + RoundUp(line * (usable - 1), lineCount - 1)

\* bandForLine: the index, from 0, of the band for a line of a sheet.
BandForLine(bands, index, lineCount, topExtra) ==
  LET line == Min({Max({index, 0}), Max({lineCount - 1, 0})})
      extra == Min({Max({topExtra, 0}), Max({bands - lineCount, 0})})
      usable == bands - extra
  IN IF bands = 0 THEN NoBand
     ELSE IF usable <= 1 \/ lineCount <= 1 THEN extra
     ELSE IF usable = lineCount THEN extra + line
     ELSE Min({extra + RoundUp(line * (usable - 1), lineCount - 1), bands - 1})
=============================================================================
