----------------------------- MODULE TextBlock ------------------------------
(***************************************************************************)
(* A transcript block in a column of cells: internal/ui/block.go with the  *)
(* primitives of ui.go.                                                    *)
(*                                                                         *)
(* A text is the number of cells it takes.  Only where text is broken is   *)
(* it looked into: a word is then the sequence of its characters' cells,   *)
(* one or two, and a character of a broken text is <<word, place, cells>>. *)
(***************************************************************************)
EXTENDS Integers, FiniteSets, SequencesExt

\* ansi.Truncate may cut through a wide character, or have no room for its
\* ellipsis: what it then leaves is shorter than it was asked for.
CONSTANT CutLoss

ASSUME CutAssumption == CutLoss \in Nat

Larger(a, b) == IF a > b THEN a ELSE b

Smaller(a, b) == IF a < b THEN a ELSE b

\* A row as the cells of its parts; a part that is not there takes none.
Row(left, middle, right) == [left |-> left, middle |-> middle, right |-> right]

Cells(row) == row.left + row.middle + row.right

-----------------------------------------------------------------------------
(* Primitives *)

Truncate(text, width) == IF text <= width THEN text ELSE Larger(width - CutLoss, 0)

pad(text, width) == Larger(text, width)

MutFitUnpadded(text, width) == IF width <= 0 THEN 0 ELSE Truncate(text, width)

fit(text, width) == IF width <= 0 THEN 0 ELSE pad(Truncate(text, width), width)

rightAlign(text, width) == Larger(text, width)

-----------------------------------------------------------------------------
(* Breaking prose into rows *)

AddCells(n, char) == n + char[3]

TextCells(chars) == FoldLeft(AddCells, 0, chars)

\* The places of a line where a word follows another, with a space between.
Spaces(line) == {k \in 2..Len(line) : line[k][1] # line[k - 1][1]}

LineCells(line) == TextCells(line) + Cardinality(Spaces(line))

Word(words, i) == [j \in DOMAIN words[i] |-> <<i, j, words[i][j]>>]

Chars(words) == [i \in DOMAIN words |-> Word(words, i)]

\* What ansi.Truncate leaves of word, with no ellipsis.
Beginning(word, limit) ==
  SubSeq(word, 1, CHOOSE n \in 0..Len(word) :
                    /\ TextCells(SubSeq(word, 1, n)) <= limit
                    /\ n < Len(word) => TextCells(SubSeq(word, 1, n + 1)) > limit)

\* A row no loop gets past.
Endless == <<>>

\* The rows a word wider than the limit is broken into; the last of them stays
\* open for the next word.  Where not one character fits, the loop that takes
\* the beginning off the word takes nothing, for ever.
Broken(word, limit) ==
  LET from[k \in 1..(Len(word) + 1)] ==
        LET rest == SubSeq(word, k, Len(word))
            head == Beginning(rest, limit)
        IN  IF TextCells(rest) <= limit THEN <<rest>>
            ELSE IF head = <<>> THEN <<Endless>>
            ELSE <<head>> \o from[k + Len(head)]
  IN  from[1]

\* The rows that are full, and the one being filled.
Flush(s) == IF s.line = <<>> THEN s.out ELSE Append(s.out, s.line)

MutFitsWithoutSpace(line, word, limit) ==
  LineCells(line) + TextCells(word) <= limit

Joins(line, word, limit) ==
  LineCells(line) + 1 + TextCells(word) <= limit

\* Nothing comes after a word that is never done with.
Place(s, word) ==
  IF ~s.ends THEN s
  ELSE IF TextCells(word) > s.limit
       THEN LET rows == Broken(word, s.limit)
            IN  [s EXCEPT !.out = Flush(s) \o Front(rows), !.line = Last(rows),
                          !.ends = Last(rows) # Endless]
  ELSE IF s.line = <<>> THEN [s EXCEPT !.line = word]
  ELSE IF Joins(s.line, word, s.limit) THEN [s EXCEPT !.line = @ \o word]
  ELSE [s EXCEPT !.out = Flush(s), !.line = word]

Unwrapped(limit) == [limit |-> limit, out |-> <<>>, line |-> <<>>, ends |-> TRUE]

\* The rows, and whether wrapText ever returns them.
wrapText(words, limit) ==
  IF limit <= 0 \/ words = <<>> THEN [rows |-> << <<>> >>, ends |-> TRUE]
  ELSE LET s == FoldLeft(Place, Unwrapped(limit), Chars(words))
       IN  [rows |-> Flush(s), ends |-> s.ends]

-----------------------------------------------------------------------------
(* Blocks *)

Gutter == 2

tagGap == 2

boxPad == 1

\* The tag survives at the meta's expense.
header(b, inner) ==
  IF b.meta = 0 \/ b.tag + tagGap >= inner THEN Row(fit(b.tag, inner), 0, 0)
  ELSE Row(b.tag, tagGap, fit(b.meta, inner - b.tag - tagGap))

\* An indent that would leave no room for text is given up.
Indent(l, inner) ==
  LET indent == l.indent + (IF l.boxed THEN boxPad ELSE 0)
  IN  IF indent >= inner THEN 0 ELSE indent

AllOf(words) == FlattenSeq(Chars(words))

Indented(texts, l, inner) ==
  LET indent == Indent(l, inner)
  IN  [i \in DOMAIN texts |->
         Row(indent, fit(LineCells(texts[i]), inner - indent), 0)]

\* A line of prose is wrapped, any other cut to one row.
row(l, inner) ==
  Indented(IF l.wrap THEN wrapText(l.words, inner - Indent(l, inner)).rows
           ELSE <<AllOf(l.words)>>, l, inner)

\* Every row of a block has its bar to the left.
Barred(rows) == [i \in DOMAIN rows |-> [rows[i] EXCEPT !.left = @ + Gutter]]

Render(b, width) ==
  IF width <= Gutter THEN <<>>
  ELSE LET inner == width - Gutter
       IN  Barred(<<header(b, inner)>>
                  \o FlattenSeq([i \in DOMAIN b.lines |-> row(b.lines[i], inner)]))

\* Nothing of a block's text can keep its rendering from returning.
Renders(b, width) ==
  width > Gutter =>
    \A i \in DOMAIN b.lines :
      LET l == b.lines[i]
          inner == width - Gutter
      IN  l.wrap => wrapText(l.words, inner - Indent(l, inner)).ends
=============================================================================
