--------------------------- MODULE TranscriptPane ---------------------------
(***************************************************************************)
(* Which rows of the transcript a terminal shows: internal/ui/viewport.go. *)
(* Window does not flatten the transcript: it walks the rendered blocks    *)
(* backwards from the newest and stops when it has enough.  Viewport is    *)
(* the plain version, on the flat transcript.                              *)
(*                                                                         *)
(* A row is its block and its place in the block, and a transcript is how  *)
(* many rows each of its blocks takes.                                     *)
(***************************************************************************)
EXTENDS Integers, SequencesExt

Smaller(a, b) == IF a < b THEN a ELSE b

Larger(a, b) == IF a > b THEN a ELSE b

Blanks(n) == [i \in 1..n |-> <<0, 0>>]

Block(i, n) == [j \in 1..n |-> <<i, j>>]

AddRows(n, rows) == n + rows

Lines(blocks, gap) ==
  FoldLeft(AddRows, 0, blocks) + (IF Len(blocks) > 1 THEN gap * (Len(blocks) - 1) ELSE 0)

MaxScroll(n, height) == IF height <= 0 THEN 0 ELSE Larger(n - height, 0)

Clamp(wanted, n, height) == Smaller(Larger(wanted, 0), MaxScroll(n, height))

\* Rows are taken until there are as many as needed.
Take(rev, rows) ==
  [rev EXCEPT !.rows = @ \o SubSeq(rows, 1, Smaller(Len(rows), rev.need - Len(@)))]

\* Block i and the blank rows before it, newest first; none come before the
\* first block.
Upwards(i, n, gap) ==
  [j \in 1..n |-> <<i, n + 1 - j>>] \o Blanks(IF i = 1 THEN 0 ELSE gap)

\* The walk, newest block first.
Collected(blocks, gap, need) ==
  LET newest(k) == Len(blocks) + 1 - k
  IN  FoldLeft(Take, [need |-> need, rows |-> <<>>],
               [k \in 1..Len(blocks) |->
                  Upwards(newest(k), blocks[newest(k)], gap)]).rows

MutNeed(height, at) == height

Need(height, at) == height + at

Window(blocks, gap, height, wanted) ==
  IF height <= 0 THEN <<>>
  ELSE LET at == Clamp(wanted, Lines(blocks, gap), height)
           rev == Collected(blocks, gap, Need(height, at))
           shown == SubSeq(rev, Smaller(at, Len(rev)) + 1, Len(rev))
       IN  Blanks(height - Len(shown)) \o Reverse(shown)

Viewport(lines, height, wanted) ==
  IF height <= 0 THEN <<>>
  ELSE IF Len(lines) < height THEN Blanks(height - Len(lines)) \o lines
  ELSE LET end == Len(lines) - Clamp(wanted, Len(lines), height)
       IN  SubSeq(lines, end - height + 1, end)

\* The transcript as one sequence of rows, oldest first.
Flattened(blocks, gap) ==
  FlattenSeq([i \in 1..Len(blocks) |->
                (IF i = 1 THEN <<>> ELSE Blanks(gap)) \o Block(i, blocks[i])])
=============================================================================
