---------------------------- MODULE LayoutProofs ----------------------------
(***************************************************************************)
(* That wrapping keeps every character of a text, in rows no wider than    *)
(* the column; that every part of a frame fills its width exactly, for     *)
(* every width and every text; and what each part gives up first when it   *)
(* is squeezed.                                                            *)
(*                                                                         *)
(* The rows of prose and those the pane shows are found by folds: what a   *)
(* fold does is in Folding, instantiated here once for each operator that  *)
(* is folded.                                                              *)
(***************************************************************************)
EXTENDS Layout, FiniteSetTheorems, SequenceTheorems, TLAPS

\* The rows exactly as wide as width.
Full(width) == {r \in [left : Nat, middle : Nat, right : Nat] : Cells(r) = width}

-----------------------------------------------------------------------------
(* Primitives *)

\* fit fills the width it is given.
LEMMA FitFills ==
  ASSUME NEW text \in Nat, NEW width \in Nat
  PROVE  fit(text, width) = width
<1>1. Truncate(text, width) \in Nat /\ Truncate(text, width) <= width
  BY CutAssumption DEF Truncate, Larger
<1> QED BY <1>1 DEF fit, pad, Larger

LEMMA RowCells ==
  ASSUME NEW a \in Nat, NEW b \in Nat, NEW c \in Nat
  PROVE  Row(a, b, c) \in Full(a + b + c)
BY DEF Row, Cells, Full

LEMMA AlignFills ==
  ASSUME NEW text \in Nat, NEW width \in Nat, text <= width
  PROVE  rightAlign(text, width) = width
BY DEF rightAlign, Larger

\* A row for each element of a sequence.
LEMMA RowForEach ==
  ASSUME NEW S, NEW F, NEW s \in Seq(S), NEW t, t = [i \in DOMAIN s |-> t[i]],
         \A e \in S : \A i \in DOMAIN s : s[i] = e => t[i] \in F
  PROVE  t \in Seq(F)
<1>1. Len(s) \in Nat /\ DOMAIN s = 1..Len(s)
  BY LenProperties
<1>2. \A i \in 1..Len(s) : s[i] \in S
  BY ElementOfSeq
<1>3. t \in [1..Len(s) -> F]
  BY <1>1, <1>2
<1> QED BY <1>1, <1>3, SeqDef, Zenon

-----------------------------------------------------------------------------
(* The cells of a text *)

Char == Nat \X Nat \X {1, 2}

Text == Seq(Char)

Adding == INSTANCE Folding WITH Op <- AddCells

LEMMA TextCellsIsSum ==
  ASSUME NEW q
  PROVE  TextCells(q) = Adding!Fold(0, q)
BY DEF TextCells, Adding!Fold, Adding!FoldLeft, FoldLeft, Adding!MapThenFoldSet, MapThenFoldSet,
       Adding!Max, Max

\* Of no character, and of one more.
LEMMA TextCellsStep ==
  /\ TextCells(<<>>) = 0
  /\ \A q \in Text, c \in Char : TextCells(Append(q, c)) = TextCells(q) + c[3]
<1>1. TextCells(<<>>) = 0
  BY TextCellsIsSum, Adding!FoldEmpty
<1>2. ASSUME NEW q \in Text, NEW c \in Char
      PROVE  TextCells(Append(q, c)) = TextCells(q) + c[3]
  BY TextCellsIsSum, Adding!FoldAppend DEF Text, AddCells
<1> QED
  BY <1>1, <1>2

LEMMA TextCellsType ==
  ASSUME NEW q \in Text
  PROVE  TextCells(q) \in Nat
<1> DEFINE U == {r \in Text : TextCells(r) \in Nat}
<1>1. <<>> \in U
  BY TextCellsStep DEF Text
<1>2. ASSUME NEW r \in Seq(Char), NEW c \in Char, r \in U PROVE Append(r, c) \in U
  <2>1. c[3] \in Nat
    BY DEF Char
  <2>2. TextCells(Append(r, c)) = TextCells(r) + c[3] /\ Append(r, c) \in Text
    BY TextCellsStep DEF Text
  <2> QED
    BY <1>2, <2>1, <2>2
<1> HIDE DEF U
<1>3. q \in U
  BY <1>1, <1>2, Adding!SeqSetInduction DEF Text
<1> QED
  BY <1>3 DEF U

LEMMA TextCellsConcat ==
  ASSUME NEW p \in Text, NEW q \in Text
  PROVE  TextCells(p \o q) = TextCells(p) + TextCells(q)
<1> DEFINE U == {r \in Text : TextCells(p \o r) = TextCells(p) + TextCells(r)}
<1>1. <<>> \in U
  <2>1. <<>> \in Text /\ p \o <<>> = p /\ TextCells(p) \in Nat
    BY ConcatEmptySeq, TextCellsType DEF Text
  <2> QED
    BY <2>1, TextCellsStep
<1>2. ASSUME NEW r \in Seq(Char), NEW c \in Char, r \in U PROVE Append(r, c) \in U
  <2>1. /\ p \o Append(r, c) = Append(p \o r, c) /\ p \o r \in Text
        /\ Append(r, c) \in Text /\ r \in Text
    BY DEF Text
  <2>2. c[3] \in Nat /\ TextCells(r) \in Nat /\ TextCells(p) \in Nat
    BY <2>1, TextCellsType DEF Char
  <2>3. /\ TextCells(Append(p \o r, c)) = TextCells(p \o r) + c[3]
        /\ TextCells(Append(r, c)) = TextCells(r) + c[3]
    BY <2>1, TextCellsStep
  <2>4. TextCells(p \o r) = TextCells(p) + TextCells(r)
    BY <1>2
  <2>5. TextCells(p \o Append(r, c)) = TextCells(Append(p \o r, c))
    BY <2>1, Zenon
  <2>6. TextCells(Append(p \o r, c)) = TextCells(p) + TextCells(Append(r, c))
    BY <2>2, <2>3, <2>4
  <2>7. TextCells(p \o Append(r, c)) = TextCells(p) + TextCells(Append(r, c))
    BY <2>5, <2>6, Zenon
  <2> QED
    BY <2>1, <2>7, Zenon
<1> HIDE DEF U
<1>3. q \in U
  BY <1>1, <1>2, Adding!SeqSetInduction DEF Text
<1> QED
  BY <1>3 DEF U

\* No character of a text is wider than the text.
LEMMA CharFits ==
  ASSUME NEW q \in Text, NEW i \in 1..Len(q)
  PROVE  q[i][3] <= TextCells(q)
<1> DEFINE U == {r \in Text : \A k \in 1..Len(r) : r[k][3] <= TextCells(r)}
<1>1. <<>> \in U
  BY DEF Text
<1>2. ASSUME NEW r \in Seq(Char), NEW c \in Char, r \in U PROVE Append(r, c) \in U
  <2>1. r \in Text /\ Append(r, c) \in Text /\ Len(r) \in Nat /\ TextCells(r) \in Nat
    BY TextCellsType DEF Text
  <2>2. c[3] \in Nat /\ TextCells(Append(r, c)) = TextCells(r) + c[3]
    BY <2>1, TextCellsStep DEF Char
  <2>3. ASSUME NEW k \in 1..Len(Append(r, c))
        PROVE  Append(r, c)[k][3] <= TextCells(Append(r, c))
    <3>1. CASE k = Len(r) + 1
      <4>1. Append(r, c)[k] = c
        BY <3>1
      <4> QED
        BY <2>1, <2>2, <4>1
    <3>2. CASE k # Len(r) + 1
      <4>1. k \in 1..Len(r) /\ Append(r, c)[k] = r[k] /\ r[k] \in Char
        BY <2>1, <3>2
      <4>2. r[k][3] <= TextCells(r) /\ r[k][3] \in Nat
        BY <1>2, <4>1 DEF Char
      <4> QED
        BY <2>1, <2>2, <4>1, <4>2
    <3> QED
      BY <3>1, <3>2
  <2> QED
    BY <2>1, <2>3
<1> HIDE DEF U
<1>3. q \in U
  BY <1>1, <1>2, Adding!SeqSetInduction DEF Text
<1> QED
  BY <1>3 DEF U

-----------------------------------------------------------------------------
(* What a row takes of a word *)

\* One more character, from any place.
LEMMA Longer ==
  ASSUME NEW S, NEW q \in Seq(S), NEW k \in 1..Len(q), NEW n \in (k - 1)..(Len(q) - 1)
  PROVE  SubSeq(q, k, n + 1) = Append(SubSeq(q, k, n), q[n + 1])
OBVIOUS

LEMMA BeginningIs ==
  ASSUME NEW word \in Text, NEW limit \in Nat
  PROVE  \E n \in 0..Len(word) :
           /\ Beginning(word, limit) = SubSeq(word, 1, n)
           /\ TextCells(SubSeq(word, 1, n)) <= limit
           /\ n < Len(word) => TextCells(SubSeq(word, 1, n + 1)) > limit
<1> DEFINE Over == {m \in 0..Len(word) : TextCells(SubSeq(word, 1, m)) > limit}
           Fits(n) == /\ TextCells(SubSeq(word, 1, n)) <= limit
                      /\ n < Len(word) => TextCells(SubSeq(word, 1, n + 1)) > limit
<1>1. \A m \in 0..Len(word) : SubSeq(word, 1, m) \in Text
  BY DEF Text
<1>2. \A m \in 0..Len(word) : TextCells(SubSeq(word, 1, m)) \in Nat
  BY <1>1, TextCellsType
<1>3. Len(word) \in Nat
  BY DEF Text
<1>4. SubSeq(word, 1, 0) = <<>>
  BY DEF Text
<1>5. \E n \in 0..Len(word) : Fits(n)
  <2>1. CASE Over = {}
    <3>1. Len(word) \in 0..Len(word) /\ Len(word) \notin Over
      BY <1>3, <2>1
    <3>2. Fits(Len(word))
      BY <1>2, <1>3, <3>1
    <3> QED
      BY <3>1, <3>2
  <2>2. CASE Over # {}
    <3>1. Over \in SUBSET Nat
      OBVIOUS
    <3>2. PICK m \in Over : \A i \in Over : m <= i
      <4> HIDE DEF Over
      <4> QED
        BY <2>2, <3>1, Adding!Least
    <3>3. m # 0
      <4>1. TextCells(SubSeq(word, 1, 0)) = 0
        BY <1>4, TextCellsStep, Zenon
      <4>2. 0 \notin Over
        BY <4>1
      <4> QED
        BY <3>2, <4>2, Zenon
    <3>4. m \in 0..Len(word) /\ m - 1 \in 0..Len(word) /\ (m - 1) + 1 = m /\ m - 1 \notin Over
      BY <1>3, <3>2, <3>3
    <3>5. Fits(m - 1)
      BY <1>2, <3>2, <3>4
    <3> QED
      BY <3>4, <3>5
  <2> QED
    BY <2>1, <2>2
<1>6. Beginning(word, limit) = SubSeq(word, 1, CHOOSE n \in 0..Len(word) : Fits(n))
  BY DEF Beginning
<1> QED
  BY <1>5, <1>6

-----------------------------------------------------------------------------
(* A word broken into rows *)

Rest(word, k) == SubSeq(word, k, Len(word))

\* f takes each place of D to the rows the rest of the word from there makes.
Cuts(f, word, limit, D) ==
  f = [k \in D |->
         IF TextCells(Rest(word, k)) <= limit THEN <<Rest(word, k)>>
         ELSE IF Beginning(Rest(word, k), limit) = <<>> THEN <<Endless>>
         ELSE <<Beginning(Rest(word, k), limit)>>
              \o f[k + Len(Beginning(Rest(word, k), limit))]]

LEMMA BrokenIsChosen ==
  ASSUME NEW word, NEW limit
  PROVE  Broken(word, limit)
         = (CHOOSE f : Cuts(f, word, limit, 1..(Len(word) + 1)))[1]
BY DEF Broken, Cuts, Rest

LEMMA RestIs ==
  ASSUME NEW S, NEW word \in Seq(S), NEW k \in 1..(Len(word) + 1)
  PROVE  /\ Rest(word, k) \in Seq(S)
         /\ Len(Rest(word, k)) = Len(word) + 1 - k
         /\ \A i \in 1..(Len(word) + 1 - k) : Rest(word, k)[i] = word[k + i - 1]
BY DEF Rest

\* The beginning of a text is shorter than it, if the text does not fit.
LEMMA HeadIs ==
  ASSUME NEW S \in SUBSET Char, NEW q \in Seq(S), NEW limit \in Nat
  PROVE  /\ Beginning(q, limit) \in Seq(S)
         /\ Len(Beginning(q, limit)) \in 0..Len(q)
         /\ Beginning(q, limit) = SubSeq(q, 1, Len(Beginning(q, limit)))
         /\ TextCells(Beginning(q, limit)) <= limit
         /\ TextCells(q) > limit => Len(Beginning(q, limit)) < Len(q)
         /\ Beginning(q, limit) = <<>> /\ q # <<>> => q[1][3] > limit
<1>1. q \in Text
  BY DEF Text
<1>2. PICK n \in 0..Len(q) :
        /\ Beginning(q, limit) = SubSeq(q, 1, n)
        /\ TextCells(SubSeq(q, 1, n)) <= limit
        /\ n < Len(q) => TextCells(SubSeq(q, 1, n + 1)) > limit
  BY <1>1, BeginningIs
<1>3. SubSeq(q, 1, n) \in Seq(S) /\ Len(SubSeq(q, 1, n)) = n /\ SubSeq(q, 1, Len(q)) = q
  OBVIOUS
<1>4. TextCells(q) > limit => n < Len(q)
  <2>1. CASE n = Len(q)
    <3>1. TextCells(q) <= limit
      BY <1>2, <1>3, <2>1, Zenon
    <3>2. TextCells(q) \in Nat
      BY <1>1, TextCellsType
    <3> QED
      BY <3>1, <3>2
  <2>2. CASE n # Len(q)
    BY <2>2
  <2> QED
    BY <2>1, <2>2
<1>5. ASSUME SubSeq(q, 1, n) = <<>>, q # <<>> PROVE q[1][3] > limit
  <2>1. n = 0 /\ 0 < Len(q) /\ q[1] \in Char
    BY <1>3, <1>5
  <2>2. SubSeq(q, 1, 1) = Append(<<>>, q[1])
    <3>1. SubSeq(q, 1, 0) = <<>> /\ 1 \in 1..Len(q) /\ 0 \in (1 - 1)..(Len(q) - 1) /\ 0 + 1 = 1
      BY <2>1
    <3>2. SubSeq(q, 1, 0 + 1) = Append(SubSeq(q, 1, 0), q[0 + 1])
      BY <3>1, Longer
    <3> QED
      BY <3>1, <3>2
  <2>3. TextCells(SubSeq(q, 1, 1)) = 0 + q[1][3]
    <3>1. <<>> \in Text
      BY DEF Text
    <3> QED
      BY <2>1, <2>2, <3>1, TextCellsStep
  <2>4. q[1][3] \in Nat
    BY <2>1 DEF Char
  <2>5. TextCells(SubSeq(q, 1, 1)) > limit
    BY <1>2, <2>1
  <2> QED
    BY <2>3, <2>4, <2>5
<1> QED
  BY <1>2, <1>3, <1>4, <1>5

LEMMA CutsStep ==
  ASSUME NEW f, NEW word, NEW limit, NEW D, Cuts(f, word, limit, D), NEW k \in D
  PROVE  f[k] = IF TextCells(Rest(word, k)) <= limit THEN <<Rest(word, k)>>
                ELSE IF Beginning(Rest(word, k), limit) = <<>> THEN <<Endless>>
                ELSE <<Beginning(Rest(word, k), limit)>>
                     \o f[k + Len(Beginning(Rest(word, k), limit))]
BY DEF Cuts

LEMMA CharIn ==
  ASSUME NEW S \in SUBSET Char, NEW q \in Seq(S), NEW i \in 1..Len(q)
  PROVE  /\ q[i] \in S /\ q[i][3] \in Nat /\ TextCells(q) \in Nat
         /\ q[i][3] <= TextCells(q)
<1>1. q \in Text /\ q[i] \in S
  BY DEF Text
<1>2. q[i] \in Char
  BY <1>1
<1>3. q[i][3] \in Nat
  BY <1>2 DEF Char
<1> QED
  BY <1>1, <1>3, CharFits, TextCellsType

LEMMA CutsExists ==
  ASSUME NEW word \in Text, NEW limit \in Nat
  PROVE  \E f : Cuts(f, word, limit, 1..(Len(word) + 1))
<1> DEFINE N == Len(word) + 1
           T == {m \in Nat : m <= N => \E f : Cuts(f, word, limit, (N + 1 - m)..N)}
           rows(g, k) == IF TextCells(Rest(word, k)) <= limit THEN <<Rest(word, k)>>
                         ELSE IF Beginning(Rest(word, k), limit) = <<>> THEN <<Endless>>
                         ELSE <<Beginning(Rest(word, k), limit)>>
                              \o g[k + Len(Beginning(Rest(word, k), limit))]
<1>1. N \in Nat /\ N >= 1
  BY DEF Text
<1>2. ASSUME NEW k \in 1..N, Beginning(Rest(word, k), limit) # <<>>
      PROVE  k + Len(Beginning(Rest(word, k), limit)) \in (k + 1)..N
  <2> DEFINE h == Beginning(Rest(word, k), limit)
  <2>1. Rest(word, k) \in Seq(Char) /\ Len(Rest(word, k)) = N - k
    BY <1>1, RestIs DEF Text
  <2>2. h \in Seq(Char) /\ Len(h) \in 0..(N - k)
    BY <2>1, HeadIs
  <2> HIDE DEF h, N
  <2>3. Len(h) # 0
    BY <1>2, <2>2, EmptySeq DEF h
  <2>4. k + Len(h) \in (k + 1)..N
    BY <1>1, <2>2, <2>3
  <2> QED
    BY <2>4 DEF h
<1>3. 0 \in T
  <2>1. Cuts([k \in (N + 1)..N |-> 0], word, limit, (N + 1)..N)
    <3>1. (N + 1)..N = {}
      BY <1>1
    <3> HIDE DEF N
    <3> QED
      BY <3>1 DEF Cuts
  <2>2. (N + 1) - 0 = N + 1
    BY <1>1
  <2> HIDE DEF N
  <2> QED
    BY <2>1, <2>2
<1>4. ASSUME NEW m \in Nat, m \in T PROVE m + 1 \in T
  <2>1. CASE m + 1 <= N
    <3> DEFINE a == N - m
    <3>1. a \in 1..N /\ N + 1 - m = a + 1 /\ N + 1 - (m + 1) = a /\ m <= N
      BY <1>1, <2>1
    <3>2. PICK f : Cuts(f, word, limit, (a + 1)..N)
      BY <1>4, <3>1
    <3> DEFINE g == [k \in a..N |-> IF k = a THEN rows(f, a) ELSE f[k]]
    <3> HIDE DEF a, N
    <3>3. \A k \in (a + 1)..N : f[k] = rows(f, k)
      BY <3>2 DEF Cuts
    <3>4. \A k \in (a + 1)..N : g[k] = f[k] /\ k # a
      BY <3>1
    <3>5. ASSUME NEW k \in a..N PROVE rows(g, k) = rows(f, k)
      <4>1. k \in 1..N
        BY <1>1, <3>1
      <4>2. CASE Beginning(Rest(word, k), limit) = <<>>
        BY <4>2
      <4>3. CASE Beginning(Rest(word, k), limit) # <<>>
        <5> DEFINE j == k + Len(Beginning(Rest(word, k), limit))
        <5>1. j \in (k + 1)..N
          BY <1>2, <4>1, <4>3
        <5>2. j \in (a + 1)..N
          BY <1>1, <3>1, <5>1
        <5>3. g[j] = f[j]
          BY <3>4, <5>2, Zenon
        <5> HIDE DEF g
        <5> QED
          BY <5>3
      <4> QED
        BY <4>2, <4>3
    <3>6. \A k \in a..N : g[k] = rows(f, k)
      BY <3>1, <3>3
    <3>7. \A k \in a..N : g[k] = rows(g, k)
      <4> HIDE DEF g, rows
      <4> QED
        BY <3>5, <3>6
    <3>8. g = [k \in a..N |-> g[k]]
      OBVIOUS
    <3>9. Cuts(g, word, limit, a..N)
      <4> HIDE DEF g
      <4>1. g = [k \in a..N |-> rows(g, k)]
        BY <3>7, <3>8
      <4> QED
        BY <4>1 DEF Cuts
    <3> QED
      BY <3>1, <3>9
  <2>2. CASE ~(m + 1 <= N)
    BY <2>2
  <2> QED
    BY <2>1, <2>2
<1>5. N \in T
  <2> HIDE DEF T, N
  <2> QED
    BY <1>1, <1>3, <1>4, Adding!NatSetInduction
<1>6. N + 1 - N = 1
  BY <1>1
<1> QED
  BY <1>1, <1>5, <1>6

LEMMA FlattenIs ==
  ASSUME NEW q
  PROVE  FlattenSeq(q) = Adding!FlattenSeq(q)
BY DEF FlattenSeq, Adding!FlattenSeq

LEMMA FlattenLaws ==
  ASSUME NEW S, NEW p \in Seq(Seq(S)), NEW q \in Seq(Seq(S)), NEW x \in Seq(S)
  PROVE  /\ FlattenSeq(<<>>) = <<>>
         /\ FlattenSeq(p) \in Seq(S)
         /\ FlattenSeq(Append(p, x)) = FlattenSeq(p) \o x
         /\ FlattenSeq(p \o q) = FlattenSeq(p) \o FlattenSeq(q)
<1>1. FlattenSeq(<<>>) = <<>>
  BY FlattenIs, Adding!FlattenEmpty
<1>2. FlattenSeq(p) \in Seq(S)
  BY FlattenIs, Adding!FlattenType, Zenon
<1>3. FlattenSeq(Append(p, x)) = FlattenSeq(p) \o x
  <2>1. Adding!FlattenSeq(Append(p, x)) = Adding!FlattenSeq(p) \o x
    BY Adding!FlattenAppend
  <2> QED
    BY <2>1, FlattenIs, Zenon
<1>4. FlattenSeq(p \o q) = FlattenSeq(p) \o FlattenSeq(q)
  <2>1. Adding!FlattenSeq(p \o q) = Adding!FlattenSeq(p) \o Adding!FlattenSeq(q)
    BY Adding!FlattenConcat
  <2> QED
    BY <2>1, FlattenIs, Zenon
<1> QED
  BY <1>1, <1>2, <1>3, <1>4, Zenon

LEMMA FlattenOne ==
  ASSUME NEW S, NEW q \in Seq(S)
  PROVE  FlattenSeq(<<q>>) = q
<1> DEFINE none == <<>>
<1>1. none \in Seq(Seq(S)) /\ Append(none, q) = <<q>> /\ none \o q = q
  OBVIOUS
<1>2. FlattenSeq(none) = none
  BY FlattenIs, Adding!FlattenEmpty
<1> HIDE DEF none
<1>3. FlattenSeq(Append(none, q)) = FlattenSeq(none) \o q
  BY <1>1, FlattenLaws, Zenon
<1>4. FlattenSeq(Append(none, q)) = q
  BY <1>1, <1>2, <1>3, Zenon
<1> QED
  BY <1>1, <1>4, Zenon

\* The rows of a word too wide for one: no row is too wide and together they are
\* the word, unless the last is one no loop gets past, which is when and only
\* when a character is wider than the row.
LEMMA BrokenIs ==
  ASSUME NEW S \in SUBSET Char, NEW word \in Seq(S), NEW limit \in Nat,
         TextCells(word) > limit
  PROVE  /\ Broken(word, limit) \in Seq(Seq(S))
         /\ Broken(word, limit) # <<>>
         /\ Last(Broken(word, limit)) # <<>>
            <=> \A i \in 1..Len(word) : word[i][3] <= limit
         /\ Last(Broken(word, limit)) # <<>> =>
              /\ FlattenSeq(Broken(word, limit)) = word
              /\ \A i \in 1..Len(Broken(word, limit)) :
                   TextCells(Broken(word, limit)[i]) <= limit
<1> DEFINE N == Len(word)
           AllFit(q) == \A i \in 1..Len(q) : q[i][3] <= limit
           Right(r, q) == /\ r \in Seq(Seq(S)) /\ r # <<>>
                          /\ Last(r) # <<>> <=> AllFit(q)
                          /\ Last(r) # <<>> =>
                               /\ FlattenSeq(r) = q
                               /\ \A i \in 1..Len(r) : TextCells(r[i]) <= limit
<1>1. word \in Text /\ N \in Nat
  BY DEF Text
<1>2. PICK f : Cuts(f, word, limit, 1..(N + 1)) /\ Broken(word, limit) = f[1]
  BY <1>1, CutsExists, BrokenIsChosen
<1> DEFINE T == {m \in Nat : \A k \in 1..N : N - k < m => Right(f[k], Rest(word, k))}
<1>3. 0 \in T
  BY <1>1
<1>4. \A k \in 1..(N + 1) :
         f[k] = IF TextCells(Rest(word, k)) <= limit THEN <<Rest(word, k)>>
                ELSE IF Beginning(Rest(word, k), limit) = <<>> THEN <<Endless>>
                ELSE <<Beginning(Rest(word, k), limit)>>
                     \o f[k + Len(Beginning(Rest(word, k), limit))]
  BY <1>2 DEF Cuts
<1>5. ASSUME NEW m \in Nat, m \in T PROVE m + 1 \in T
  <2>1. ASSUME NEW k \in 1..N, N - k < m + 1 PROVE Right(f[k], Rest(word, k))
    <3> DEFINE rest == Rest(word, k)
               head == Beginning(rest, limit)
               n    == Len(head)
    <3>1. /\ rest \in Seq(S) /\ Len(rest) = N + 1 - k /\ rest # <<>> /\ rest \in Text
          /\ TextCells(rest) \in Nat
      <4>1. rest \in Seq(S) /\ Len(rest) = N + 1 - k
        BY <1>1, RestIs
      <4>2. rest \in Text
        BY <4>1 DEF Text
      <4> HIDE DEF rest
      <4> QED
        BY <1>1, <4>1, <4>2, TextCellsType
    <3>2. /\ head \in Seq(S) /\ n \in 0..Len(rest) /\ head = SubSeq(rest, 1, n)
          /\ TextCells(head) <= limit
          /\ TextCells(rest) > limit => n < Len(rest)
          /\ head = <<>> => rest[1][3] > limit
      <4> HIDE DEF rest
      <4> QED
        BY <3>1, HeadIs
    <3>3. f[k] = IF TextCells(rest) <= limit THEN <<rest>>
                 ELSE IF head = <<>> THEN <<Endless>> ELSE <<head>> \o f[k + n]
      <4>1. k \in 1..(N + 1)
        BY <1>1
      <4> QED
        BY <1>4, <4>1, Zenon
    <3> HIDE DEF head, n
    <3>4. CASE TextCells(rest) <= limit
      <4> HIDE DEF rest
      <4>1. f[k] = <<rest>> /\ <<rest>> \in Seq(Seq(S)) /\ Last(<<rest>>) = rest
        BY <3>1, <3>3, <3>4 DEF Last
      <4>2. AllFit(rest)
        <5>1. ASSUME NEW i \in 1..Len(rest) PROVE rest[i][3] <= limit
          <6>1. rest[i][3] \in Nat /\ rest[i][3] <= TextCells(rest)
            BY <3>1, CharIn
          <6> QED
            BY <3>1, <3>4, <6>1
        <5> QED
          BY <5>1
      <4>3. FlattenSeq(<<rest>>) = rest
        BY <3>1, FlattenOne
      <4>4. \A i \in 1..Len(<<rest>>) : TextCells(<<rest>>[i]) <= limit
        BY <3>4
      <4> HIDE DEF AllFit
      <4>5. Right(<<rest>>, rest)
        BY <3>1, <4>1, <4>2, <4>3, <4>4
      <4> QED
        BY <4>1, <4>5 DEF rest
    <3>5. CASE TextCells(rest) > limit /\ head = <<>>
      <4>1. f[k] = << <<>> >> /\ << <<>> >> \in Seq(Seq(S)) /\ Last(<< <<>> >>) = <<>>
        BY <3>1, <3>3, <3>5 DEF Last, Endless
      <4> HIDE DEF rest
      <4>2. ~AllFit(rest)
        <5>1. 1 \in 1..Len(rest) /\ rest[1] \in Char /\ rest[1][3] > limit
          BY <3>1, <3>2, <3>5
        <5>2. ~(rest[1][3] <= limit)
          BY <5>1 DEF Char
        <5> QED
          BY <5>1, <5>2
      <4> HIDE DEF AllFit
      <4>3. Right(<< <<>> >>, rest)
        BY <4>1, <4>2
      <4> QED
        BY <4>1, <4>3 DEF rest
    <3>6. CASE TextCells(rest) > limit /\ head # <<>>
      <4> DEFINE next == Rest(word, k + n)
      <4>1. n \in 1..(Len(rest) - 1)
        <5> HIDE DEF rest
        <5>1. n # 0
          BY <3>2, <3>6, EmptySeq DEF n
        <5> QED
          BY <3>1, <3>2, <3>6, <5>1
      <4>2. k + n \in 1..N /\ N - (k + n) < m
        BY <1>1, <2>1, <3>1, <4>1
      <4>3. Right(f[k + n], next)
        BY <1>5, <4>2
      <4>4. next \in Seq(S) /\ Len(next) = Len(rest) - n
        <5>1. k + n \in 1..(Len(word) + 1)
          BY <1>1, <4>2
        <5>2. next \in Seq(S) /\ Len(next) = Len(word) + 1 - (k + n)
          BY <5>1, RestIs
        <5> HIDE DEF rest, next
        <5> QED
          BY <1>1, <3>1, <4>1, <5>2
      <4>5. \A i \in 1..n : head[i] = rest[i]
        <5> HIDE DEF rest, next
        <5> QED
          BY <3>1, <3>2, <4>1
      <4>6. \A i \in 1..(Len(rest) - n) : next[i] = rest[n + i]
        <5>1. \A i \in 1..(N + 1 - k) : rest[i] = word[k + i - 1]
          <6>1. k \in 1..(Len(word) + 1)
            BY <1>1
          <6> QED
            BY <6>1, RestIs, Zenon
        <5>2. \A i \in 1..(N + 1 - (k + n)) : next[i] = word[(k + n) + i - 1]
          <6>1. k + n \in 1..(Len(word) + 1)
            BY <1>1, <4>2
          <6> QED
            BY <6>1, RestIs, Zenon
        <5>3. ASSUME NEW i \in 1..(Len(rest) - n) PROVE next[i] = rest[n + i]
          <6>1. /\ i \in 1..(N + 1 - (k + n)) /\ n + i \in 1..(N + 1 - k)
                /\ (k + n) + i - 1 = k + (n + i) - 1
            BY <1>1, <3>1, <4>1
          <6> HIDE DEF rest, next, N
          <6> QED
            BY <5>1, <5>2, <6>1
        <5> QED
          BY <5>3
      <4>7. Len(head) = n
        BY DEF n
      <4> HIDE DEF rest, next
      <4>8. rest = head \o next
        <5>1. head \o next \in Seq(S) /\ Len(head \o next) = Len(rest)
          BY <3>1, <3>2, <4>1, <4>4, <4>7
        <5>2. \A i \in 1..Len(rest) : rest[i] = (head \o next)[i]
          BY <3>1, <3>2, <4>1, <4>4, <4>5, <4>6, <4>7
        <5> QED
          BY <3>1, <5>1, <5>2, SeqEqual
      <4>9. AllFit(rest) <=> AllFit(next)
        <5>1. ASSUME NEW i \in 1..n PROVE rest[i][3] <= limit
          <6>1. i \in 1..Len(head)
            BY <4>7
          <6>2. head[i][3] \in Nat /\ head[i][3] <= TextCells(head) /\ TextCells(head) \in Nat
            BY <3>2, <6>1, CharIn
          <6> QED
            BY <3>2, <4>5, <6>2
        <5>2. ASSUME AllFit(rest), NEW i \in 1..Len(next) PROVE next[i][3] <= limit
          <6>1. n + i \in 1..Len(rest) /\ next[i] = rest[n + i]
            BY <3>1, <4>1, <4>4, <4>6
          <6> QED
            BY <5>2, <6>1
        <5>3. ASSUME AllFit(next), NEW i \in 1..Len(rest) PROVE rest[i][3] <= limit
          <6>1. CASE i \in 1..n
            BY <5>1, <6>1
          <6>2. CASE i \notin 1..n
            <7>1. i - n \in 1..Len(next) /\ rest[n + (i - n)] = rest[i] /\ next[i - n] = rest[n + (i - n)]
              BY <3>1, <4>1, <4>4, <4>6, <6>2
            <7>2. next[i - n][3] <= limit
              BY <5>3, <7>1
            <7> QED
              BY <7>1, <7>2
          <6> QED
            BY <6>1, <6>2
        <5> QED
          BY <5>2, <5>3
      <4> DEFINE r == f[k + n]
      <4>10. f[k] = <<head>> \o r
        BY <3>1, <3>3, <3>6
      <4> HIDE DEF r, AllFit
      <4>11. r \in Seq(Seq(S)) /\ r # <<>> /\ Right(r, next)
        BY <4>3 DEF r
      <4>12. <<head>> \in Seq(Seq(S)) /\ Len(<<head>>) = 1 /\ <<head>>[1] = head
        BY <3>2
      <4>13. /\ <<head>> \o r \in Seq(Seq(S)) /\ Len(<<head>> \o r) = 1 + Len(r)
             /\ (<<head>> \o r)[1] = head
             /\ \A i \in 1..Len(r) : (<<head>> \o r)[1 + i] = r[i]
             /\ Len(r) \in Nat /\ Len(r) > 0
        BY <4>11, <4>12
      <4>14. Last(<<head>> \o r) = Last(r)
        <5>1. Len(r) \in 1..Len(r)
          BY <4>13
        <5> QED
          BY <4>13, <5>1 DEF Last
      <4>15. FlattenSeq(<<head>> \o r) = head \o FlattenSeq(r)
        <5> DEFINE one == <<head>>
        <5> HIDE DEF one
        <5>3. one \in Seq(Seq(S))
          BY <4>12 DEF one
        <5>1. FlattenSeq(one \o r) = FlattenSeq(one) \o FlattenSeq(r)
          BY <3>2, <4>11, <5>3, FlattenLaws, Zenon
        <5>2. FlattenSeq(one) = head
          BY <3>2, FlattenOne DEF one
        <5> QED
          BY <5>1, <5>2, Zenon DEF one
      <4>16. (\A i \in 1..Len(r) : TextCells(r[i]) <= limit)
             => \A i \in 1..Len(<<head>> \o r) : TextCells((<<head>> \o r)[i]) <= limit
        <5>1. ASSUME \A i \in 1..Len(r) : TextCells(r[i]) <= limit,
                     NEW i \in 1..(1 + Len(r))
              PROVE  TextCells((<<head>> \o r)[i]) <= limit
          <6>1. CASE i = 1
            BY <3>2, <4>13, <6>1
          <6>2. CASE i # 1
            <7>1. i - 1 \in 1..Len(r) /\ 1 + (i - 1) = i
              BY <4>13, <6>2
            <7>2. (<<head>> \o r)[1 + (i - 1)] = r[i - 1]
              BY <4>13, <7>1, Zenon
            <7> QED
              BY <5>1, <7>1, <7>2
          <6> QED
            BY <6>1, <6>2
        <5> QED
          BY <4>13, <5>1
      <4>17. <<head>> \o r # <<>>
        BY <4>13, EmptySeq
      <4>18. Right(<<head>> \o r, rest)
        BY <4>8, <4>9, <4>11, <4>13, <4>14, <4>15, <4>16, <4>17, Zenon
      <4> QED
        BY <4>10, <4>18 DEF rest
    <3> QED
      BY <3>1, <3>4, <3>5, <3>6
  <2> HIDE DEF Right, N
  <2> QED
    BY <2>1
<1>6. N \in T
  <2> HIDE DEF T, N
  <2> QED
    BY <1>1, <1>3, <1>5, Adding!NatSetInduction
<1>7. N >= 1
  <2>1. CASE N = 0
    <3>1. word = <<>>
      BY <1>1, <2>1, EmptySeq
    <3>2. TextCells(word) = 0
      BY <3>1, TextCellsStep
    <3> QED
      BY <3>2
  <2> QED
    BY <1>1, <2>1
<1>8. Rest(word, 1) = word
  BY <1>1 DEF Rest
<1>9. Right(f[1], word)
  <2>1. 1 \in 1..N /\ N - 1 < N
    BY <1>1, <1>7
  <2> HIDE DEF Right, N
  <2> QED
    BY <1>6, <1>8, <2>1
<1> QED
  BY <1>2, <1>9

-----------------------------------------------------------------------------
(* The cells of a row *)

Prose == Seq(Seq({1, 2}) \ {<<>>})

\* Characters of the i-th word.
CharOf(i) == {i} \X Nat \X {1, 2}

LEMMA WordIs ==
  ASSUME NEW words \in Prose, NEW i \in 1..Len(words)
  PROVE  /\ Word(words, i) \in Seq(CharOf(i)) /\ Word(words, i) \in Text
         /\ Word(words, i) # <<>>
         /\ Head(Word(words, i))[2] = 1
<1>1. words[i] \in Seq({1, 2}) /\ words[i] # <<>> /\ i \in Nat
  BY DEF Prose
<1> DEFINE n == Len(words[i])
<1>2. n \in Nat /\ n # 0 /\ DOMAIN words[i] = 1..n
  BY <1>1, EmptySeq
<1>3. \A j \in 1..n : words[i][j] \in {1, 2}
  BY <1>1
<1>4. Word(words, i) = [j \in 1..n |-> <<i, j, words[i][j]>>]
  BY <1>2 DEF Word
<1> HIDE DEF n
<1>5. Word(words, i) \in [1..n -> CharOf(i)]
  BY <1>2, <1>3, <1>4 DEF CharOf
<1>6. Word(words, i) \in Seq(CharOf(i)) /\ Len(Word(words, i)) = n
  BY <1>2, <1>5
<1>7. Word(words, i) # <<>> /\ Head(Word(words, i)) = Word(words, i)[1]
  BY <1>2, <1>6
<1>8. Word(words, i)[1] = <<i, 1, words[i][1]>>
  BY <1>2, <1>4
<1>9. Word(words, i) \in Text
  <2>1. CharOf(i) \subseteq Char
    BY <1>1 DEF CharOf, Char
  <2> QED
    BY <1>6, <2>1 DEF Text
<1> QED
  BY <1>6, <1>7, <1>8, <1>9

LEMMA CharsAre ==
  ASSUME NEW words \in Prose
  PROVE  /\ Chars(words) \in Seq(Text) /\ Len(Chars(words)) = Len(words)
         /\ \A i \in 1..Len(words) : Chars(words)[i] = Word(words, i)
<1>1. Len(words) \in Nat /\ DOMAIN words = 1..Len(words)
  BY DEF Prose
<1>2. Chars(words) = [i \in 1..Len(words) |-> Word(words, i)]
  BY <1>1 DEF Chars
<1>3. Chars(words) \in [1..Len(words) -> Text]
  BY <1>2, WordIs
<1> QED
  BY <1>1, <1>2, <1>3

LEMMA SpacesFinite ==
  ASSUME NEW line \in Text
  PROVE  IsFiniteSet(Spaces(line)) /\ Cardinality(Spaces(line)) \in Nat
<1>1. Len(line) \in Nat
  BY DEF Text
<1>2. IsFiniteSet(2..Len(line))
  BY <1>1, FS_Interval
<1>3. Spaces(line) \subseteq 2..Len(line)
  BY DEF Spaces
<1>4. IsFiniteSet(Spaces(line))
  BY <1>2, <1>3, FS_Subset
<1> QED
  BY <1>4, FS_CardinalityType

LEMMA LineCellsType ==
  ASSUME NEW line \in Text
  PROVE  LineCells(line) \in Nat
BY SpacesFinite, TextCellsType DEF LineCells

\* A row of one word has no spaces.
LEMMA OneWord ==
  ASSUME NEW i \in Nat, NEW line \in Seq(CharOf(i))
  PROVE  line \in Text /\ LineCells(line) = TextCells(line)
<1>1. line \in Text
  <2>1. CharOf(i) \subseteq Char
    BY DEF CharOf, Char
  <2> QED
    BY <2>1 DEF Text
<1>2. ASSUME NEW k \in 2..Len(line) PROVE line[k][1] = line[k - 1][1]
  <2>1. k \in 1..Len(line) /\ k - 1 \in 1..Len(line)
    OBVIOUS
  <2>2. line[k] \in CharOf(i) /\ line[k - 1] \in CharOf(i)
    BY <2>1
  <2> QED
    BY <2>2 DEF CharOf
<1>3. Spaces(line) = {}
  BY <1>2 DEF Spaces
<1>4. TextCells(line) \in Nat
  BY <1>1, TextCellsType
<1> QED
  BY <1>1, <1>3, <1>4, FS_EmptySet DEF LineCells

\* A word that is joined to a row adds one space at most.
LEMMA JoinedCells ==
  ASSUME NEW line \in Text, NEW i \in Nat, NEW word \in Seq(CharOf(i))
  PROVE  LineCells(line \o word) <= LineCells(line) + 1 + TextCells(word)
<1> DEFINE n == Len(line)
           both == line \o word
<1>1. word \in Text /\ LineCells(word) = TextCells(word) /\ TextCells(word) \in Nat
  BY OneWord, TextCellsType
<1>2. both \in Text /\ n \in Nat /\ Len(both) = n + Len(word) /\ Len(word) \in Nat
  BY <1>1 DEF Text
<1>3. /\ \A k \in 1..n : both[k] = line[k]
      /\ \A k \in 1..Len(word) : both[n + k] = word[k]
  BY <1>1 DEF Text
<1>4. TextCells(both) = TextCells(line) + TextCells(word) /\ TextCells(line) \in Nat
  BY <1>1, TextCellsConcat, TextCellsType
<1> HIDE DEF n, both
<1>5. ASSUME NEW k \in Spaces(both) PROVE k \in Spaces(line) \cup {n + 1}
  <2>1. k \in 2..Len(both) /\ both[k][1] # both[k - 1][1]
    BY <1>5 DEF Spaces
  <2>2. CASE k <= n
    <3>1. both[k] = line[k] /\ both[k - 1] = line[k - 1] /\ k \in 2..Len(line)
      BY <1>2, <1>3, <2>1, <2>2 DEF n
    <3> QED
      BY <2>1, <3>1 DEF Spaces
  <2>3. CASE k > n + 1
    <3>1. k - n \in 1..Len(word) /\ (k - 1) - n \in 1..Len(word)
          /\ n + (k - n) = k /\ n + ((k - 1) - n) = k - 1
      BY <1>2, <2>1, <2>3
    <3>2. both[k] = word[k - n] /\ both[k - 1] = word[(k - 1) - n]
      BY <1>3, <3>1
    <3>3. word[k - n] \in CharOf(i) /\ word[(k - 1) - n] \in CharOf(i)
      BY <3>1
    <3> QED
      BY <2>1, <3>2, <3>3 DEF CharOf
  <2> QED
    BY <1>2, <2>1, <2>2, <2>3
<1>6. IsFiniteSet(Spaces(line)) /\ Cardinality(Spaces(line)) \in Nat
  BY SpacesFinite
<1>7. /\ IsFiniteSet(Spaces(line) \cup {n + 1})
      /\ Cardinality(Spaces(line) \cup {n + 1}) <= Cardinality(Spaces(line)) + 1
      /\ Cardinality(Spaces(line) \cup {n + 1}) \in Nat
  <2> DEFINE A == Spaces(line)
             x == n + 1
  <2>1. IsFiniteSet(A) /\ Cardinality(A) \in Nat
    BY <1>6
  <2> HIDE DEF A, x
  <2>2. /\ IsFiniteSet(A \cup {x})
        /\ Cardinality(A \cup {x}) = IF x \in A THEN Cardinality(A) ELSE Cardinality(A) + 1
    BY <2>1, FS_AddElement
  <2>3. /\ IsFiniteSet(A \cup {x}) /\ Cardinality(A \cup {x}) <= Cardinality(A) + 1
        /\ Cardinality(A \cup {x}) \in Nat
    BY <2>1, <2>2
  <2> QED
    BY <2>3 DEF A, x
<1>8. Cardinality(Spaces(both)) <= Cardinality(Spaces(line) \cup {n + 1})
      /\ Cardinality(Spaces(both)) \in Nat
  <2>1. Spaces(both) \subseteq Spaces(line) \cup {n + 1}
    BY <1>5
  <2> QED
    BY <1>2, <1>7, <2>1, FS_Subset, SpacesFinite
<1>9. LineCells(both) <= LineCells(line) + 1 + TextCells(word)
  BY <1>1, <1>4, <1>6, <1>7, <1>8 DEF LineCells
<1> QED
  BY <1>9 DEF both

-----------------------------------------------------------------------------
(* Prose broken into rows *)

\* A row that is not too wide, and that begins inside a word only if that word
\* is wider than a row.
Sound(words, limit, r) ==
  /\ LineCells(r) <= limit
  /\ r # <<>> /\ Head(r)[2] > 1 => TextCells(Word(words, Head(r)[1])) > limit

AllSound(words, limit, rows) == \A i \in 1..Len(rows) : Sound(words, limit, rows[i])

AllFit(chars, limit) == \A i \in 1..Len(chars) : chars[i][3] <= limit

Wrapping(limit) == [limit : {limit}, out : Seq(Text), line : Text, ends : BOOLEAN]

\* What holds of s once the words whose characters are done are placed.
Placed(words, limit, s, done) ==
  /\ s \in Wrapping(limit)
  /\ s.ends <=> AllFit(done, limit)
  /\ s.ends => FlattenSeq(Flush(s)) = done /\ AllSound(words, limit, Flush(s))

LEMMA FitConcat ==
  ASSUME NEW a \in Text, NEW b \in Text, NEW limit \in Nat
  PROVE  AllFit(a \o b, limit) <=> AllFit(a, limit) /\ AllFit(b, limit)
<1>1. /\ Len(a) \in Nat /\ Len(b) \in Nat /\ Len(a \o b) = Len(a) + Len(b)
      /\ \A i \in 1..Len(a) : (a \o b)[i] = a[i]
      /\ \A i \in 1..Len(b) : (a \o b)[Len(a) + i] = b[i]
  BY DEF Text
<1>2. ASSUME AllFit(a \o b, limit), NEW i \in 1..Len(a) PROVE a[i][3] <= limit
  BY <1>1, <1>2 DEF AllFit
<1>3. ASSUME AllFit(a \o b, limit), NEW i \in 1..Len(b) PROVE b[i][3] <= limit
  <2>1. Len(a) + i \in 1..Len(a \o b)
    BY <1>1
  <2> QED
    BY <1>1, <1>3, <2>1 DEF AllFit
<1>4. ASSUME AllFit(a, limit), AllFit(b, limit), NEW i \in 1..Len(a \o b)
      PROVE  (a \o b)[i][3] <= limit
  <2>1. CASE i \in 1..Len(a)
    BY <1>1, <1>4, <2>1 DEF AllFit
  <2>2. CASE i \notin 1..Len(a)
    <3>1. i - Len(a) \in 1..Len(b) /\ Len(a) + (i - Len(a)) = i
      BY <1>1, <2>2
    <3>2. (a \o b)[i] = b[i - Len(a)]
      BY <1>1, <3>1
    <3> QED
      BY <1>4, <3>1, <3>2 DEF AllFit
  <2> QED
    BY <2>1, <2>2
<1> QED
  BY <1>2, <1>3, <1>4 DEF AllFit

LEMMA SoundConcat ==
  ASSUME NEW words, NEW limit, NEW p \in Seq(Text), NEW q \in Seq(Text),
         AllSound(words, limit, p), AllSound(words, limit, q)
  PROVE  AllSound(words, limit, p \o q)
<1>1. /\ Len(p) \in Nat /\ Len(q) \in Nat /\ Len(p \o q) = Len(p) + Len(q)
      /\ \A i \in 1..Len(p) : (p \o q)[i] = p[i]
      /\ \A i \in 1..Len(q) : (p \o q)[Len(p) + i] = q[i]
  OBVIOUS
<1>2. ASSUME NEW i \in 1..Len(p \o q) PROVE Sound(words, limit, (p \o q)[i])
  <2>1. CASE i \in 1..Len(p)
    BY <1>1, <2>1 DEF AllSound
  <2>2. CASE i \notin 1..Len(p)
    <3>1. i - Len(p) \in 1..Len(q) /\ Len(p) + (i - Len(p)) = i
      BY <1>1, <2>2
    <3>2. (p \o q)[i] = q[i - Len(p)]
      BY <1>1, <3>1
    <3> QED
      BY <3>1, <3>2 DEF AllSound
  <2> QED
    BY <2>1, <2>2
<1> QED
  BY <1>2 DEF AllSound

LEMMA SoundAppend ==
  ASSUME NEW words, NEW limit, NEW p \in Seq(Text), NEW r \in Text,
         AllSound(words, limit, p), Sound(words, limit, r)
  PROVE  AllSound(words, limit, Append(p, r))
BY DEF AllSound

LEMMA FlushIs ==
  ASSUME NEW limit, NEW s \in Wrapping(limit)
  PROVE  /\ Flush(s) \in Seq(Text)
         /\ s.line # <<>> => Flush(s) = Append(s.out, s.line)
         /\ s.line = <<>> => Flush(s) = s.out
BY DEF Flush, Wrapping

\* A character of a text that fits fits.
LEMMA FitOfCells ==
  ASSUME NEW q \in Text, NEW limit \in Nat, TextCells(q) <= limit
  PROVE  AllFit(q, limit)
<1>1. ASSUME NEW i \in 1..Len(q) PROVE q[i][3] <= limit
  <2>1. q[i][3] \in Nat /\ q[i][3] <= TextCells(q) /\ TextCells(q) \in Nat
    BY CharIn DEF Text
  <2> QED
    BY <2>1
<1> QED
  BY <1>1 DEF AllFit

\* A word that has a row to itself, is joined to the row, or is the first of the next.
LEMMA NewRow ==
  ASSUME NEW words \in Prose, NEW i \in 1..Len(words), NEW limit \in Nat,
         NEW out \in Seq(Text), AllSound(words, limit, out),
         TextCells(Word(words, i)) <= limit
  PROVE  /\ FlattenSeq(Append(out, Word(words, i))) = FlattenSeq(out) \o Word(words, i)
         /\ AllSound(words, limit, Append(out, Word(words, i)))
<1>1. /\ Word(words, i) \in Seq(CharOf(i)) /\ Word(words, i) \in Text /\ i \in Nat
      /\ Head(Word(words, i))[2] = 1
  BY WordIs DEF Prose
<1>2. FlattenSeq(Append(out, Word(words, i))) = FlattenSeq(out) \o Word(words, i)
  BY <1>1, FlattenLaws DEF Text
<1>3. Sound(words, limit, Word(words, i))
  BY <1>1, OneWord DEF Sound
<1> QED
  BY <1>1, <1>2, <1>3, SoundAppend

LEMMA PlaceFits ==
  ASSUME NEW words \in Prose, NEW i \in 1..Len(words), NEW limit \in Nat,
         NEW s, NEW done \in Text, Placed(words, limit, s, done), s.ends,
         TextCells(Word(words, i)) <= limit
  PROVE  Placed(words, limit, Place(s, Word(words, i)), done \o Word(words, i))
<1> DEFINE word == Word(words, i)
           t    == Place(s, word)
<1>1. /\ word \in Seq(CharOf(i)) /\ word \in Text /\ word # <<>> /\ i \in Nat
      /\ TextCells(word) \in Nat
  BY WordIs, TextCellsType DEF Prose
<1>2. /\ s \in Wrapping(limit) /\ s.limit = limit /\ s.out \in Seq(Text) /\ s.line \in Text
      /\ AllFit(done, limit) /\ FlattenSeq(Flush(s)) = done
      /\ AllSound(words, limit, Flush(s)) /\ Flush(s) \in Seq(Text)
  BY FlushIs DEF Placed, Wrapping
<1>3. AllFit(done \o word, limit)
  BY <1>1, <1>2, FitConcat, FitOfCells
<1>4. ~(TextCells(word) > limit)
  BY <1>1
<1>5. t = IF s.line = <<>> THEN [s EXCEPT !.line = word]
          ELSE IF Joins(s.line, word, limit) THEN [s EXCEPT !.line = @ \o word]
          ELSE [s EXCEPT !.out = Flush(s), !.line = word]
  BY <1>2, <1>4 DEF Place
<1> HIDE DEF word, t
<1>6. ASSUME t \in Wrapping(limit), t.ends, NEW out \in Seq(Text), NEW line \in Text,
             t.out = out, t.line = line, line # <<>>,
             FlattenSeq(Append(out, line)) = done \o word,
             AllSound(words, limit, Append(out, line))
      PROVE  Placed(words, limit, t, done \o word)
  <2>1. Flush(t) = Append(out, line)
    BY <1>6, FlushIs
  <2> QED
    BY <1>3, <1>6, <2>1 DEF Placed
<1>7. ASSUME s.line = <<>> PROVE Placed(words, limit, t, done \o word)
  <2>1. t = [s EXCEPT !.line = word]
    BY <1>5, <1>7
  <2>2. t \in Wrapping(limit) /\ t.ends /\ t.out = s.out /\ t.line = word
    BY <1>1, <1>2, <2>1 DEF Wrapping
  <2>3. FlattenSeq(s.out) = done /\ AllSound(words, limit, s.out)
    BY <1>2, <1>7, FlushIs
  <2>4. FlattenSeq(Append(s.out, word)) = FlattenSeq(s.out) \o word
        /\ AllSound(words, limit, Append(s.out, word))
    BY <1>2, <2>3, NewRow DEF word
  <2> QED
    BY <1>1, <1>2, <1>6, <2>2, <2>3, <2>4
<1>8. ASSUME s.line # <<>>, Joins(s.line, word, limit)
      PROVE  Placed(words, limit, t, done \o word)
  <2> DEFINE line == s.line \o word
  <2>1. t = [s EXCEPT !.line = line]
    BY <1>5, <1>8
  <2>2. line \in Text /\ line # <<>> /\ Head(line) = Head(s.line)
    BY <1>1, <1>2, <1>8 DEF Text
  <2> HIDE DEF line
  <2>3. t \in Wrapping(limit) /\ t.ends /\ t.out = s.out /\ t.line = line
    BY <1>2, <2>1, <2>2 DEF Wrapping
  <2>4. Flush(s) = Append(s.out, s.line)
    BY <1>2, <1>8, FlushIs
  <2>5. FlattenSeq(Append(s.out, line)) = done \o word
    <3>1. FlattenSeq(Append(s.out, line)) = FlattenSeq(s.out) \o line
      BY <1>2, <2>2, FlattenLaws DEF Text
    <3>2. FlattenSeq(Append(s.out, s.line)) = FlattenSeq(s.out) \o s.line
          /\ FlattenSeq(s.out) \in Text
      BY <1>2, FlattenLaws DEF Text
    <3>3. (FlattenSeq(s.out) \o s.line) \o word = FlattenSeq(s.out) \o (s.line \o word)
      <4> DEFINE a == FlattenSeq(s.out)
                 b == s.line
      <4>1. a \in Seq(Char) /\ b \in Seq(Char) /\ word \in Seq(Char)
        BY <1>1, <1>2, <3>2 DEF Text
      <4> HIDE DEF a, b, word
      <4>2. \A x, y, z \in Seq(Char) : (x \o y) \o z = x \o (y \o z)
        BY ConcatAssociative
      <4>3. (a \o b) \o word = a \o (b \o word)
        BY <4>1, <4>2, Zenon
      <4> QED
        BY <4>3 DEF a, b
    <3> QED
      BY <1>2, <2>4, <3>1, <3>2, <3>3 DEF line
  <2>6. Sound(words, limit, line)
    <3>1. LineCells(line) <= LineCells(s.line) + 1 + TextCells(word)
      BY <1>1, <1>2, JoinedCells DEF line
    <3>2. LineCells(line) <= limit
      <4>1. LineCells(line) \in Nat /\ LineCells(s.line) \in Nat
        BY <1>2, <2>2, LineCellsType
      <4> QED
        BY <1>1, <1>8, <3>1, <4>1 DEF Joins
    <3>3. Sound(words, limit, s.line)
      <4>1. Append(s.out, s.line)[Len(s.out) + 1] = s.line
            /\ Len(s.out) + 1 \in 1..Len(Append(s.out, s.line))
        BY <1>2
      <4> QED
        BY <1>2, <2>4, <4>1 DEF AllSound
    <3> QED
      BY <1>8, <2>2, <3>2, <3>3 DEF Sound
  <2>7. AllSound(words, limit, Append(s.out, line))
    <3>1. AllSound(words, limit, s.out)
      <4>1. ASSUME NEW k \in 1..Len(s.out) PROVE Sound(words, limit, s.out[k])
        <5>1. k \in 1..Len(Append(s.out, s.line)) /\ Append(s.out, s.line)[k] = s.out[k]
          BY <1>2
        <5> QED
          BY <1>2, <2>4, <5>1 DEF AllSound
      <4> QED
        BY <4>1 DEF AllSound
    <3> QED
      BY <1>2, <2>2, <2>6, <3>1, SoundAppend
  <2> QED
    BY <1>2, <1>6, <2>2, <2>3, <2>5, <2>7
<1>9. ASSUME s.line # <<>>, ~Joins(s.line, word, limit)
      PROVE  Placed(words, limit, t, done \o word)
  <2>1. t = [s EXCEPT !.out = Flush(s), !.line = word]
    BY <1>5, <1>9
  <2>2. t \in Wrapping(limit) /\ t.ends /\ t.out = Flush(s) /\ t.line = word
    BY <1>1, <1>2, <2>1 DEF Wrapping
  <2>3. FlattenSeq(Append(Flush(s), word)) = FlattenSeq(Flush(s)) \o word
        /\ AllSound(words, limit, Append(Flush(s), word))
    BY <1>2, NewRow DEF word
  <2> QED
    BY <1>1, <1>2, <1>6, <2>2, <2>3
<1> QED
  BY <1>7, <1>8, <1>9 DEF t, word

\* A word that is wider than a row.
LEMMA PlaceBreaks ==
  ASSUME NEW words \in Prose, NEW i \in 1..Len(words), NEW limit \in Nat,
         NEW s, NEW done \in Text, Placed(words, limit, s, done), s.ends,
         TextCells(Word(words, i)) > limit
  PROVE  Placed(words, limit, Place(s, Word(words, i)), done \o Word(words, i))
<1> DEFINE word == Word(words, i)
           t    == Place(s, word)
           rows == Broken(word, limit)
<1>1. /\ word \in Seq(CharOf(i)) /\ word \in Text /\ i \in Nat
      /\ CharOf(i) \in SUBSET Char
  <2>1. i \in Nat
    BY DEF Prose
  <2> QED
    BY <2>1, WordIs DEF Char, CharOf
<1>2. /\ s \in Wrapping(limit) /\ s.limit = limit /\ s.out \in Seq(Text) /\ s.line \in Text
      /\ AllFit(done, limit) /\ FlattenSeq(Flush(s)) = done
      /\ AllSound(words, limit, Flush(s)) /\ Flush(s) \in Seq(Text)
  BY FlushIs DEF Placed, Wrapping
<1>3. t = [s EXCEPT !.out = Flush(s) \o Front(rows), !.line = Last(rows),
                    !.ends = Last(rows) # Endless]
  BY <1>2 DEF Place
<1>4. /\ rows \in Seq(Seq(CharOf(i))) /\ rows # <<>>
      /\ Last(rows) # <<>> <=> AllFit(word, limit)
      /\ Last(rows) # <<>> =>
           /\ FlattenSeq(rows) = word
           /\ \A k \in 1..Len(rows) : TextCells(rows[k]) <= limit
  BY <1>1, BrokenIs DEF AllFit
<1> HIDE DEF word, t, rows
<1>5. rows \in Seq(Text) /\ rows = Append(Front(rows), Last(rows))
      /\ Front(rows) \in Seq(Text) /\ Last(rows) \in Text
  <2>1. \A q \in Seq(CharOf(i)) : q \in Text
    BY <1>1 DEF Text
  <2>2. Len(rows) \in Nat /\ Len(rows) # 0 /\ \A k \in 1..Len(rows) : rows[k] \in Text
    <3>1. Len(rows) \in Nat /\ Len(rows) # 0
      BY <1>4, EmptySeq
    <3>2. \A k \in 1..Len(rows) : rows[k] \in Seq(CharOf(i))
      BY <1>4
    <3> QED
      BY <2>1, <3>1, <3>2
  <2>3. rows = [k \in 1..Len(rows) |-> rows[k]]
    BY <1>4
  <2>4. rows \in Seq(Text)
    BY <2>2, <2>3
  <2> QED
    BY <2>2, <2>4 DEF Front, Last
<1>6. t \in Wrapping(limit) /\ t.out = Flush(s) \o Front(rows) /\ t.line = Last(rows)
      /\ t.ends = (Last(rows) # <<>>)
  <2> DEFINE a == Flush(s) \o Front(rows)
             b == Last(rows)
             e == (Last(rows) # Endless)
  <2>1. a \in Seq(Text) /\ b \in Text /\ e \in BOOLEAN
    BY <1>2, <1>5
  <2>2. t = [s EXCEPT !.out = a, !.line = b, !.ends = e]
    BY <1>3
  <2>3. e = (b # <<>>)
    BY DEF Endless
  <2> HIDE DEF a, b, e
  <2>4. t \in Wrapping(limit) /\ t.out = a /\ t.line = b /\ t.ends = e
    BY <1>2, <2>1, <2>2 DEF Wrapping
  <2> QED
    BY <2>3, <2>4 DEF a, b
<1>7. t.ends <=> AllFit(done \o word, limit)
  BY <1>1, <1>2, <1>4, <1>6, FitConcat
<1>8. ASSUME t.ends
      PROVE  FlattenSeq(Flush(t)) = done \o word /\ AllSound(words, limit, Flush(t))
  <2>1. Last(rows) # <<>>
    BY <1>6, <1>8
  <2>2. Flush(t) = Append(Flush(s) \o Front(rows), Last(rows))
    BY <1>6, <2>1, FlushIs
  <2>3. Append(Flush(s) \o Front(rows), Last(rows)) = Flush(s) \o Append(Front(rows), Last(rows))
    <3> DEFINE a == Flush(s)
               b == Front(rows)
               c == Last(rows)
    <3>1. a \in Seq(Text) /\ b \in Seq(Text) /\ c \in Text
      BY <1>2, <1>5
    <3> HIDE DEF a, b, c
    <3>2. Append(a \o b, c) = a \o Append(b, c)
      BY <3>1
    <3> QED
      BY <3>2 DEF a, b, c
  <2>4. Flush(t) = Flush(s) \o rows
    BY <1>5, <2>2, <2>3, Zenon
  <2>5. FlattenSeq(Flush(s) \o rows) = FlattenSeq(Flush(s)) \o FlattenSeq(rows)
    BY <1>1, <1>2, <1>5, FlattenLaws DEF Text
  <2>6. AllSound(words, limit, rows)
    <3>1. ASSUME NEW k \in 1..Len(rows) PROVE Sound(words, limit, rows[k])
      <4>1. rows[k] \in Seq(CharOf(i)) /\ TextCells(rows[k]) <= limit
        BY <1>4, <2>1
      <4>2. LineCells(rows[k]) <= limit
        BY <1>1, <4>1, OneWord
      <4>3. ASSUME rows[k] # <<>> PROVE Head(rows[k])[1] = i
        <5>1. Head(rows[k]) \in CharOf(i)
          BY <4>1, <4>3
        <5> QED
          BY <5>1 DEF CharOf
      <4> QED
        BY <4>2, <4>3 DEF Sound, word
    <3> QED
      BY <3>1 DEF AllSound
  <2>7. FlattenSeq(Flush(t)) = done \o word
    BY <1>2, <1>4, <2>1, <2>4, <2>5
  <2> QED
    BY <1>2, <1>5, <2>4, <2>6, <2>7, SoundConcat
<1>9. Placed(words, limit, t, done \o word)
  BY <1>6, <1>7, <1>8 DEF Placed
<1> QED
  BY <1>9 DEF t, word

LEMMA PlaceKeeps ==
  ASSUME NEW words \in Prose, NEW i \in 1..Len(words), NEW limit \in Nat,
         NEW s, NEW done \in Text, Placed(words, limit, s, done)
  PROVE  Placed(words, limit, Place(s, Word(words, i)), done \o Word(words, i))
<1>1. Word(words, i) \in Text /\ TextCells(Word(words, i)) \in Nat
  BY WordIs, TextCellsType
<1>2. CASE ~s.ends
  <2>1. Place(s, Word(words, i)) = s
    BY <1>2 DEF Place
  <2>2. ~AllFit(done \o Word(words, i), limit)
    BY <1>1, <1>2, FitConcat DEF Placed
  <2> QED
    BY <1>2, <2>1, <2>2 DEF Placed
<1>3. CASE s.ends /\ TextCells(Word(words, i)) <= limit
  BY <1>3, PlaceFits
<1>4. CASE s.ends /\ TextCells(Word(words, i)) > limit
  BY <1>4, PlaceBreaks
<1> QED
  BY <1>1, <1>2, <1>3, <1>4

Filling == INSTANCE Folding WITH Op <- Place

LEMMA WrapIsFold ==
  ASSUME NEW base, NEW q
  PROVE  FoldLeft(Place, base, q) = Filling!Fold(base, q)
BY DEF Filling!Fold, Filling!FoldLeft, FoldLeft, Filling!MapThenFoldSet, MapThenFoldSet,
       Filling!Max, Max

LEMMA AllPlaced ==
  ASSUME NEW words \in Prose, NEW limit \in Nat
  PROVE  Placed(words, limit, FoldLeft(Place, Unwrapped(limit), Chars(words)), AllOf(words))
<1> DEFINE cs == Chars(words)
           n  == Len(words)
           upto(m) == SubSeq(cs, 1, m)
           s(m)    == Filling!Fold(Unwrapped(limit), upto(m))
           T == {m \in Nat : m <= n => Placed(words, limit, s(m), FlattenSeq(upto(m)))}
<1>1. /\ n \in Nat /\ cs \in Seq(Text) /\ Len(cs) = n
      /\ \A i \in 1..n : cs[i] = Word(words, i)
  BY CharsAre DEF Prose
<1> HIDE DEF cs, n
<1>2. 0 \in T
  <2>1. upto(0) = <<>>
    BY <1>1
  <2>2. s(0) = Unwrapped(limit) /\ FlattenSeq(upto(0)) = <<>>
    BY <2>1, Filling!FoldEmpty, FlattenIs, Adding!FlattenEmpty
  <2>3. Unwrapped(limit) \in Wrapping(limit) /\ Flush(Unwrapped(limit)) = <<>>
        /\ Unwrapped(limit).ends
    BY DEF Unwrapped, Wrapping, Flush, Text
  <2>4. AllFit(<<>>, limit) /\ AllSound(words, limit, <<>>)
    BY DEF AllFit, AllSound
  <2>5. FlattenSeq(<<>>) = <<>>
    BY FlattenIs, Adding!FlattenEmpty
  <2>6. Placed(words, limit, Unwrapped(limit), <<>>)
    BY <2>3, <2>4, <2>5 DEF Placed
  <2> QED
    BY <2>2, <2>6
<1>3. ASSUME NEW m \in Nat, m \in T PROVE m + 1 \in T
  <2>1. CASE m + 1 <= n
    <3>1. /\ m + 1 \in 1..n /\ cs[m + 1] \in Text /\ upto(m) \in Seq(Text)
          /\ upto(m + 1) = Append(upto(m), cs[m + 1])
      <4>1. m + 1 \in 1..n /\ 1 \in 1..Len(cs) /\ m \in (1 - 1)..(Len(cs) - 1)
        BY <1>1, <2>1
      <4> QED
        BY <1>1, <4>1, Longer
    <3>2. Placed(words, limit, s(m), FlattenSeq(upto(m)))
      BY <1>3, <2>1, <1>1
    <3> HIDE DEF upto
    <3>3. /\ FlattenSeq(upto(m)) \in Text
          /\ FlattenSeq(upto(m + 1)) = FlattenSeq(upto(m)) \o cs[m + 1]
      BY <3>1, FlattenLaws DEF Text
    <3>4. s(m + 1) = Place(s(m), cs[m + 1])
      BY <3>1, Filling!FoldAppend
    <3> HIDE DEF s
    <3>5. Placed(words, limit, Place(s(m), Word(words, m + 1)),
                 FlattenSeq(upto(m)) \o Word(words, m + 1))
      BY <3>1, <3>2, <3>3, PlaceKeeps DEF n
    <3>6. Placed(words, limit, s(m + 1), FlattenSeq(upto(m + 1)))
      BY <1>1, <3>1, <3>3, <3>4, <3>5
    <3> QED
      BY <3>6
  <2>2. CASE ~(m + 1 <= n)
    BY <2>2
  <2> QED
    BY <2>1, <2>2
<1>4. n \in T
  <2> HIDE DEF T
  <2> QED
    BY <1>1, <1>2, <1>3, Filling!NatSetInduction
<1>5. upto(n) = cs
  BY <1>1
<1>6. Placed(words, limit, Filling!Fold(Unwrapped(limit), cs), FlattenSeq(cs))
  <2> HIDE DEF upto
  <2> QED
    BY <1>1, <1>4, <1>5
<1> QED
  BY <1>6, WrapIsFold DEF AllOf, cs

\* What wrapText does with any prose in any width.
LEMMA WrapIs ==
  ASSUME NEW words \in Prose, NEW limit \in Nat \ {0}
  PROVE  /\ wrapText(words, limit).rows \in Seq(Text)
         /\ wrapText(words, limit).ends <=> AllFit(AllOf(words), limit)
         /\ wrapText(words, limit).ends =>
              /\ FlattenSeq(wrapText(words, limit).rows) = AllOf(words)
              /\ AllSound(words, limit, wrapText(words, limit).rows)
<1>1. CASE words = <<>>
  <2>1. wrapText(words, limit) = [rows |-> << <<>> >>, ends |-> TRUE]
    BY <1>1 DEF wrapText
  <2>2. Chars(words) = <<>>
    BY <1>1, CharsAre, EmptySeq
  <2>3. AllOf(words) = <<>>
    BY <2>2, FlattenIs, Adding!FlattenEmpty DEF AllOf
  <2>4. FlattenSeq(<< <<>> >>) = <<>> /\ << <<>> >> \in Seq(Text) /\ <<>> \in Text
    <3> DEFINE e == <<>>
    <3>1. e \in Seq(Char) /\ e \in Text
      BY DEF Text
    <3> HIDE DEF e
    <3>2. FlattenSeq(<<e>>) = e
      BY <3>1, FlattenOne
    <3>3. <<e>> \in Seq(Text)
      BY <3>1
    <3> QED
      BY <3>1, <3>2, <3>3 DEF e
  <2>5. LineCells(<<>>) = 0
    <3> DEFINE e == <<>>
    <3>1. e \in Seq(CharOf(0)) /\ TextCells(e) = 0
      BY TextCellsStep
    <3> HIDE DEF e
    <3>2. LineCells(e) = TextCells(e)
      BY <3>1, OneWord
    <3> QED
      BY <3>1, <3>2 DEF e
  <2>6. AllSound(words, limit, << <<>> >>)
    BY <2>5 DEF AllSound, Sound
  <2>7. AllFit(<<>>, limit)
    BY DEF AllFit
  <2> QED
    BY <2>1, <2>3, <2>4, <2>6, <2>7
<1>2. CASE words # <<>>
  <2> DEFINE s == FoldLeft(Place, Unwrapped(limit), Chars(words))
  <2>1. ~(limit <= 0 \/ words = <<>>)
    BY <1>2
  <2>2. wrapText(words, limit) = [rows |-> Flush(s), ends |-> s.ends]
    BY <2>1 DEF wrapText
  <2>3. Placed(words, limit, s, AllOf(words))
    BY AllPlaced
  <2> HIDE DEF s
  <2>4. Flush(s) \in Seq(Text)
    BY <2>3, FlushIs DEF Placed
  <2> QED
    BY <2>2, <2>3, <2>4 DEF Placed
<1> QED
  BY <1>1, <1>2

\* Whatever the text and the terminal, wrapping loses, repeats and reorders no
\* character, fills no row over its width, and breaks a word only where it must
\* (block.go:151-215).
LEMMA WrapKeeps ==
  ASSUME screen \in Screens, layout \in [cols : Nat, height : Nat]
  PROVE  WrapKeepsTheText
<1> SUFFICES ASSUME NEW b \in ToSet(screen.blocks), NEW l \in ToSet(b.lines),
                    TranscriptWidth(layout.cols) - Gutter > 0
             PROVE  LET avail   == TranscriptWidth(layout.cols) - Gutter
                        wrapped == wrapText(l.words, avail)
                    IN  /\ wrapped.ends <=> \A c \in ToSet(AllOf(l.words)) : c[3] <= avail
                        /\ wrapped.ends =>
                             /\ FlattenSeq(wrapped.rows) = AllOf(l.words)
                             /\ \A r \in ToSet(wrapped.rows) : r # <<>> =>
                                  /\ LineCells(r) <= avail
                                  /\ Head(r)[2] > 1 =>
                                       TextCells(Word(l.words, Head(r)[1])) > avail
  BY DEF WrapKeepsTheText
<1> DEFINE avail   == TranscriptWidth(layout.cols) - Gutter
           wrapped == wrapText(l.words, avail)
<1>1. avail \in Nat \ {0}
  BY DEF TranscriptWidth, RailWidth, RailHideBelow, Larger, Gutter
<1>2. l.words \in Prose
  <2>1. screen \in Screen
    BY ScreenAssumption
  <2> DEFINE R == [tag : Nat, meta : Nat, lines : Seq(TextLine)]
  <2>2. screen.blocks \in Seq(R)
    BY <2>1 DEF Screen
  <2>3. b \in R
    <3>1. PICK i \in DOMAIN screen.blocks : b = screen.blocks[i]
      BY DEF ToSet
    <3> HIDE DEF R
    <3> QED
      BY <2>2, <3>1
  <2>4. b.lines \in Seq(TextLine)
    BY <2>3
  <2>5. l \in TextLine
    <3>1. PICK i \in DOMAIN b.lines : l = b.lines[i]
      BY DEF ToSet
    <3> QED
      BY <2>4, <3>1
  <2> QED
    BY <2>5 DEF TextLine, Prose
<1> HIDE DEF avail
<1>3. /\ wrapped.rows \in Seq(Text)
      /\ wrapped.ends <=> AllFit(AllOf(l.words), avail)
      /\ wrapped.ends => /\ FlattenSeq(wrapped.rows) = AllOf(l.words)
                         /\ AllSound(l.words, avail, wrapped.rows)
  BY <1>1, <1>2, WrapIs
<1>4. AllOf(l.words) \in Text
  <2>1. Chars(l.words) \in Seq(Text)
    BY <1>2, CharsAre
  <2> QED
    BY <2>1, FlattenIs, Adding!FlattenType DEF AllOf, Text
<1> HIDE DEF wrapped
<1>5. AllFit(AllOf(l.words), avail) <=> \A c \in ToSet(AllOf(l.words)) : c[3] <= avail
  <2>1. DOMAIN AllOf(l.words) = 1..Len(AllOf(l.words))
    BY <1>4 DEF Text
  <2> QED
    BY <2>1 DEF AllFit, ToSet
<1>6. AllSound(l.words, avail, wrapped.rows)
      => \A r \in ToSet(wrapped.rows) : Sound(l.words, avail, r)
  <2>1. DOMAIN wrapped.rows = 1..Len(wrapped.rows)
    BY <1>3
  <2> QED
    BY <2>1 DEF AllSound, ToSet
<1>7. /\ wrapped.ends <=> \A c \in ToSet(AllOf(l.words)) : c[3] <= avail
      /\ wrapped.ends =>
           /\ FlattenSeq(wrapped.rows) = AllOf(l.words)
           /\ \A r \in ToSet(wrapped.rows) : r # <<>> =>
                /\ LineCells(r) <= avail
                /\ Head(r)[2] > 1 => TextCells(Word(l.words, Head(r)[1])) > avail
  BY <1>3, <1>5, <1>6 DEF Sound
<1> QED
  BY <1>7 DEF wrapped, avail

-----------------------------------------------------------------------------
(* The rows of a block *)

LEMMA IndentedFills ==
  ASSUME NEW texts \in Seq(Text), NEW l \in TextLine, NEW inner \in Nat
  PROVE  Indented(texts, l, inner) \in Seq(Full(inner))
<1> DEFINE indent == Indent(l, inner)
<1>1. indent \in Nat /\ inner - indent \in Nat
  BY DEF Indent, TextLine, boxPad
<1> HIDE DEF indent
<1>2. ASSUME NEW i \in 1..Len(texts)
      PROVE  Row(indent, fit(LineCells(texts[i]), inner - indent), 0) \in Full(inner)
  <2>1. texts[i] \in Text /\ LineCells(texts[i]) \in Nat
    BY LineCellsType
  <2>2. fit(LineCells(texts[i]), inner - indent) = inner - indent
    BY <1>1, <2>1, FitFills
  <2>3. Row(indent, inner - indent, 0) \in Full(indent + (inner - indent) + 0)
    BY <1>1, RowCells
  <2>4. indent + (inner - indent) + 0 = inner
    BY <1>1
  <2> QED
    BY <2>2, <2>3, <2>4
<1>3. Indented(texts, l, inner)
      = [i \in 1..Len(texts) |-> Row(indent, fit(LineCells(texts[i]), inner - indent), 0)]
  <2>1. DOMAIN texts = 1..Len(texts)
    OBVIOUS
  <2> QED
    BY <2>1 DEF Indented, indent
<1>4. Indented(texts, l, inner) \in [1..Len(texts) -> Full(inner)]
  <2> DEFINE t(i) == Row(indent, fit(LineCells(texts[i]), inner - indent), 0)
  <2>1. \A i \in 1..Len(texts) : t(i) \in Full(inner)
    BY <1>2
  <2>2. Indented(texts, l, inner) = [i \in 1..Len(texts) |-> t(i)]
    BY <1>3
  <2> HIDE DEF t
  <2> QED
    BY <2>1, <2>2
<1>5. Len(texts) \in Nat
  OBVIOUS
<1> QED
  BY <1>4, <1>5, SeqDef

LEMMA RowFills ==
  ASSUME NEW l \in TextLine, NEW inner \in Nat
  PROVE  row(l, inner) \in Seq(Full(inner))
<1>1. l.words \in Prose /\ l.wrap \in BOOLEAN
  BY DEF TextLine, Prose
<1>2. AllOf(l.words) \in Text
  <2>1. Chars(l.words) \in Seq(Text)
    BY <1>1, CharsAre
  <2> QED
    BY <2>1, FlattenIs, Adding!FlattenType DEF AllOf, Text
<1>3. <<AllOf(l.words)>> \in Seq(Text)
  BY <1>2
<1> DEFINE avail == inner - Indent(l, inner)
<1>4. avail \in Nat
  BY DEF Indent, TextLine, boxPad
<1> HIDE DEF avail
<1>5. wrapText(l.words, avail).rows \in Seq(Text)
  <2>1. CASE avail = 0
    <3>1. wrapText(l.words, avail).rows = << <<>> >>
      BY <2>1 DEF wrapText
    <3> QED
      BY <3>1 DEF Text
  <2>2. CASE avail # 0
    BY <1>1, <1>4, <2>2, WrapIs
  <2> QED
    BY <2>1, <2>2
<1> DEFINE texts == IF l.wrap THEN wrapText(l.words, avail).rows ELSE <<AllOf(l.words)>>
<1>6. texts \in Seq(Text)
  BY <1>3, <1>5
<1>7. row(l, inner) = Indented(texts, l, inner)
  BY DEF row, avail
<1> HIDE DEF texts
<1> QED
  BY <1>6, <1>7, IndentedFills

LEMMA BlockHeaderFills ==
  ASSUME NEW b \in [tag : Nat, meta : Nat, lines : Seq(TextLine)], NEW inner \in Nat
  PROVE  header(b, inner) \in Full(inner)
<1>1. b.tag \in Nat /\ b.meta \in Nat
  OBVIOUS
<1>2. CASE b.meta = 0 \/ b.tag + tagGap >= inner
  BY <1>1, <1>2, FitFills DEF header, Row, Full, Cells
<1>3. CASE ~(b.meta = 0 \/ b.tag + tagGap >= inner)
  <2>1. inner - b.tag - tagGap \in Nat /\ tagGap \in Nat
        /\ fit(b.meta, inner - b.tag - tagGap) = inner - b.tag - tagGap
    BY <1>1, <1>3, FitFills DEF tagGap
  <2> QED
    BY <1>1, <1>3, <2>1 DEF header, Row, Full, Cells
<1> QED
  BY <1>2, <1>3

\* A block in a column fills every row it takes.
LEMMA BarFits ==
  ASSUME NEW inner \in Nat, NEW r \in Full(inner)
  PROVE  [r EXCEPT !.left = @ + Gutter] \in Full(inner + Gutter)
<1>1. /\ r \in [left : Nat, middle : Nat, right : Nat]
      /\ r.left + r.middle + r.right = inner
  BY DEF Full, Cells
<1> DEFINE q == [r EXCEPT !.left = r.left + Gutter]
<1>2. /\ q \in [left : Nat, middle : Nat, right : Nat]
      /\ q.left = r.left + Gutter /\ q.middle = r.middle /\ q.right = r.right
  BY <1>1 DEF Gutter
<1> HIDE DEF q
<1>3. Cells(q) = inner + Gutter
  BY <1>1, <1>2 DEF Cells, Gutter
<1>4. q \in Full(inner + Gutter)
  BY <1>2, <1>3 DEF Full
<1> QED
  BY <1>4 DEF q

LEMMA BlockFills ==
  ASSUME NEW b \in [tag : Nat, meta : Nat, lines : Seq(TextLine)], NEW width \in Nat
  PROVE  Render(b, width) \in Seq(Full(width))
<1>1. CASE width <= Gutter
  BY <1>1 DEF Render
<1>2. CASE ~(width <= Gutter)
  <2> DEFINE inner == width - Gutter
             F     == Full(inner)
             body  == [i \in DOMAIN b.lines |-> row(b.lines[i], inner)]
             rows  == <<header(b, inner)>> \o FlattenSeq(body)
  <2>1. inner \in Nat /\ inner + Gutter = width
    BY <1>2 DEF Gutter
  <2> HIDE DEF inner
  <2>2. body \in Seq(Seq(F))
    <3>1. b.lines \in Seq(TextLine) /\ Len(b.lines) \in Nat /\ DOMAIN b.lines = 1..Len(b.lines)
      OBVIOUS
    <3>2. \A i \in 1..Len(b.lines) : row(b.lines[i], inner) \in Seq(F)
      BY <2>1, <3>1, RowFills, ElementOfSeq
    <3> HIDE DEF F
    <3>3. body \in [1..Len(b.lines) -> Seq(F)]
      BY <3>1, <3>2
    <3> QED
      BY <3>1, <3>3, SeqDef
  <2> HIDE DEF body
  <2>3. FlattenSeq(body) \in Seq(F) /\ <<header(b, inner)>> \in Seq(F)
    <3>1. header(b, inner) \in F
      BY <2>1, BlockHeaderFills
    <3> HIDE DEF F
    <3>2. <<header(b, inner)>> \in Seq(F)
      BY <3>1
    <3> QED
      BY <2>2, <3>2, FlattenIs, Adding!FlattenType
  <2>4. rows \in Seq(F)
    <3> HIDE DEF F
    <3> QED
      BY <2>3
  <2> HIDE DEF rows
  <2>5. Barred(rows) \in Seq(Full(width))
    <3>1. Len(rows) \in Nat /\ DOMAIN rows = 1..Len(rows) /\ \A i \in 1..Len(rows) : rows[i] \in F
      <4> HIDE DEF F
      <4> QED
        BY <2>4
    <3>2. \A r \in F : [r EXCEPT !.left = @ + Gutter] \in Full(width)
      BY <2>1, BarFits
    <3> HIDE DEF F
    <3>3. Barred(rows) \in [1..Len(rows) -> Full(width)]
      BY <3>1, <3>2 DEF Barred
    <3> QED
      BY <3>1, <3>3, SeqDef
  <2>6. Render(b, width) = Barred(rows)
    BY <1>2 DEF Render, rows, body, inner
  <2> QED
    BY <2>5, <2>6
<1> QED
  BY <1>1, <1>2

-----------------------------------------------------------------------------
(* The rows the pane shows *)

Taking == INSTANCE Folding WITH Op <- Pane!Take

Tallying == INSTANCE Folding WITH Op <- Pane!AddRows

\* The places of a transcript's rows, and the row between two blocks.
Places(blocks) ==
  {p \in Nat \X Nat : p[1] \in 1..Len(blocks) /\ p[2] \in 1..blocks[p[1]]} \cup {<<0, 0>>}

\* What the walk has collected: never more rows than it needs.
Taken(rows, need) == {r \in [need : {need}, rows : Seq(rows)] : Len(r.rows) <= need}

LEMMA WalkIsFold ==
  ASSUME NEW base, NEW q
  PROVE  Pane!FoldLeft(Pane!Take, base, q) = Taking!Fold(base, q)
BY DEF Taking!Fold, Taking!FoldLeft, Pane!FoldLeft, Taking!MapThenFoldSet,
       Pane!MapThenFoldSet, Taking!Max, Pane!Max

LEMMA TallyIsFold ==
  ASSUME NEW base, NEW q
  PROVE  Pane!FoldLeft(Pane!AddRows, base, q) = Tallying!Fold(base, q)
BY DEF Tallying!Fold, Tallying!FoldLeft, Pane!FoldLeft, Tallying!MapThenFoldSet,
       Pane!MapThenFoldSet, Tallying!Max, Pane!Max

LEMMA LinesType ==
  ASSUME NEW blocks \in Seq(Nat), NEW gap \in Nat
  PROVE  Pane!Lines(blocks, gap) \in Nat
<1>1. 0 \in Nat /\ \A n \in Nat, rows \in Nat : Pane!AddRows(n, rows) \in Nat
  BY DEF Pane!AddRows
<1>2. Tallying!Fold(0, blocks) \in Nat
  BY <1>1, Tallying!FoldType
<1>3. Len(blocks) > 1 => gap * (Len(blocks) - 1) \in Nat
  OBVIOUS
<1> QED
  BY <1>2, <1>3, TallyIsFold DEF Pane!Lines

\* Scrolling is clamped to what there is.
LEMMA ClampType ==
  ASSUME NEW wanted \in Int, NEW n \in Nat, NEW height \in Nat
  PROVE  Pane!Clamp(wanted, n, height) \in Nat
BY DEF Pane!Clamp, Pane!MaxScroll, Pane!Smaller, Pane!Larger

LEMMA BlanksType ==
  ASSUME NEW P, <<0, 0>> \in P, NEW n \in Nat
  PROVE  Pane!Blanks(n) \in Seq(P) /\ Len(Pane!Blanks(n)) = n
BY DEF Pane!Blanks

LEMMA UpwardsType ==
  ASSUME NEW blocks \in Seq(Nat), NEW gap \in Nat, NEW i \in 1..Len(blocks)
  PROVE  Pane!Upwards(i, blocks[i], gap) \in Seq(Places(blocks))
<1> DEFINE P == Places(blocks)
           n == blocks[i]
           own == [j \in 1..n |-> <<i, n + 1 - j>>]
           k == IF i = 1 THEN 0 ELSE gap
<1>1. n \in Nat /\ i \in Nat /\ <<0, 0>> \in P
  BY DEF Places
<1>2. \A j \in 1..n : <<i, n + 1 - j>> \in P
  BY <1>1 DEF Places
<1>3. k \in Nat
  OBVIOUS
<1> HIDE DEF P, n, k
<1>4. own \in Seq(P)
  <2> DEFINE t(j) == <<i, n + 1 - j>>
  <2>1. \A j \in 1..n : t(j) \in P
    BY <1>2
  <2>2. own = [j \in 1..n |-> t(j)]
    OBVIOUS
  <2> HIDE DEF t, own
  <2>3. own \in [1..n -> P]
    BY <2>1, <2>2
  <2> QED
    BY <1>1, <2>3, SeqDef
<1>5. Pane!Blanks(k) \in Seq(P)
  BY <1>1, <1>3, BlanksType
<1> HIDE DEF own
<1>6. own \o Pane!Blanks(k) \in Seq(P)
  BY <1>4, <1>5
<1>7. Pane!Upwards(i, blocks[i], gap) = own \o Pane!Blanks(k)
  BY DEF Pane!Upwards, own, n, k
<1> QED
  BY <1>6, <1>7 DEF P

LEMMA TakeKeeps ==
  ASSUME NEW P, NEW need \in Nat, NEW r \in Taken(P, need), NEW rows \in Seq(P)
  PROVE  Pane!Take(r, rows) \in Taken(P, need)
<1> DEFINE k == Pane!Smaller(Len(rows), r.need - Len(r.rows))
           more == SubSeq(rows, 1, k)
           all  == r.rows \o more
<1>1. /\ r \in [need : {need}, rows : Seq(P)] /\ r.need = need
      /\ r.rows \in Seq(P) /\ Len(r.rows) <= need /\ Len(r.rows) \in Nat
  BY DEF Taken
<1>2. k \in Nat /\ k <= Len(rows) /\ k <= need - Len(r.rows)
  BY <1>1 DEF Pane!Smaller
<1> HIDE DEF k
<1>3. more \in Seq(P) /\ Len(more) = k
  BY <1>2, SubSeqProperties
<1> HIDE DEF more
<1>4. all \in Seq(P) /\ Len(all) <= need
  BY <1>1, <1>2, <1>3, ConcatProperties
<1> HIDE DEF all
<1>5. Pane!Take(r, rows) = [r EXCEPT !.rows = all]
  BY DEF Pane!Take, all, more, k
<1> QED
  BY <1>1, <1>4, <1>5 DEF Taken

LEMMA CollectedType ==
  ASSUME NEW blocks \in Seq(Nat), NEW gap \in Nat, NEW need \in Nat
  PROVE  /\ Pane!Collected(blocks, gap, need) \in Seq(Places(blocks))
         /\ Len(Pane!Collected(blocks, gap, need)) <= need
<1> DEFINE P == Places(blocks)
           newest(k) == Len(blocks) + 1 - k
           walk == [k \in 1..Len(blocks) |->
                      Pane!Upwards(newest(k), blocks[newest(k)], gap)]
           start == [need |-> need, rows |-> <<>>]
<1>1. walk \in Seq(Seq(P))
  <2>1. \A k \in 1..Len(blocks) : newest(k) \in 1..Len(blocks)
    OBVIOUS
  <2>2. \A k \in 1..Len(blocks) :
          Pane!Upwards(newest(k), blocks[newest(k)], gap) \in Seq(P)
    <3> HIDE DEF newest
    <3> QED
      BY <2>1, UpwardsType
  <2>3. Len(blocks) \in Nat
    OBVIOUS
  <2> HIDE DEF P, newest
  <2>4. walk \in [1..Len(blocks) -> Seq(P)]
    BY <2>2
  <2> HIDE DEF walk
  <2> QED
    BY <2>3, <2>4, SeqDef
<1>2. start \in Taken(P, need)
  BY DEF Taken
<1>3. Pane!Collected(blocks, gap, need) = Pane!FoldLeft(Pane!Take, start, walk).rows
  BY DEF Pane!Collected
<1> HIDE DEF walk, start, P
<1>4. \A r \in Taken(P, need), rows \in Seq(P) : Pane!Take(r, rows) \in Taken(P, need)
  BY TakeKeeps
<1>5. Taking!Fold(start, walk) \in Taken(P, need)
  BY <1>1, <1>2, <1>4, Taking!FoldType
<1> QED
  BY <1>3, <1>5, WalkIsFold DEF Taken, P

\* The window is as many rows as it is high, each of them a row of the
\* transcript or blank, however it is scrolled.
LEMMA WindowFills ==
  ASSUME NEW blocks \in Seq(Nat), NEW gap \in Nat, NEW height \in Nat, NEW wanted \in Int
  PROVE  /\ Pane!Window(blocks, gap, height, wanted) \in Seq(Places(blocks))
         /\ Len(Pane!Window(blocks, gap, height, wanted)) = height
<1> DEFINE P == Places(blocks)
<1>1. CASE height <= 0
  BY <1>1 DEF Pane!Window
<1>2. CASE height > 0
  <2> DEFINE at  == Pane!Clamp(wanted, Pane!Lines(blocks, gap), height)
             rev == Pane!Collected(blocks, gap, Pane!Need(height, at))
             from == Pane!Smaller(at, Len(rev)) + 1
             shown == SubSeq(rev, from, Len(rev))
             above == Pane!Blanks(height - Len(shown))
             below == Pane!Reverse(shown)
  <2>1. at \in Nat /\ Pane!Need(height, at) = height + at /\ height + at \in Nat
    <3>1. Pane!Lines(blocks, gap) \in Nat
      BY LinesType
    <3>2. at \in Nat
      BY <3>1, ClampType
    <3> HIDE DEF at
    <3> QED
      BY <3>2 DEF Pane!Need
  <2>2. rev \in Seq(P) /\ Len(rev) <= height + at /\ Len(rev) \in Nat
    BY <2>1, CollectedType
  <2> HIDE DEF at, rev, P
  <2>3. from \in 1..(Len(rev) + 1) /\ Len(rev) + 1 - from <= height
    BY <2>1, <2>2 DEF Pane!Smaller
  <2> HIDE DEF from
  <2>4. shown \in Seq(P) /\ Len(shown) \in Nat /\ Len(shown) <= height
    BY <2>2, <2>3, SubSeqProperties
  <2> HIDE DEF shown
  <2>5. below \in Seq(P) /\ Len(below) = Len(shown)
    BY <2>4 DEF Pane!Reverse
  <2>6. above \in Seq(P) /\ Len(above) = height - Len(shown)
    <3>1. <<0, 0>> \in P /\ height - Len(shown) \in Nat
      BY <2>4 DEF P, Places
    <3> QED
      BY <3>1, BlanksType
  <2> HIDE DEF above, below
  <2>7. above \o below \in Seq(P) /\ Len(above \o below) = height
    <3>1. above \o below \in Seq(P) /\ Len(above \o below) = Len(above) + Len(below)
      BY <2>5, <2>6, ConcatProperties
    <3> QED
      BY <2>4, <2>5, <2>6, <3>1
  <2>8. Pane!Window(blocks, gap, height, wanted) = above \o below
    <3>1. ~(height <= 0)
      BY <1>2
    <3> QED
      BY <3>1, Zenon DEF Pane!Window, above, below, shown, from, rev, at
  <2> QED
    BY <2>7, <2>8 DEF P
<1> QED
  BY <1>1, <1>2

\* The pane is as many rows as asked for, each as wide.
LEMMA PaneFills ==
  ASSUME NEW s \in Screens, NEW width \in Nat, NEW height \in Nat
  PROVE  /\ Transcript(s, width, height) \in Seq(Full(width))
         /\ Len(Transcript(s, width, height)) = height
<1> DEFINE B == [tag : Nat, meta : Nat, lines : Seq(TextLine)]
           rendered == [i \in DOMAIN s.blocks |-> Render(s.blocks[i], width)]
           F == Full(width)
           sizes == [i \in DOMAIN rendered |-> Len(rendered[i])]
           shown == Pane!Window(sizes, BlockGap, height, s.scroll)
<1>1. s.blocks \in Seq(B) /\ s.scroll \in Int
  BY ScreenAssumption DEF Screen
<1>2. /\ Len(s.blocks) \in Nat /\ DOMAIN rendered = 1..Len(s.blocks)
      /\ \A i \in 1..Len(s.blocks) : rendered[i] \in Seq(F)
  <2>1. /\ Len(s.blocks) \in Nat /\ DOMAIN s.blocks = 1..Len(s.blocks)
        /\ \A i \in 1..Len(s.blocks) : s.blocks[i] \in B
    <3> HIDE DEF B
    <3> QED
      BY <1>1, LenProperties, ElementOfSeq
  <2>2. \A i \in 1..Len(s.blocks) : Render(s.blocks[i], width) \in Seq(F)
    BY <2>1, BlockFills
  <2> HIDE DEF F, B
  <2> QED
    BY <2>1, <2>2
<1> HIDE DEF rendered, F
<1>3. /\ sizes \in Seq(Nat) /\ Len(sizes) = Len(s.blocks)
      /\ \A i \in 1..Len(s.blocks) : sizes[i] = Len(rendered[i])
  BY <1>2
<1> HIDE DEF sizes
<1>4. shown \in Seq(Places(sizes)) /\ Len(shown) = height
  BY <1>1, <1>3, WindowFills DEF BlockGap
<1> HIDE DEF shown
<1>5. ASSUME NEW p \in Places(sizes)
      PROVE  (IF p = <<0, 0>> THEN Blank(Larger(width, 0)) ELSE rendered[p[1]][p[2]]) \in F
  <2>1. Blank(Larger(width, 0)) \in F
    BY DEF Blank, Larger, Row, Full, Cells, F
  <2>2. ASSUME p # <<0, 0>> PROVE rendered[p[1]][p[2]] \in F
    <3>1. p[1] \in 1..Len(s.blocks) /\ p[2] \in 1..Len(rendered[p[1]])
      BY <1>3, <2>2 DEF Places
    <3> QED
      BY <1>2, <3>1, ElementOfSeq
  <2> QED
    BY <2>1, <2>2
<1>6. /\ Picked(rendered, shown, width) \in Seq(F)
      /\ Len(Picked(rendered, shown, width)) = height
  <2>1. DOMAIN shown = 1..height /\ \A i \in 1..height : shown[i] \in Places(sizes)
    BY <1>4, LenProperties, ElementOfSeq
  <2> DEFINE t(i) == IF shown[i] = <<0, 0>> THEN Blank(Larger(width, 0))
                     ELSE rendered[shown[i][1]][shown[i][2]]
  <2>2. \A i \in 1..height : t(i) \in F
    BY <1>5, <2>1
  <2>3. Picked(rendered, shown, width) = [i \in 1..height |-> t(i)]
    BY <2>1 DEF Picked
  <2> HIDE DEF t
  <2>4. Picked(rendered, shown, width) \in [1..height -> F]
    BY <2>2, <2>3
  <2> QED
    BY <2>4
<1>7. Transcript(s, width, height) = Picked(rendered, shown, width)
  BY DEF Transcript, Shown, rendered, sizes, shown
<1> QED
  BY <1>6, <1>7 DEF F

-----------------------------------------------------------------------------
(* The rows of the rail *)

LEMMA KeyValueFills ==
  ASSUME NEW width \in Nat, NEW kv \in Keyed
  PROVE  KeyValue(kv, width) \in Full(width)
<1>1. kv.key \in Nat /\ kv.value \in Nat
  BY DEF Keyed
<1> DEFINE valW == Smaller(kv.value, width)
           keyW == width - valW - 1
<1>2. valW \in Nat /\ valW <= width /\ valW <= kv.value
  BY <1>1 DEF Smaller
<1>3. CASE width <= 0
  BY <1>3 DEF KeyValue, Row, Cells, Full
<1>4. CASE width > 0 /\ keyW <= 0
  <2>1. KeyValue(kv, width) = Row(0, 0, rightAlign(fit(kv.value, width), width))
    BY <1>4 DEF KeyValue
  <2>2. fit(kv.value, width) = width
    BY <1>1, FitFills
  <2>3. rightAlign(width, width) = width
    BY DEF rightAlign, Larger
  <2> QED BY <2>1, <2>2, <2>3 DEF Row, Cells, Full
<1>5. CASE width > 0 /\ keyW > 0
  <2>1. KeyValue(kv, width) = Row(fit(kv.key, keyW), 1, rightAlign(kv.value, valW))
    BY <1>2, <1>5 DEF KeyValue
  <2>2. kv.value = valW
    BY <1>5, <1>1 DEF Smaller
  <2>3. keyW \in Nat /\ keyW + 1 + valW = width
    BY <1>2, <1>5
  <2>4. fit(kv.key, keyW) = keyW /\ rightAlign(valW, valW) = valW
    BY <1>1, <1>2, <2>3, FitFills DEF rightAlign, Larger
  <2> HIDE DEF keyW, valW
  <2> QED BY <2>1, <2>2, <2>3, <2>4, <1>2 DEF Row, Cells, Full
<1> QED BY <1>3, <1>4, <1>5, <1>2

LEMMA HeaderFills ==
  ASSUME NEW width \in Nat, NEW label \in Nat, NEW aside \in Nat
  PROVE  SectionHeader(label, aside, width) \in Full(width)
<1>1. fit(label, width) = width
  BY FitFills
<1>2. label + 1 < width => Truncate(aside, width - label) \in Nat
                           /\ Truncate(aside, width - label) <= width - label
  BY CutAssumption DEF Truncate, Larger
<1> QED BY <1>1, <1>2 DEF SectionHeader, rightAlign, Larger, Row, Cells, Full

LEMMA DiagnosticFills ==
  ASSUME NEW width \in Nat, NEW d \in Found
  PROVE  Diagnostic(d, width) \in Full(width)
<1>1. fit(badgeWidth, width) = width
  BY FitFills DEF badgeWidth
<1>2. width > badgeWidth => fit(d.file, width - badgeWidth) = width - badgeWidth
  BY FitFills DEF badgeWidth, Found
<1>3. width > badgeWidth /\ d.at < width - badgeWidth
      => fit(d.file, width - badgeWidth - d.at) = width - badgeWidth - d.at
  BY FitFills DEF badgeWidth, Found
<1> QED BY <1>1, <1>2, <1>3 DEF Diagnostic, Found, Row, Cells, Full, badgeWidth

LEMMA GoalFills ==
  ASSUME NEW width \in Nat, NEW text \in Nat
  PROVE  Goal(text, width) \in Full(width)
<1>1. fit(markWidth, width) = width
  BY FitFills DEF markWidth
<1>2. width > markWidth => fit(text, width - markWidth) = width - markWidth
  BY FitFills DEF markWidth
<1> QED BY <1>1, <1>2 DEF Goal, Row, Cells, Full, markWidth

LEMMA RuleFills ==
  ASSUME NEW width \in Nat, NEW r \in Scoped
  PROVE  Rule(r, width) \in Full(width)
<1>1. fit(r.id, width) = width
  BY FitFills DEF Scoped
<1>2. r.id + 1 < width => fit(r.text, width - r.id - 1) = width - r.id - 1
  BY FitFills DEF Scoped
<1> QED BY <1>1, <1>2 DEF Rule, Scoped, Row, Cells, Full

\* The percentage is clamped, so the filled part never leaves the meter; any
\* use at all fills a cell of it.
LEMMA MeterFills ==
  ASSUME NEW width \in Nat, NEW percent \in Int
  PROVE  Meter(percent, width) \in Full(width)
<1> DEFINE pct == Smaller(Larger(percent, 0), 100)
           part == (pct * width) \div 100
<1>1. pct \in 0..100
  BY DEF Smaller, Larger
<1>2. part \in Nat /\ part <= width
  <2>1. pct * width \in Nat /\ pct * width <= 100 * width
    <3> HIDE DEF pct
    <3> QED BY <1>1
  <2> QED BY <2>1
<1>3. CASE width <= 0
  BY <1>3 DEF Meter, Row, Cells, Full
<1>4. CASE width > 0
  <2> DEFINE filled == IF part = 0 /\ pct > 0 THEN 1 ELSE part
  <2>1. filled \in Nat /\ filled <= width
    BY <1>2, <1>4
  <2>2. Meter(percent, width) = Row(filled, width - filled, 0)
    BY <1>4 DEF Meter
  <2> HIDE DEF filled
  <2> QED BY <2>1, <2>2 DEF Row, Cells, Full
<1> QED BY <1>3, <1>4

\* A rail with the types its texts have.
LEMMA RailFills ==
  ASSUME NEW width \in Nat, NEW rail \in Rails
  PROVE  RailRows(rail, width) \in Seq(Full(width))
<1>1. /\ rail.model \in Nat /\ rail.context \in Nat /\ rail.percent \in Int
      /\ rail.server \in Nat /\ rail.count \in Nat
      /\ rail.cost \in Seq(Keyed) /\ rail.sandbox \in Seq(Keyed)
      /\ rail.diagnostics \in Seq(Found)
      /\ rail.goals \in Seq(Nat) /\ rail.rules \in Seq(Scoped)
  BY DEF Rails
<1> DEFINE Model == << SectionHeader(Label.model, 0, width), Row(fit(rail.model, width), 0, 0),
                       KeyValue([key |-> 7, value |-> rail.context], width),
                       Meter(rail.percent, width) >>
           Cost  == [i \in DOMAIN rail.cost |-> KeyValue(rail.cost[i], width)]
           Diagnostics == [i \in DOMAIN rail.diagnostics
                             |-> Diagnostic(rail.diagnostics[i], width)]
           Goals == [i \in DOMAIN rail.goals |-> Goal(rail.goals[i], width)]
           Rules == [i \in DOMAIN rail.rules |-> Rule(rail.rules[i], width)]
           Sandbox == [i \in DOMAIN rail.sandbox |-> KeyValue(rail.sandbox[i], width)]
           F == Full(width)
<1>2. /\ Label.model \in Nat /\ Label.lsp \in Nat /\ Label.goals \in Nat
      /\ Label.rules \in Nat /\ Label.sandbox \in Nat
  BY DEF Label
<1>3. /\ <<SectionHeader(Label.lsp, rail.server, width)>> \in Seq(F)
      /\ <<SectionHeader(Label.goals, 0, width)>> \in Seq(F)
      /\ <<SectionHeader(Label.rules, rail.count, width)>> \in Seq(F)
      /\ <<SectionHeader(Label.sandbox, 0, width)>> \in Seq(F)
  <2>1. /\ SectionHeader(Label.lsp, rail.server, width) \in F
        /\ SectionHeader(Label.goals, 0, width) \in F
        /\ SectionHeader(Label.rules, rail.count, width) \in F
        /\ SectionHeader(Label.sandbox, 0, width) \in F
    BY <1>1, <1>2, HeaderFills
  <2> HIDE DEF F
  <2> QED BY <2>1
<1>4. Model \in Seq(F)
  <2>1. SectionHeader(Label.model, 0, width) \in F
    BY <1>2, HeaderFills
  <2>2. Row(fit(rail.model, width), 0, 0) \in F
    BY <1>1, FitFills DEF Row, Cells, Full
  <2>3. [key |-> 7, value |-> rail.context] \in Keyed
    BY <1>1 DEF Keyed
  <2>4. KeyValue([key |-> 7, value |-> rail.context], width) \in F
    BY <2>3, KeyValueFills
  <2>5. Meter(rail.percent, width) \in F
    BY <1>1, MeterFills
  <2> HIDE DEF F
  <2> QED BY <2>1, <2>2, <2>4, <2>5
<1>5. Cost \in Seq(F)
  <2>1. \A e \in Keyed : \A i \in DOMAIN rail.cost :
          rail.cost[i] = e => Cost[i] \in F
    BY KeyValueFills
  <2>2. Cost = [i \in DOMAIN rail.cost |-> Cost[i]]
    OBVIOUS
  <2> HIDE DEF F, Cost
  <2> QED BY <1>1, <2>1, <2>2, RowForEach
<1>6. Diagnostics \in Seq(F)
  <2>1. \A e \in Found : \A i \in DOMAIN rail.diagnostics :
          rail.diagnostics[i] = e => Diagnostics[i] \in F
    BY DiagnosticFills
  <2>2. Diagnostics = [i \in DOMAIN rail.diagnostics |-> Diagnostics[i]]
    OBVIOUS
  <2> HIDE DEF F, Diagnostics
  <2> QED BY <1>1, <2>1, <2>2, RowForEach
<1>7. Goals \in Seq(F)
  <2>1. \A e \in Nat : \A i \in DOMAIN rail.goals :
          rail.goals[i] = e => Goals[i] \in F
    BY GoalFills
  <2>2. Goals = [i \in DOMAIN rail.goals |-> Goals[i]]
    OBVIOUS
  <2> HIDE DEF F, Goals
  <2> QED BY <1>1, <2>1, <2>2, RowForEach
<1>8. Rules \in Seq(F)
  <2>1. \A e \in Scoped : \A i \in DOMAIN rail.rules :
          rail.rules[i] = e => Rules[i] \in F
    BY RuleFills
  <2>2. Rules = [i \in DOMAIN rail.rules |-> Rules[i]]
    OBVIOUS
  <2> HIDE DEF F, Rules
  <2> QED BY <1>1, <2>1, <2>2, RowForEach
<1>12. Sandbox \in Seq(F)
  <2>1. \A e \in Keyed : \A i \in DOMAIN rail.sandbox :
          rail.sandbox[i] = e => Sandbox[i] \in F
    BY KeyValueFills
  <2>2. Sandbox = [i \in DOMAIN rail.sandbox |-> Sandbox[i]]
    OBVIOUS
  <2> HIDE DEF F, Sandbox
  <2> QED BY <1>1, <2>1, <2>2, RowForEach
<1>9. Section(width) \in Seq(F)
  BY DEF Section, Blank, Divider, Larger, Row, Cells, Full
<1>10. RailRows(rail, width)
       = Model \o Cost \o Section(width) \o <<SectionHeader(Label.lsp, rail.server, width)>>
         \o Diagnostics \o Section(width) \o <<SectionHeader(Label.goals, 0, width)>>
         \o Goals \o Section(width) \o <<SectionHeader(Label.rules, rail.count, width)>>
         \o Rules \o Section(width) \o <<SectionHeader(Label.sandbox, 0, width)>>
         \o Sandbox
  BY DEF RailRows
<1> HIDE DEF Model, Cost, Diagnostics, Goals, Rules, Sandbox, F
<1>11. \A s, t \in Seq(F) : s \o t \in Seq(F)
  BY ConcatProperties
<1>13. RailRows(rail, width) \in Seq(F)
  BY <1>3, <1>4, <1>5, <1>6, <1>7, <1>8, <1>9, <1>10, <1>11, <1>12
<1> QED BY <1>13 DEF F

\* The rail is as many rows as the body, however many its sections take.
LEMMA RailColumnFills ==
  ASSUME NEW width \in Nat, NEW height \in Nat, NEW rail \in Rails
  PROVE  railColumn(rail, width, height) \in [1..height -> Full(width)]
<1>1. RailRows(rail, width) \in Seq(Full(width))
  BY RailFills
<1>2. Blank(width) \in Full(width)
  BY DEF Blank, Row, Cells, Full
<1>3. \A i \in 1..height : i <= Len(RailRows(rail, width))
                           => RailRows(rail, width)[i] \in Full(width)
  BY <1>1
<1> QED BY <1>2, <1>3 DEF railColumn

-----------------------------------------------------------------------------
(* The status bar and the input *)

LEMMA StatusFills ==
  ASSUME NEW width \in Nat, NEW s \in Sessions
  PROVE  statusBar(s, width) \in Full(width)
<1>1. /\ s.command \in Nat /\ StateChip(s.state) \in Nat /\ StatusRight(s) \in Nat
  BY DEF Sessions, StateChip, StatusRight, chipPad
<1>2. CASE StatusRight(s) >= width
  BY <1>1, <1>2, FitFills DEF statusBar, Row, Cells, Full
<1>3. CASE StatusRight(s) < width
  <2>1. fit(s.command, width - StatusRight(s)) = width - StatusRight(s)
    BY <1>1, <1>3, FitFills
  <2> QED BY <1>1, <1>3, <2>1 DEF statusBar, Row, Cells, Full
<1> QED BY <1>1, <1>2, <1>3

LEMMA RuleLineFills ==
  ASSUME NEW width \in Nat
  PROVE  hRule(width) \in Full(width)
BY DEF hRule, Larger, Row, Cells, Full

LEMMA LoadingFills ==
  ASSUME NEW width \in Nat, NEW text \in Nat
  PROVE  Loading(text, width) \in Full(width)
BY FitFills DEF Loading, Larger, Row, Cells, Full

LEMMA PromptFills ==
  ASSUME NEW width \in Nat, NEW text \in Nat
  PROVE  PromptLine(text, width) \in Full(width)
<1>1. width > 3 => fit(text, width - 3) = width - 3
  BY FitFills
<1> QED BY <1>1, FitFills DEF PromptLine, Row, Cells, Full

LEMMA TabsFill ==
  ASSUME NEW width \in Nat
  PROVE  tabsRow(width) \in Full(width)
BY FitFills DEF tabsRow, ModeTabs, TabsHint, Row, Cells, Full

LEMMA FooterFills ==
  ASSUME NEW width \in Nat, NEW in \in Inputs
  PROVE  Footer(in, width) \in Full(width)
<1>1. /\ in.branch \in Nat /\ FooterLeft(in) \in Nat /\ FooterRight(in) \in Nat
  BY DEF Inputs, FooterLeft, FooterRight
<1>2. fit(in.branch, width) = width
  BY <1>1, FitFills
<1> QED BY <1>1, <1>2 DEF Footer, Row, Cells, Full

\* Two cells hold the mode's bar and the space after it.
LEMMA InputFills ==
  ASSUME NEW width \in Nat, width >= 2, NEW in \in Inputs
  PROVE  inputArea(in, width) \in [1..4 -> Full(width)]
<1> DEFINE inner == width - 2
<1>1. inner \in Nat /\ Larger(width - 2, 0) = inner
  BY DEF Larger
<1>2. in.loading \in Nat /\ in.prompt \in Nat
  BY DEF Inputs
<1>3. \A r \in Full(inner) : ModeBarred(r) \in Full(width)
  BY <1>1 DEF Full, Cells, ModeBarred
<1>4. ModeBarred(PromptLine(in.prompt, inner)) \in Full(width)
  BY <1>1, <1>2, <1>3, PromptFills
<1>5. ModeBarred(tabsRow(inner)) \in Full(width)
  BY <1>1, <1>3, TabsFill
<1>6. Loading(in.loading, width) \in Full(width) /\ Footer(in, width) \in Full(width)
  BY <1>2, LoadingFills, FooterFills
<1>7. inputArea(in, width)
      = <<Loading(in.loading, width), ModeBarred(PromptLine(in.prompt, inner)),
          ModeBarred(tabsRow(inner)), Footer(in, width)>>
  BY <1>1 DEF inputArea
<1> HIDE DEF inner
<1> QED BY <1>4, <1>5, <1>6, <1>7

-----------------------------------------------------------------------------
(* The frame *)

LEMMA LeftFills ==
  ASSUME NEW s \in Screens,
         NEW width \in Nat, width >= 2, NEW height \in Nat, height >= 5
  PROVE  /\ leftColumn(s, width, height) \in Seq(Full(width))
         /\ Len(leftColumn(s, width, height)) = height
<1> DEFINE T == Transcript(s, width, height - 5)
           A == inputArea(s.input, width)
           F == Full(width)
<1>1. T \in Seq(F) /\ Len(T) = height - 5
  BY PaneFills
<1>2. A \in [1..4 -> F]
  BY InputFills, ScreenAssumption DEF Screen
<1>3. <<hRule(width)>> \in Seq(F) /\ Len(<<hRule(width)>>) = 1
  <2>1. hRule(width) \in F
    BY RuleLineFills
  <2> HIDE DEF F
  <2> QED BY <2>1
<1>4. leftColumn(s, width, height) = T \o <<hRule(width)>> \o A
  <2>1. height - ruleRows - inputRows = height - 5
    BY DEF ruleRows, inputRows
  <2> QED BY <2>1 DEF leftColumn
<1> HIDE DEF T, A, F
<1>5. A \in Seq(F) /\ Len(A) = 4
  <2>1. \A n \in Nat : \A f \in [1..n -> F] : f \in Seq(F) /\ Len(f) = n
    OBVIOUS
  <2> QED BY <1>2, <2>1
<1>6. T \o <<hRule(width)>> \in Seq(F) /\ Len(T \o <<hRule(width)>>) = height - 5 + 1
  BY <1>1, <1>3, ConcatProperties
<1>7. leftColumn(s, width, height) \in Seq(F)
  BY <1>4, <1>5, <1>6, ConcatProperties
<1>8. Len(leftColumn(s, width, height)) = height
  <2>1. Len(leftColumn(s, width, height)) = Len(T \o <<hRule(width)>>) + Len(A)
    BY <1>4, <1>5, <1>6, ConcatProperties
  <2> QED BY <1>5, <1>6, <2>1
<1> QED BY <1>7, <1>8 DEF F

\* A frame of a terminal of at least two columns, with or without its rail.
LEMMA FrameFills ==
  ASSUME NEW s \in Screens,
         NEW l \in [cols : Nat, height : Nat], l.cols >= 2, l.height >= MinHeight
  PROVE  Frame(s, l) \in Seq(Full(l.cols)) /\ Len(Frame(s, l)) = l.height
<1> DEFINE bodyH == l.height - 2
           leftW == TranscriptWidth(l.cols)
           railW == RailWidth(l.cols)
           left  == leftColumn(s, leftW, bodyH)
           rail  == railColumn(s.rail, railW, bodyH)
           body  == IF railW = 0 THEN left
                    ELSE [i \in 1..bodyH |-> Beside(left[i], rail[i])]
           F == Full(l.cols)
<1>1. /\ bodyH \in Nat /\ bodyH >= 5 /\ bodyH + 2 = l.height
      /\ l.height - statusRows - ruleRows = bodyH
  BY DEF MinHeight, chromeRows, statusRows, ruleRows, inputRows
<1>2. /\ leftW \in Nat /\ leftW >= 2 /\ railW \in Nat
      /\ railW = 0 => leftW = l.cols
      /\ railW # 0 => leftW + 1 + railW = l.cols
  BY DEF TranscriptWidth, RailWidth, RailHideBelow, Larger
<1>3. Frame(s, l) = <<statusBar(s.session, l.cols), hRule(l.cols)>> \o body
  <2>1. ~(l.cols <= 0 \/ l.height < MinHeight)
    BY DEF MinHeight, chromeRows, statusRows, ruleRows, inputRows
  <2> QED BY <1>1, <2>1 DEF Frame, Columns
<1>4. left \in Seq(Full(leftW)) /\ Len(left) = bodyH
  BY <1>1, <1>2, LeftFills
<1>5. rail \in [1..bodyH -> Full(railW)]
  BY <1>1, <1>2, RailColumnFills, ScreenAssumption DEF Screen
<1>6. <<statusBar(s.session, l.cols), hRule(l.cols)>> \in Seq(F)
      /\ Len(<<statusBar(s.session, l.cols), hRule(l.cols)>>) = 2
  <2>1. statusBar(s.session, l.cols) \in F /\ hRule(l.cols) \in F
    BY StatusFills, RuleLineFills, ScreenAssumption DEF Screen
  <2> HIDE DEF F
  <2> QED BY <2>1
<1> HIDE DEF bodyH, leftW, railW, left, rail
<1>7. body \in Seq(F) /\ Len(body) = bodyH
  <2>1. CASE railW = 0
    BY <1>2, <1>4, <2>1
  <2>2. CASE railW # 0
    <3>1. \A i \in 1..bodyH : left[i] \in Full(leftW) /\ rail[i] \in Full(railW)
      BY <1>4, <1>5, ElementOfSeq
    <3>2. \A a \in Full(leftW), b \in Full(railW) : Beside(a, b) \in F
      BY <1>2, <2>2 DEF Full, Beside, Row, Cells
    <3>3. body = [i \in 1..bodyH |-> Beside(left[i], rail[i])]
      BY <2>2
    <3> HIDE DEF body, F
    <3>4. body \in [1..bodyH -> F]
      BY <3>1, <3>2, <3>3
    <3> QED BY <1>1, <3>4
  <2> QED BY <2>1, <2>2
<1> HIDE DEF body, F
<1>8. Frame(s, l) \in Seq(F) /\ Len(Frame(s, l)) = l.height
  BY <1>1, <1>3, <1>6, <1>7, ConcatProperties
<1> QED BY <1>8 DEF F

\* A session shows one of the screens, on a terminal of any size.
Sized == screen \in Screens /\ layout \in [cols : Nat, height : Nat]

\* However the terminal is resized, its size stays one (tui.go:247-262).
THEOREM SizedAlways == Spec => []Sized
<1>1. Init => Sized
  BY DEF Init, Sized
<1>2. Sized /\ [Next]_<<screen, layout>> => Sized'
  BY TerminalAssumption DEF Next, Resize, Sized
<1> QED
  BY <1>1, <1>2, PTL DEF Spec

\* Whatever the text and the terminal, wrapping loses, repeats and reorders no
\* character, fills no row over its width, breaks a word only where the word is
\* wider than a row, and returns unless a character is (block.go:151-215).
THEOREM WrappingKeepsTheText == Spec => []WrapKeepsTheText
<1>1. Sized => WrapKeepsTheText
  BY WrapKeeps DEF Sized
<1> QED
  BY <1>1, SizedAlways, PTL

\* Every frame of every terminal is exactly its rows and columns: no text, no
\* squeeze of one and no scrolling ever moves the rail or the input
\* (layout.go:107-162).
THEOREM FrameTheorem == Spec => []FrameIsTheTerminal
<1>1. Sized => FrameIsTheTerminal
  <2> SUFFICES ASSUME Sized PROVE FrameIsTheTerminal
    OBVIOUS
  <2> USE DEF Sized
  <2>1. CASE layout.height < MinHeight
    BY <2>1 DEF FrameIsTheTerminal, Frame
  <2>2. CASE layout.height >= MinHeight /\ layout.cols < 2
    BY <2>2 DEF FrameIsTheTerminal, MinHeight, chromeRows, statusRows, ruleRows, inputRows
  <2>3. CASE layout.height >= MinHeight /\ layout.cols >= 2
    <3>1. /\ Frame(screen, layout) \in Seq(Full(layout.cols))
          /\ Len(Frame(screen, layout)) = layout.height
      BY <2>3, FrameFills
    <3>2. \A i \in DOMAIN Frame(screen, layout) :
            Cells(Frame(screen, layout)[i]) = layout.cols
      BY <3>1, ElementOfSeq, LenProperties DEF Full
    <3>3. TranscriptWidth(layout.cols) \in Nat
      BY <2>3 DEF TranscriptWidth, RailWidth, RailHideBelow, Larger
    <3>4. /\ layout.height - chromeRows \in Nat
          /\ TranscriptHeight(layout.height) = layout.height - chromeRows
      BY <2>3 DEF TranscriptHeight, MinHeight, chromeRows, statusRows, ruleRows, inputRows
    <3>5. Len(Transcript(screen, TranscriptWidth(layout.cols), layout.height - chromeRows))
          = TranscriptHeight(layout.height)
      BY <3>3, <3>4, PaneFills
    <3>6. ~(layout.height < MinHeight)
      BY <2>3 DEF MinHeight, chromeRows, statusRows, ruleRows, inputRows
    <3> QED BY <3>1, <3>2, <3>5, <3>6 DEF FrameIsTheTerminal, Fills
  <2> QED BY <2>1, <2>2, <2>3 DEF MinHeight, chromeRows, statusRows, ruleRows, inputRows
<1> QED BY <1>1, SizedAlways, PTL

-----------------------------------------------------------------------------
(* What a squeeze takes first *)

\* Whatever the width, if what a row is for fits, all of it is shown: a value at
\* its key's expense, the state at the command's, the branch at the path's, the
\* cursor at the text's, the position at the file's, a tag at its block's meta
\* (rail.go:72-90,143-168, layout.go:193-199, chrome.go:90-99,136-143,
\* block.go:98-108).
THEOREM WhatMattersIsShown ==
  ASSUME NEW width \in Nat
  PROVE  /\ \A kv \in Keyed : kv.value <= width => KeyValue(kv, width).right >= kv.value
         /\ \A s \in Sessions : StateChip(s.state) <= width
                                => statusBar(s, width).right >= StateChip(s.state)
         /\ \A in \in Inputs : in.branch <= width
                               => Footer(in, width).middle >= in.branch
         /\ \A text \in Nat : width > 3 => PromptLine(text, width).right = 1
         /\ \A d \in Found : badgeWidth + d.at < width
                             => Diagnostic(d, width).right = d.at
         /\ \A b \in [tag : Nat, meta : Nat] :
              b.tag <= width => header(b, width).left >= b.tag
<1>1. ASSUME NEW kv \in Keyed, kv.value <= width
      PROVE  KeyValue(kv, width).right >= kv.value
  BY <1>1, FitFills DEF KeyValue, Keyed, Row, Smaller, rightAlign, Larger
<1>2. ASSUME NEW s \in Sessions, StateChip(s.state) <= width
      PROVE  statusBar(s, width).right >= StateChip(s.state)
  BY <1>2, FitFills DEF statusBar, StatusRight, StateChip, chipPad, Sessions, Row
<1>3. ASSUME NEW in \in Inputs, in.branch <= width
      PROVE  Footer(in, width).middle >= in.branch
  BY <1>3, FitFills DEF Footer, Inputs, Row
<1>4. ASSUME NEW text \in Nat, width > 3
      PROVE  PromptLine(text, width).right = 1
  BY <1>4 DEF PromptLine, Row
<1>5. ASSUME NEW d \in Found, badgeWidth + d.at < width
      PROVE  Diagnostic(d, width).right = d.at
  BY <1>5 DEF Diagnostic, Found, badgeWidth, Row
<1>6. ASSUME NEW b \in [tag : Nat, meta : Nat], b.tag <= width
      PROVE  header(b, width).left >= b.tag
  BY <1>6, FitFills DEF header, Row
<1> QED BY <1>1, <1>2, <1>3, <1>4, <1>5, <1>6
=============================================================================
