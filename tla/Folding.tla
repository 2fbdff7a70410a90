------------------------------ MODULE Folding -------------------------------
(***************************************************************************)
(* What folding a sequence from the left does, for any operator: a module  *)
(* to be instantiated with the operator that is folded, since a theorem    *)
(* cannot be given one as a parameter.  Induction over the naturals is     *)
(* stated with a set in place of a predicate for the same reason.          *)
(***************************************************************************)
EXTENDS Integers, SequencesExt, SequenceTheorems, WellFoundedInduction, TLAPS

CONSTANT Op(_, _)

Fold(base, q) == FoldLeft(Op, base, q)

-----------------------------------------------------------------------------
(* Induction *)

Less == {p \in Nat \X Nat : p[1] < p[2]}

LEMMA LessWellFounded == IsWellFoundedOn(Less, Nat)
BY NatLessThanWellFounded DEF OpToRel, Less

\* A set that holds 0 and the successor of each number it holds, holds them all.
LEMMA NatSetInduction ==
  ASSUME NEW T, 0 \in T, \A n \in Nat : n \in T => n + 1 \in T
  PROVE  Nat \subseteq T
<1> DEFINE Rest == {n \in Nat : n \notin T}
<1>1. SUFFICES ASSUME Rest # {} PROVE FALSE
  OBVIOUS
<1>2. PICK n \in Rest : \A m \in Rest : ~(<<m, n>> \in Less)
  BY <1>1, LessWellFounded, WFMin
<1>3. n \in Nat /\ n # 0
  OBVIOUS
<1>4. n - 1 \in Nat /\ n = (n - 1) + 1 /\ n - 1 < n
  BY <1>3
<1>5. n - 1 \notin Rest
  BY <1>2, <1>3, <1>4 DEF Less
<1> QED
  BY <1>3, <1>4, <1>5

LEMMA Least ==
  ASSUME NEW A \in SUBSET Nat, A # {}
  PROVE  \E m \in A : \A i \in A : m <= i
<1>1. PICK m \in A : \A i \in A : ~(<<i, m>> \in Less)
  BY LessWellFounded, WFMin
<1>2. \A i \in A : i < m => <<i, m>> \in Less
  BY DEF Less
<1>3. ASSUME NEW i \in A PROVE m <= i
  <2>1. i \in Nat /\ m \in Nat /\ ~(i < m)
    BY <1>1, <1>2
  <2> QED
    BY <2>1
<1> QED
  BY <1>3

-----------------------------------------------------------------------------
(* The function a fold is defined by *)

\* f takes every part of D to the fold of the places of v in it.
Folds(f, base, v, D) ==
  f = [s \in SUBSET D |-> IF s = {} THEN base ELSE Op(f[s \ {Max(s)}], v[Max(s)])]

LEMMA FoldIsChosen ==
  ASSUME NEW base, NEW q
  PROVE  Fold(base, q) = (CHOOSE f : Folds(f, base, q, DOMAIN q))[DOMAIN q]
BY DEF Fold, FoldLeft, MapThenFoldSet, Folds

LEMMA MaxOfParts ==
  ASSUME NEW n \in Nat
  PROVE  \A s \in SUBSET (1..n) : s # {} => Max(s) \in s /\ \A i \in s : i <= Max(s)
<1> DEFINE T == {m \in Nat : \A s \in SUBSET (1..m) : s # {} =>
                    \E i \in s : \A j \in s : i >= j}
<1>1. 0 \in T
  <2>1. 1..0 = {}
    OBVIOUS
  <2> QED
    BY <2>1
<1>2. ASSUME NEW m \in Nat, m \in T PROVE m + 1 \in T
  <2>1. ASSUME NEW s \in SUBSET (1..(m + 1)), s # {}
        PROVE  \E i \in s : \A j \in s : i >= j
    <3>1. CASE m + 1 \in s
      BY <3>1
    <3>2. CASE m + 1 \notin s
      <4>1. s \in SUBSET (1..m)
        BY <3>2
      <4> QED
        BY <1>2, <2>1, <4>1
    <3> QED
      BY <3>1, <3>2
  <2> QED
    BY <2>1
<1>3. n \in T
  <2> HIDE DEF T
  <2> QED
    BY <1>1, <1>2, NatSetInduction
<1>4. ASSUME NEW s \in SUBSET (1..n), s # {}
      PROVE  Max(s) \in s /\ \A i \in s : i <= Max(s)
  <2>1. \E i \in s : \A j \in s : i >= j
    BY <1>3, <1>4
  <2>2. Max(s) \in s /\ \A j \in s : Max(s) >= j
    BY <2>1 DEF Max
  <2> QED
    BY <2>2
<1> QED
  BY <1>4

LEMMA MaxOfSegment ==
  ASSUME NEW n \in Nat
  PROVE  Max(1..(n + 1)) = n + 1 /\ (1..(n + 1)) \ {n + 1} = 1..n
<1>1. /\ n + 1 \in Nat /\ n + 1 \in 1..(n + 1)
      /\ 1..(n + 1) \in SUBSET (1..(n + 1)) /\ 1..(n + 1) # {}
  OBVIOUS
<1>2. Max(1..(n + 1)) \in 1..(n + 1) /\ n + 1 <= Max(1..(n + 1))
  BY <1>1, MaxOfParts
<1> QED
  BY <1>2

LEMMA FoldsExists ==
  ASSUME NEW base, NEW v, NEW n \in Nat
  PROVE  \E f : Folds(f, base, v, 1..n)
<1> DEFINE T == {m \in Nat : \E f : Folds(f, base, v, 1..m)}
<1>1. 0 \in T
  <2>1. Folds([s \in SUBSET (1..0) |-> base], base, v, 1..0)
    BY DEF Folds
  <2> QED
    BY <2>1
<1>2. ASSUME NEW m \in Nat, m \in T PROVE m + 1 \in T
  <2>1. PICK f : Folds(f, base, v, 1..m)
    BY <1>2
  <2> DEFINE g == [s \in SUBSET (1..(m + 1)) |->
                     IF m + 1 \in s THEN Op(f[s \ {m + 1}], v[m + 1]) ELSE f[s]]
  <2>2. ASSUME NEW s \in SUBSET (1..(m + 1))
        PROVE  g[s] = IF s = {} THEN base ELSE Op(g[s \ {Max(s)}], v[Max(s)])
    <3>1. CASE m + 1 \in s
      <4>1. Max(s) = m + 1
        <5>1. m + 1 \in Nat /\ s # {}
          BY <3>1
        <5>2. Max(s) \in s /\ m + 1 <= Max(s)
          BY <3>1, <5>1, MaxOfParts
        <5>3. Max(s) \in 1..(m + 1)
          BY <5>2
        <5> HIDE DEF g
        <5> QED
          BY <5>2, <5>3
      <4>2. s \ {m + 1} \in SUBSET (1..(m + 1)) /\ m + 1 \notin s \ {m + 1}
        OBVIOUS
      <4> QED
        BY <3>1, <4>1, <4>2
    <3>2. CASE m + 1 \notin s
      <4>1. s \in SUBSET (1..m)
        BY <3>2
      <4>2. f[s] = IF s = {} THEN base ELSE Op(f[s \ {Max(s)}], v[Max(s)])
        BY <2>1, <4>1 DEF Folds
      <4>3. s \ {Max(s)} \in SUBSET (1..(m + 1)) /\ m + 1 \notin s \ {Max(s)}
        BY <3>2
      <4> QED
        BY <3>2, <4>2, <4>3
    <3> QED
      BY <3>1, <3>2
  <2>3. Folds(g, base, v, 1..(m + 1))
    BY <2>2 DEF Folds
  <2> QED
    BY <2>3
<1> HIDE DEF T
<1>3. n \in T
  BY <1>1, <1>2, NatSetInduction
<1> QED
  BY <1>3 DEF T

LEMMA FoldsStep ==
  ASSUME NEW base, NEW v, NEW n \in Nat, NEW f, Folds(f, base, v, 1..n)
  PROVE  /\ f[{}] = base
         /\ \A m \in Nat : m + 1 <= n => f[1..(m + 1)] = Op(f[1..m], v[m + 1])
<1>1. f[{}] = base
  BY DEF Folds
<1>2. ASSUME NEW m \in Nat, m + 1 <= n
      PROVE  f[1..(m + 1)] = Op(f[1..m], v[m + 1])
  <2>1. 1..(m + 1) \in SUBSET (1..n) /\ 1..(m + 1) # {}
    <3>1. m + 1 \in 1..(m + 1) /\ \A i \in 1..(m + 1) : i \in 1..n
      BY <1>2
    <3> QED
      BY <3>1
  <2>2. f[1..(m + 1)] = Op(f[(1..(m + 1)) \ {Max(1..(m + 1))}], v[Max(1..(m + 1))])
    BY <2>1 DEF Folds
  <2> QED
    BY <2>2, MaxOfSegment
<1> QED
  BY <1>1, <1>2

\* Two sequences that agree up to n have the same folds up to there.
LEMMA FoldsAgree ==
  ASSUME NEW base, NEW v, NEW w, NEW k \in Nat, NEW n \in 0..k,
         \A i \in 1..n : v[i] = w[i],
         NEW f, Folds(f, base, v, 1..n), NEW g, Folds(g, base, w, 1..k)
  PROVE  f[1..n] = g[1..n]
<1> DEFINE T == {m \in Nat : m <= n => f[1..m] = g[1..m]}
<1>1. 0 \in T
  <2>1. 1..0 = {}
    OBVIOUS
  <2>2. f[{}] = base /\ g[{}] = base
    BY DEF Folds
  <2> QED
    BY <2>1, <2>2
<1>2. ASSUME NEW m \in Nat, m \in T PROVE m + 1 \in T
  <2>1. CASE m + 1 <= n
    <3>1. f[1..(m + 1)] = Op(f[1..m], v[m + 1]) /\ g[1..(m + 1)] = Op(g[1..m], w[m + 1])
      BY <2>1, FoldsStep
    <3>2. v[m + 1] = w[m + 1] /\ f[1..m] = g[1..m]
      BY <1>2, <2>1
    <3> QED
      BY <3>1, <3>2
  <2> QED
    BY <2>1
<1> HIDE DEF T
<1>3. n \in T
  BY <1>1, <1>2, NatSetInduction
<1> QED
  BY <1>3 DEF T

-----------------------------------------------------------------------------
(* Folding *)

LEMMA FoldEmpty ==
  ASSUME NEW base
  PROVE  Fold(base, <<>>) = base
<1> DEFINE f == CHOOSE g : Folds(g, base, <<>>, DOMAIN <<>>)
<1>1. DOMAIN <<>> = 1..0 /\ 1..0 = {}
  OBVIOUS
<1>2. Folds(f, base, <<>>, 1..0)
  BY <1>1, FoldsExists
<1> HIDE DEF f
<1> QED
  BY <1>1, <1>2, FoldIsChosen, FoldsStep DEF f

LEMMA FoldAppend ==
  ASSUME NEW S, NEW q \in Seq(S), NEW x \in S, NEW base
  PROVE  Fold(base, Append(q, x)) = Op(Fold(base, q), x)
<1> DEFINE r == Append(q, x)
           n == Len(q)
           f == CHOOSE g : Folds(g, base, q, DOMAIN q)
           h == CHOOSE g : Folds(g, base, r, DOMAIN r)
<1>1. /\ n \in Nat /\ DOMAIN q = 1..n /\ DOMAIN r = 1..(n + 1)
      /\ r[n + 1] = x /\ \A i \in 1..n : q[i] = r[i]
  OBVIOUS
<1> HIDE DEF r, n
<1>2. Folds(f, base, q, 1..n) /\ Folds(h, base, r, 1..(n + 1))
  <2>1. n + 1 \in Nat
    BY <1>1
  <2>2. (\E g : Folds(g, base, q, 1..n)) /\ (\E g : Folds(g, base, r, 1..(n + 1)))
    BY <1>1, <2>1, FoldsExists
  <2> QED
    BY <1>1, <2>2
<1>3. Fold(base, q) = f[1..n] /\ Fold(base, r) = h[1..(n + 1)]
  BY <1>1, FoldIsChosen
<1> HIDE DEF f, h
<1>4. h[1..(n + 1)] = Op(h[1..n], x)
  BY <1>1, <1>2, FoldsStep
<1>5. f[1..n] = h[1..n]
  BY <1>1, <1>2, FoldsAgree
<1> QED
  BY <1>3, <1>4, <1>5 DEF r

-----------------------------------------------------------------------------
(* Sequences by their last element *)

\* A set that holds the empty sequence and every extension of a sequence it
\* holds, holds them all.
LEMMA SeqSetInduction ==
  ASSUME NEW S, NEW T, <<>> \in T,
         \A q \in Seq(S), x \in S : q \in T => Append(q, x) \in T
  PROVE  Seq(S) \subseteq T
<1> DEFINE U == {n \in Nat : \A q \in Seq(S) : Len(q) = n => q \in T}
<1>1. 0 \in U
  <2>1. \A q \in Seq(S) : Len(q) = 0 => q = <<>>
    BY EmptySeq
  <2> QED
    BY <2>1
<1>2. ASSUME NEW n \in Nat, n \in U PROVE n + 1 \in U
  <2>1. ASSUME NEW r \in Seq(S), Len(r) = n + 1 PROVE r \in T
    <3>1. r # <<>>
      BY <2>1, EmptySeq
    <3>2. PICK q \in Seq(S), x \in S : r = Append(q, x)
      BY <3>1, SequenceEmptyOrAppend
    <3>3. Len(q) = n
      BY <2>1, <3>2
    <3> QED
      BY <1>2, <3>2, <3>3
  <2> QED
    BY <2>1
<1> HIDE DEF U
<1>3. Nat \subseteq U
  BY <1>1, <1>2, NatSetInduction
<1>4. ASSUME NEW q \in Seq(S) PROVE q \in T
  <2>1. Len(q) \in U
    BY <1>3
  <2> QED
    BY <2>1 DEF U
<1> QED
  BY <1>4

LEMMA FoldType ==
  ASSUME NEW S, NEW T, NEW base \in T, \A t \in T, x \in S : Op(t, x) \in T,
         NEW q \in Seq(S)
  PROVE  Fold(base, q) \in T
<1> DEFINE U == {r \in Seq(S) : Fold(base, r) \in T}
<1>1. <<>> \in U
  BY FoldEmpty
<1>2. ASSUME NEW r \in Seq(S), NEW x \in S, r \in U PROVE Append(r, x) \in U
  BY <1>2, FoldAppend
<1> HIDE DEF U
<1>3. q \in U
  BY <1>1, <1>2, SeqSetInduction
<1> QED
  BY <1>3 DEF U

LEMMA FoldConcat ==
  ASSUME NEW S, NEW p \in Seq(S), NEW q \in Seq(S), NEW base
  PROVE  Fold(base, p \o q) = Fold(Fold(base, p), q)
<1> DEFINE U == {r \in Seq(S) : Fold(base, p \o r) = Fold(Fold(base, p), r)}
<1>1. <<>> \in U
  BY FoldEmpty, ConcatEmptySeq
<1>2. ASSUME NEW r \in Seq(S), NEW x \in S, r \in U PROVE Append(r, x) \in U
  <2>1. p \o Append(r, x) = Append(p \o r, x) /\ p \o r \in Seq(S) /\ Append(r, x) \in Seq(S)
    OBVIOUS
  <2>2. Fold(base, Append(p \o r, x)) = Op(Fold(base, p \o r), x)
    BY <2>1, FoldAppend
  <2>3. Fold(Fold(base, p), Append(r, x)) = Op(Fold(Fold(base, p), r), x)
    BY FoldAppend
  <2> QED
    BY <1>2, <2>1, <2>2, <2>3
<1> HIDE DEF U
<1>3. q \in U
  BY <1>1, <1>2, SeqSetInduction
<1> QED
  BY <1>3 DEF U

-----------------------------------------------------------------------------
(* Putting sequences together *)

Flattens(f, q, n) == f = [i \in 1..n |-> IF i = 1 THEN q[i] ELSE f[i - 1] \o q[i]]

LEMMA FlattenIsChosen ==
  ASSUME NEW q
  PROVE  FlattenSeq(q) = IF Len(q) = 0 THEN q
                         ELSE (CHOOSE f : Flattens(f, q, Len(q)))[Len(q)]
BY DEF FlattenSeq, Flattens

LEMMA FlattensExists ==
  ASSUME NEW q, NEW n \in Nat
  PROVE  \E f : Flattens(f, q, n)
<1> DEFINE T == {m \in Nat : \E f : Flattens(f, q, m)}
<1>1. 0 \in T
  <2>1. Flattens([i \in 1..0 |-> q], q, 0)
    BY DEF Flattens
  <2> QED
    BY <2>1
<1>2. ASSUME NEW m \in Nat, m \in T PROVE m + 1 \in T
  <2>1. PICK f : Flattens(f, q, m)
    BY <1>2
  <2> DEFINE g == [i \in 1..(m + 1) |->
                     IF i = 1 THEN q[i]
                     ELSE (IF i = m + 1 THEN f[m] ELSE f[i - 1]) \o q[i]]
  <2>2. ASSUME NEW i \in 1..(m + 1), i # 1
        PROVE  g[i - 1] = IF i = m + 1 THEN f[m] ELSE f[i - 1]
    <3>1. i - 1 \in 1..m /\ i - 1 \in 1..(m + 1)
      BY <2>2
    <3>2. f[i - 1] = IF i - 1 = 1 THEN q[i - 1] ELSE f[(i - 1) - 1] \o q[i - 1]
      BY <2>1, <3>1 DEF Flattens
    <3>3. g[i - 1] = IF i - 1 = 1 THEN q[i - 1] ELSE f[(i - 1) - 1] \o q[i - 1]
      BY <3>1
    <3>4. (i = m + 1) => (i - 1 = m)
      OBVIOUS
    <3> HIDE DEF g
    <3> QED
      BY <3>2, <3>3, <3>4
  <2>3. Flattens(g, q, m + 1)
    BY <2>2 DEF Flattens
  <2> QED
    BY <2>3
<1> HIDE DEF T
<1>3. n \in T
  BY <1>1, <1>2, NatSetInduction
<1> QED
  BY <1>3 DEF T

LEMMA FlattensAgree ==
  ASSUME NEW q, NEW r, NEW k \in Nat, NEW n \in 0..k, \A i \in 1..n : q[i] = r[i],
         NEW f, Flattens(f, q, n), NEW g, Flattens(g, r, k)
  PROVE  n # 0 => f[n] = g[n]
<1> DEFINE T == {m \in Nat : m \in 1..n => f[m] = g[m]}
<1>1. 0 \in T
  OBVIOUS
<1>2. ASSUME NEW m \in Nat, m \in T PROVE m + 1 \in T
  <2>1. CASE m + 1 \in 1..n
    <3>1. /\ m + 1 \in 1..k /\ q[m + 1] = r[m + 1]
          /\ m + 1 # 1 => m \in 1..n /\ (m + 1) - 1 = m
      BY <2>1
    <3>2. f[m + 1] = IF m + 1 = 1 THEN q[m + 1] ELSE f[(m + 1) - 1] \o q[m + 1]
      BY <2>1 DEF Flattens
    <3>3. g[m + 1] = IF m + 1 = 1 THEN r[m + 1] ELSE g[(m + 1) - 1] \o r[m + 1]
      BY <3>1 DEF Flattens
    <3>4. m + 1 # 1 => f[m] = g[m]
      BY <1>2, <3>1
    <3> QED
      BY <3>1, <3>2, <3>3, <3>4
  <2> QED
    BY <2>1
<1> HIDE DEF T
<1>3. Nat \subseteq T
  BY <1>1, <1>2, NatSetInduction
<1> QED
  BY <1>3 DEF T

LEMMA FlattenEmpty == FlattenSeq(<<>>) = <<>>
BY FlattenIsChosen

LEMMA FlattenAppend ==
  ASSUME NEW S, NEW q \in Seq(Seq(S)), NEW x \in Seq(S)
  PROVE  FlattenSeq(Append(q, x)) = FlattenSeq(q) \o x
<1> DEFINE r == Append(q, x)
           n == Len(q)
           f == CHOOSE g : Flattens(g, q, n)
           h == CHOOSE g : Flattens(g, r, n + 1)
<1>1. /\ n \in Nat /\ n + 1 \in Nat /\ Len(r) = n + 1 /\ Len(q) = n
      /\ r[n + 1] = x /\ \A i \in 1..n : q[i] = r[i]
  OBVIOUS
<1>2. n = 0 => q = <<>>
  BY EmptySeq
<1> HIDE DEF r, n
<1>3. Flattens(f, q, n) /\ Flattens(h, r, n + 1)
  BY <1>1, FlattensExists
<1>4. FlattenSeq(r) = h[n + 1] /\ (n # 0 => FlattenSeq(q) = f[n])
  BY <1>1, FlattenIsChosen
<1> HIDE DEF f, h
<1>5. h[n + 1] = IF n + 1 = 1 THEN x ELSE h[(n + 1) - 1] \o x
  <2>1. n + 1 \in 1..(n + 1)
    BY <1>1
  <2> QED
    BY <1>1, <1>3, <2>1 DEF Flattens
<1>6. CASE n = 0
  <2>1. FlattenSeq(q) = <<>> /\ h[n + 1] = x
    BY <1>2, <1>5, <1>6, FlattenEmpty
  <2> QED
    BY <1>4, <2>1, ConcatEmptySeq DEF r
<1>7. CASE n # 0
  <2>1. n \in 1..n /\ (n + 1) - 1 = n /\ n \in 0..(n + 1) /\ n + 1 # 1
    BY <1>1, <1>7
  <2>2. f[n] = h[n]
    <3> DEFINE k == n + 1
    <3>1. /\ k \in Nat /\ n \in 0..k /\ n # 0 /\ \A i \in 1..n : q[i] = r[i]
          /\ Flattens(f, q, n) /\ Flattens(h, r, k)
      BY <1>1, <1>3, <1>7, <2>1
    <3> HIDE DEF k
    <3> QED
      BY <3>1, FlattensAgree, SMTT(60)
  <2> QED
    BY <1>4, <1>5, <1>7, <2>1, <2>2 DEF r
<1> QED
  BY <1>6, <1>7

LEMMA FlattenType ==
  ASSUME NEW S, NEW q \in Seq(Seq(S))
  PROVE  FlattenSeq(q) \in Seq(S)
<1> DEFINE U == {r \in Seq(Seq(S)) : FlattenSeq(r) \in Seq(S)}
<1>1. <<>> \in U
  <2>1. <<>> \in Seq(Seq(S)) /\ <<>> \in Seq(S)
    OBVIOUS
  <2> QED
    BY <2>1, FlattenEmpty, Zenon
<1>2. ASSUME NEW r \in Seq(Seq(S)), NEW x \in Seq(S), r \in U PROVE Append(r, x) \in U
  <2>1. FlattenSeq(r) \in Seq(S) /\ Append(r, x) \in Seq(Seq(S))
    BY <1>2
  <2>2. FlattenSeq(r) \o x \in Seq(S)
    BY <2>1
  <2> QED
    BY <2>1, <2>2, FlattenAppend, Zenon
<1> HIDE DEF U
<1>3. q \in U
  BY <1>1, <1>2, SeqSetInduction
<1> QED
  BY <1>3 DEF U

LEMMA FlattenConcat ==
  ASSUME NEW S, NEW p \in Seq(Seq(S)), NEW q \in Seq(Seq(S))
  PROVE  FlattenSeq(p \o q) = FlattenSeq(p) \o FlattenSeq(q)
<1> DEFINE U == {r \in Seq(Seq(S)) : FlattenSeq(p \o r) = FlattenSeq(p) \o FlattenSeq(r)}
<1>1. <<>> \in U
  <2>1. FlattenSeq(p) \in Seq(S)
    BY FlattenType
  <2> QED
    BY <2>1, FlattenEmpty, ConcatEmptySeq
<1>2. ASSUME NEW r \in Seq(Seq(S)), NEW x \in Seq(S), r \in U PROVE Append(r, x) \in U
  <2>1. /\ p \o Append(r, x) = Append(p \o r, x) /\ p \o r \in Seq(Seq(S))
        /\ Append(r, x) \in Seq(Seq(S))
    OBVIOUS
  <2>2. FlattenSeq(Append(p \o r, x)) = FlattenSeq(p \o r) \o x
    BY <2>1, FlattenAppend
  <2>3. FlattenSeq(Append(r, x)) = FlattenSeq(r) \o x
    BY FlattenAppend
  <2>4. FlattenSeq(p) \in Seq(S) /\ FlattenSeq(r) \in Seq(S)
    BY FlattenType
  <2>5. (FlattenSeq(p) \o FlattenSeq(r)) \o x = FlattenSeq(p) \o (FlattenSeq(r) \o x)
    <3> DEFINE a == FlattenSeq(p)
               b == FlattenSeq(r)
    <3>1. a \in Seq(S) /\ b \in Seq(S)
      BY <2>4
    <3> HIDE DEF a, b
    <3>2. (a \o b) \o x = a \o (b \o x)
      BY <3>1, ConcatAssociative
    <3> QED
      BY <3>2 DEF a, b
  <2> QED
    BY <1>2, <2>1, <2>2, <2>3, <2>5
<1> HIDE DEF U
<1>3. q \in U
  BY <1>1, <1>2, SeqSetInduction
<1> QED
  BY <1>3 DEF U
=============================================================================
