---------------------------- MODULE ClientProofs ----------------------------
(***************************************************************************)
(* Theorems about Client, for every log, every terminal and every bound on *)
(* the blocks that are kept.  What an event does to the folded state is    *)
(* proved handler by handler: that it keeps the index and the bounds       *)
(* (Good), that it touches what it changes (Goes), and that it does the    *)
(* same to two states that differ only in what a person decided (Agree).   *)
(***************************************************************************)
EXTENDS Client, SequenceTheorems, TLAPS

-----------------------------------------------------------------------------
(* Sequences of anything *)

IsSeq(q) == \E S : q \in Seq(S)

LEMMA SeqIs ==
  ASSUME NEW q, IsSeq(q)
  PROVE  Len(q) \in Nat /\ DOMAIN q = 1..Len(q) /\ q = [i \in 1..Len(q) |-> q[i]]
BY DEF IsSeq

LEMMA SeqFrom ==
  ASSUME NEW n \in Nat, NEW q, q = [i \in 1..n |-> q[i]]
  PROVE  IsSeq(q) /\ Len(q) = n /\ DOMAIN q = 1..n
<1> DEFINE S == {q[i] : i \in 1..n}
<1>1. q \in [1..n -> S]
  OBVIOUS
<1> HIDE DEF S
<1> QED
  BY <1>1 DEF IsSeq

LEMMA SeqAppend ==
  ASSUME NEW q, IsSeq(q), NEW x
  PROVE  /\ IsSeq(Append(q, x)) /\ Len(Append(q, x)) = Len(q) + 1
         /\ \A i \in 1..Len(q) : Append(q, x)[i] = q[i]
         /\ Append(q, x)[Len(q) + 1] = x
<1>1. PICK S : q \in Seq(S)
  BY DEF IsSeq
<1>2. q \in Seq(S \cup {x})
  BY <1>1
<1>3. Append(q, x) \in Seq(S \cup {x})
  BY <1>2
<1> QED
  BY <1>2, <1>3 DEF IsSeq

\* What is left of a sequence without its first m elements.
LEMMA SeqDrop ==
  ASSUME NEW q, IsSeq(q), NEW m \in 0..Len(q)
  PROVE  /\ IsSeq(SubSeq(q, m + 1, Len(q))) /\ Len(SubSeq(q, m + 1, Len(q))) = Len(q) - m
         /\ \A i \in 1..(Len(q) - m) : SubSeq(q, m + 1, Len(q))[i] = q[m + i]
<1>1. PICK S : q \in Seq(S)
  BY DEF IsSeq
<1>2. SubSeq(q, m + 1, Len(q)) \in Seq(S)
  BY <1>1
<1>3. /\ Len(SubSeq(q, m + 1, Len(q))) = Len(q) - m
      /\ \A i \in 1..(Len(q) - m) : SubSeq(q, m + 1, Len(q))[i] = q[m + i]
  BY <1>1
<1> QED
  BY <1>2, <1>3 DEF IsSeq

-----------------------------------------------------------------------------
(* States *)

Fields ==
  {"blocks", "refs", "order", "rev", "proposed", "outcome", "nextID", "dropped",
   "state", "tone", "turn", "loading", "mode", "dirty", "approval", "command",
   "cwd", "branch", "model", "ctxLimit", "percent", "label", "cost", "forked",
   "forks", "usage", "rules", "inScope", "goals", "server", "diagnostics", "sandbox"}

\* The fields that file the blocks.
Files == {"blocks", "refs", "order", "rev", "proposed", "outcome", "nextID", "dropped"}

IsState(s) == s = [f \in Fields |-> s[f]]

LEMMA NewIsState == IsState(New)
BY DEF IsState, New, Fields

IsLines(q) == IsSeq(q) /\ \A i \in 1..Len(q) : IsSeq(q[i])

IsBlock(b) == /\ b = [f \in {"id", "tag", "tone", "meta", "lines", "rev"} |-> b[f]]
              /\ b.id \in Nat /\ b.rev \in Nat /\ IsLines(b.lines)

\* How a session's blocks are filed: each has the identity that follows the one
\* before it, is found under its own reference, and has the revision kept for it.
Filed(s) ==
  /\ IsState(s)
  /\ IsSeq(s.blocks) /\ IsSeq(s.refs)
  /\ \A i \in 1..Len(s.blocks) : IsBlock(s.blocks[i])
  /\ s.dropped \in Nat /\ s.nextID = s.dropped + Len(s.blocks)
  /\ \A i \in 1..Len(s.blocks) : s.blocks[i].id = s.dropped + i
  /\ Indexed(s)
  /\ DOMAIN s.rev \cup DOMAIN s.proposed \cup DOMAIN s.outcome \subseteq DOMAIN s.order
  /\ \A r \in DOMAIN s.order : Get(s.rev, r, 0) = BlockOf(s, r).rev

\* The limit on the blocks that are kept.
Small(s) == MaxBlocks > 0 => Len(s.blocks) <= MaxBlocks + TrimSlack

\* From s to t no block changes but that its revision grows, and none comes
\* back under an identity that was another's.
Evolves(s, t) ==
  /\ s.nextID <= t.nextID /\ s.dropped <= t.dropped
  /\ \A i \in 1..Len(s.blocks), j \in 1..Len(t.blocks) :
       s.blocks[i].id = t.blocks[j].id =>
         t.blocks[j] = s.blocks[i] \/ t.blocks[j].rev > s.blocks[i].rev

LEMMA NewIsFiled == Filed(New) /\ Small(New)
<1>1. New.blocks = <<>> /\ New.refs = <<>> /\ New.order = <<>> /\ New.rev = <<>>
      /\ New.proposed = <<>> /\ New.outcome = <<>> /\ New.nextID = 0 /\ New.dropped = 0
  BY DEF New
<1>2. IsSeq(<<>>) /\ Len(<<>>) = 0 /\ DOMAIN <<>> = {}
  BY DEF IsSeq
<1>3. Indexed(New)
  BY <1>1, <1>2 DEF Indexed, ToSet
<1>4. Small(New)
  BY <1>1, <1>2, FoldAssumption DEF Small
<1> QED
  BY <1>1, <1>2, <1>3, <1>4, NewIsState DEF Filed

LEMMA FiledSeqs ==
  ASSUME NEW s, Filed(s)
  PROVE  /\ Len(s.blocks) \in Nat /\ Len(s.refs) = Len(s.blocks)
         /\ DOMAIN s.blocks = 1..Len(s.blocks) /\ DOMAIN s.refs = 1..Len(s.blocks)
         /\ s.nextID \in Nat /\ s.dropped \in Nat
         /\ \A r : r \in DOMAIN s.order <=> \E i \in 1..Len(s.blocks) : s.refs[i] = r
         /\ \A i \in 1..Len(s.blocks) : s.order[s.refs[i]] = i
         /\ \A r \in DOMAIN s.order : s.order[r] \in 1..Len(s.blocks) /\ s.refs[s.order[r]] = r
<1>1. /\ Len(s.blocks) \in Nat /\ Len(s.refs) = Len(s.blocks)
      /\ DOMAIN s.blocks = 1..Len(s.blocks) /\ DOMAIN s.refs = 1..Len(s.blocks)
  BY SeqIs DEF Filed, Indexed
<1>2. DOMAIN s.order = ToSet(s.refs) /\ \A i \in 1..Len(s.blocks) : s.order[s.refs[i]] = i
  BY <1>1 DEF Filed, Indexed
<1>3. \A r : r \in DOMAIN s.order <=> \E i \in 1..Len(s.blocks) : s.refs[i] = r
  BY <1>1, <1>2 DEF ToSet
<1>4. s.nextID \in Nat /\ s.dropped \in Nat
  BY <1>1 DEF Filed
<1>5. ASSUME NEW r \in DOMAIN s.order
      PROVE  s.order[r] \in 1..Len(s.blocks) /\ s.refs[s.order[r]] = r
  <2>1. PICK i \in 1..Len(s.blocks) : s.refs[i] = r
    BY <1>3
  <2>2. s.order[r] = i
    BY <1>2, <2>1
  <2> QED
    BY <2>1, <2>2
<1> QED
  BY <1>1, <1>2, <1>3, <1>4, <1>5

LEMMA EvolvesSelf ==
  ASSUME NEW s, Filed(s)
  PROVE  Evolves(s, s)
<1>1. \A i, j \in 1..Len(s.blocks) : s.blocks[i].id = s.blocks[j].id => i = j
  <2>1. s.dropped \in Nat /\ \A i \in 1..Len(s.blocks) : s.blocks[i].id = s.dropped + i
    BY DEF Filed
  <2> QED
    BY <2>1, FiledSeqs
<1> QED
  BY <1>1, FiledSeqs DEF Evolves

LEMMA EvolvesThrough ==
  ASSUME NEW s, NEW t, NEW u, Filed(s), Filed(t), Filed(u), Evolves(s, t), Evolves(t, u)
  PROVE  Evolves(s, u)
<1>1. ASSUME NEW i \in 1..Len(s.blocks), NEW j \in 1..Len(u.blocks),
             s.blocks[i].id = u.blocks[j].id
      PROVE  u.blocks[j] = s.blocks[i] \/ u.blocks[j].rev > s.blocks[i].rev
  <2> DEFINE k == s.dropped + i - t.dropped
  <2>1. /\ s.dropped \in Nat /\ t.dropped \in Nat /\ u.dropped \in Nat
        /\ Len(s.blocks) \in Nat /\ Len(t.blocks) \in Nat /\ Len(u.blocks) \in Nat
        /\ s.nextID = s.dropped + Len(s.blocks) /\ t.nextID = t.dropped + Len(t.blocks)
        /\ s.blocks[i].id = s.dropped + i /\ u.blocks[j].id = u.dropped + j
        /\ \A n \in 1..Len(t.blocks) : t.blocks[n].id = t.dropped + n
    BY FiledSeqs DEF Filed
  <2>2. s.nextID <= t.nextID /\ t.dropped <= u.dropped
    BY DEF Evolves
  <2>3. k \in 1..Len(t.blocks) /\ t.dropped + k = s.dropped + i
    <3> DEFINE m == Len(s.blocks)
               n == Len(t.blocks)
               sd == s.dropped
               td == t.dropped
    <3>1. /\ m \in Nat /\ n \in Nat /\ sd \in Nat /\ td \in Nat /\ i \in 1..m /\ j \in Nat
          /\ u.dropped \in Nat /\ td <= u.dropped /\ j >= 1
      BY <2>1, <2>2
    <3>2. sd + m <= td + n
      BY <2>1, <2>2, Zenon
    <3>3. sd + i = u.dropped + j
      BY <1>1, <2>1, Zenon
    <3> HIDE DEF m, n, sd, td
    <3>4. sd + i - td \in 1..n /\ td + (sd + i - td) = sd + i
      BY <3>1, <3>2, <3>3
    <3> QED
      BY <3>4 DEF n, sd, td
  <2>4. t.blocks[k].id = s.blocks[i].id
    <3> HIDE DEF k
    <3>1. t.blocks[k].id = t.dropped + k
      BY <2>1, <2>3, Zenon
    <3> QED
      BY <2>1, <2>3, <3>1, Zenon
  <2>5. s.blocks[i].rev \in Nat /\ t.blocks[k].rev \in Nat /\ u.blocks[j].rev \in Nat
    BY <2>3 DEF Filed, IsBlock
  <2> HIDE DEF k
  <2>6. t.blocks[k] = s.blocks[i] \/ t.blocks[k].rev > s.blocks[i].rev
    BY <2>3, <2>4 DEF Evolves
  <2>7. u.blocks[j] = t.blocks[k] \/ u.blocks[j].rev > t.blocks[k].rev
    BY <1>1, <2>3, <2>4 DEF Evolves
  <2> QED
    BY <2>5, <2>6, <2>7
<1>2. s.nextID <= u.nextID /\ s.dropped <= u.dropped
  BY FiledSeqs DEF Evolves
<1> QED
  BY <1>1, <1>2 DEF Evolves

-----------------------------------------------------------------------------
(* The blocks a session keeps *)

\* Dropping the oldest blocks leaves the others as they are filed.
LEMMA TrimKeeps ==
  ASSUME NEW s, Filed(s), Len(s.blocks) > 0
  PROVE  /\ Filed(trim(s)) /\ Small(trim(s)) /\ Evolves(s, trim(s))
         /\ \A f \in Fields \ Files : trim(s)[f] = s[f]
         /\ s.refs[Len(s.blocks)] \in DOMAIN trim(s).order
<1> DEFINE N == Len(s.blocks)
<1>1. CASE MaxBlocks = 0 \/ N <= MaxBlocks + TrimSlack
  <2>1. trim(s) = s
    BY <1>1 DEF trim
  <2>2. Small(s)
    BY <1>1, FoldAssumption DEF Small
  <2>3. N \in 1..N
    BY FiledSeqs
  <2> QED
    BY <2>1, <2>2, <2>3, EvolvesSelf, FiledSeqs
<1>2. CASE ~(MaxBlocks = 0 \/ N <= MaxBlocks + TrimSlack)
  <2> DEFINE d    == N - MaxBlocks
             refs == SubSeq(s.refs, d + 1, Len(s.refs))
             gone == ToSet(SubSeq(s.refs, 1, d))
             kept == SubSeq(s.blocks, d + 1, Len(s.blocks))
             order == Reindex(Without(s.order, gone), refs)
             t == trim(s)
  <2>1. /\ N \in Nat /\ d \in 1..N /\ N - d = MaxBlocks /\ MaxBlocks \in 1..N
        /\ Len(s.refs) = N /\ DOMAIN s.refs = 1..N
    BY <1>2, FiledSeqs, FoldAssumption
  <2>2. t = [Forget(s, gone) EXCEPT !.blocks = SubSeq(@, d + 1, Len(@)), !.refs = refs,
                                    !.order = Reindex(@, refs), !.dropped = @ + d]
    BY <1>2 DEF trim
  <2>3. IsState(s)
    BY DEF Filed
  <2> HIDE DEF d, refs, gone, t
  <2> DEFINE f == Forget(s, gone)
  <2>3a. /\ IsState(f) /\ f.blocks = s.blocks /\ f.dropped = s.dropped
         /\ f.nextID = s.nextID /\ f.order = Without(s.order, gone)
         /\ f.rev = Without(s.rev, gone) /\ f.proposed = Without(s.proposed, gone)
         /\ f.outcome = Without(s.outcome, gone)
         /\ \A x \in Fields \ Files : f[x] = s[x]
    BY <2>3 DEF IsState, Fields, Files, Forget
  <2>3b. t = [f EXCEPT !.blocks = SubSeq(f.blocks, d + 1, Len(f.blocks)), !.refs = refs,
                       !.order = Reindex(f.order, refs), !.dropped = f.dropped + d]
    BY <2>2
  <2>3c. kept = SubSeq(f.blocks, d + 1, Len(f.blocks)) /\ order = Reindex(f.order, refs)
    BY <2>3a
  <2> HIDE DEF kept, order, f
  <2>3d. t = [f EXCEPT !.blocks = kept, !.refs = refs, !.order = order,
                       !.dropped = f.dropped + d]
    BY <2>3b, <2>3c
  <2>4. /\ IsState(t)
        /\ t.blocks = kept /\ t.refs = refs /\ t.order = order
        /\ t.dropped = s.dropped + d /\ t.nextID = s.nextID
        /\ t.rev = Without(s.rev, gone) /\ t.proposed = Without(s.proposed, gone)
        /\ t.outcome = Without(s.outcome, gone)
        /\ \A x \in Fields \ Files : t[x] = s[x]
    BY <2>3a, <2>3d DEF IsState, Fields, Files
  <2>4a. IsSeq(s.refs) /\ IsSeq(s.blocks) /\ d \in 0..Len(s.refs) /\ d \in 0..Len(s.blocks)
    BY <2>1 DEF Filed
  <2>5. /\ IsSeq(refs) /\ Len(refs) = N - d /\ DOMAIN refs = 1..(N - d)
        /\ \A i \in 1..(N - d) : refs[i] = s.refs[d + i]
    <3>1. /\ IsSeq(refs) /\ Len(refs) = N - d
          /\ \A i \in 1..(N - d) : refs[i] = s.refs[d + i]
      <4> HIDE DEF N
      <4> QED
        BY <2>1, <2>4a, SeqDrop DEF refs
    <3> QED
      BY <3>1, SeqIs
  <2>6. /\ IsSeq(kept) /\ Len(kept) = N - d
        /\ \A i \in 1..(N - d) : kept[i] = s.blocks[d + i]
    BY <2>4a, SeqDrop DEF kept
  <2>7. gone = {s.refs[i] : i \in 1..d}
    <3>1. PICK S : s.refs \in Seq(S)
      BY DEF Filed, IsSeq
    <3>2. /\ DOMAIN SubSeq(s.refs, 1, d) = 1..d
          /\ \A i \in 1..d : SubSeq(s.refs, 1, d)[i] = s.refs[i]
      BY <2>1, <3>1
    <3> QED
      BY <3>2 DEF gone, ToSet
  <2>8. \A i \in 1..(N - d) : d + i \in 1..N
    BY <2>1
  <2>9. \A i, j \in 1..N : s.refs[i] = s.refs[j] => i = j
    BY FiledSeqs
  <2>10. DOMAIN order = DOMAIN s.order \ gone
    BY DEF Reindex, Without, order
  <2> HIDE DEF N
  <2>11. \A i \in 1..(N - d) : refs[i] \in DOMAIN order
    <3>1. ASSUME NEW i \in 1..(N - d), refs[i] \in gone PROVE FALSE
      <4>1. PICK j \in 1..d : s.refs[d + i] = s.refs[j]
        BY <2>5, <2>7, <3>1
      <4>2. d + i \in 1..N /\ j \in 1..N /\ d + i # j
        BY <2>1, <2>8
      <4> QED
        BY <2>9, <4>1, <4>2
    <3>2. \A i \in 1..(N - d) : refs[i] \in DOMAIN s.order
      BY <2>5, <2>8, FiledSeqs DEF N
    <3> QED
      BY <2>10, <3>1, <3>2
  <2>12. \A r \in DOMAIN order : \E i \in 1..(N - d) : refs[i] = r
    <3> SUFFICES ASSUME NEW r \in DOMAIN order PROVE \E i \in 1..(N - d) : refs[i] = r
      OBVIOUS
    <3>1. r \in DOMAIN s.order /\ r \notin gone
      BY <2>10
    <3>2. PICK j \in 1..N : s.refs[j] = r
      BY <3>1, FiledSeqs DEF N
    <3>3. j \notin 1..d
      BY <2>7, <3>1, <3>2
    <3>4. j - d \in 1..(N - d) /\ d + (j - d) = j
      BY <2>1, <3>3
    <3> QED
      BY <2>5, <3>2, <3>4
  <2>13. \A i, j \in 1..(N - d) : refs[i] = refs[j] => i = j
    <3> SUFFICES ASSUME NEW i \in 1..(N - d), NEW j \in 1..(N - d), refs[i] = refs[j]
                 PROVE  i = j
      OBVIOUS
    <3>1. d + i = d + j
      BY <2>5, <2>8, <2>9
    <3> QED
      BY <2>1, <3>1
  <2>14. \A i \in 1..(N - d) : order[refs[i]] = i
    <3> SUFFICES ASSUME NEW i \in 1..(N - d) PROVE order[refs[i]] = i
      OBVIOUS
    <3>1. order[refs[i]] = CHOOSE j \in 1..(N - d) : refs[j] = refs[i]
      BY <2>5, <2>10, <2>11 DEF order, Reindex
    <3>2. \E j \in 1..(N - d) : refs[j] = refs[i]
      OBVIOUS
    <3> QED
      BY <2>13, <3>1, <3>2
  <2>15. Indexed(t)
    <3>1. Len(t.refs) = Len(t.blocks) /\ DOMAIN t.refs = 1..(N - d)
      BY <2>4, <2>5, <2>6
    <3>2. DOMAIN t.order = ToSet(t.refs)
      <4>1. ToSet(refs) = {refs[i] : i \in 1..(N - d)}
        BY <2>5 DEF ToSet
      <4> QED
        BY <2>4, <2>11, <2>12, <4>1
    <3> QED
      BY <2>4, <2>14, <3>1, <3>2 DEF Indexed
  <2>16. DOMAIN t.rev \cup DOMAIN t.proposed \cup DOMAIN t.outcome \subseteq DOMAIN t.order
    <3>1. DOMAIN s.rev \cup DOMAIN s.proposed \cup DOMAIN s.outcome \subseteq DOMAIN s.order
      BY DEF Filed
    <3> QED
      BY <2>4, <2>10, <3>1 DEF Without
  <2>17. /\ \A i \in 1..Len(t.blocks) : IsBlock(t.blocks[i])
         /\ \A i \in 1..Len(t.blocks) : t.blocks[i].id = t.dropped + i
         /\ t.dropped \in Nat /\ t.nextID = t.dropped + Len(t.blocks)
    <3>1. /\ \A i \in 1..N : IsBlock(s.blocks[i]) /\ s.blocks[i].id = s.dropped + i
          /\ s.dropped \in Nat /\ s.nextID = s.dropped + N
      BY DEF Filed, N
    <3>2. \A i \in 1..(N - d) : s.dropped + (d + i) = (s.dropped + d) + i
      BY <2>1, <3>1
    <3>3. s.dropped + d \in Nat /\ s.dropped + N = (s.dropped + d) + (N - d)
      BY <2>1, <3>1
    <3>4. \A i \in 1..(N - d) : IsBlock(kept[i]) /\ kept[i].id = s.dropped + d + i
      BY <2>6, <2>8, <3>1, <3>2
    <3> QED
      BY <2>4, <2>6, <3>1, <3>3, <3>4
  <2>18. \A r \in DOMAIN t.order : Get(t.rev, r, 0) = BlockOf(t, r).rev
    <3> SUFFICES ASSUME NEW r \in DOMAIN order PROVE Get(t.rev, r, 0) = BlockOf(t, r).rev
      BY <2>4
    <3>1. r \in DOMAIN s.order /\ r \notin gone
      BY <2>10
    <3>2. PICK i \in 1..(N - d) : refs[i] = r
      BY <2>12
    <3>3. order[r] = i /\ t.blocks[i] = s.blocks[d + i]
      BY <2>4, <2>6, <2>14, <3>2
    <3>4. s.order[r] = d + i
      BY <2>5, <2>8, <3>2, FiledSeqs DEF N
    <3>5. BlockOf(t, r) = BlockOf(s, r)
      BY <2>4, <3>3, <3>4 DEF BlockOf
    <3>6. Get(t.rev, r, 0) = Get(s.rev, r, 0)
      BY <2>4, <3>1 DEF Get, Without
    <3> QED
      BY <3>1, <3>5, <3>6 DEF Filed
  <2>19. Filed(t)
    BY <2>4, <2>5, <2>6, <2>15, <2>16, <2>17, <2>18 DEF Filed
  <2>20. Evolves(s, t)
    <3>1. ASSUME NEW i \in 1..Len(s.blocks), NEW j \in 1..Len(t.blocks),
                 s.blocks[i].id = t.blocks[j].id
          PROVE  t.blocks[j] = s.blocks[i]
      <4>1. d + j \in 1..N /\ t.blocks[j] = s.blocks[d + j]
        BY <2>4, <2>6, <2>8
      <4>2. s.blocks[i].id = s.dropped + i /\ s.blocks[d + j].id = s.dropped + (d + j)
            /\ s.dropped \in Nat
        BY <4>1 DEF Filed, N
      <4>3. i = d + j
        BY <2>1, <3>1, <4>1, <4>2
      <4> QED
        BY <4>1, <4>3
    <3>2. s.nextID <= t.nextID /\ s.dropped <= t.dropped
      BY <2>1, <2>4, FiledSeqs
    <3> QED
      BY <3>1, <3>2 DEF Evolves
  <2>21. Small(t)
    BY <2>1, <2>4, <2>6, FoldAssumption DEF Small
  <2>22. s.refs[N] \in DOMAIN t.order
    <3>1. N - d \in 1..(N - d) /\ d + (N - d) = N
      BY <2>1
    <3> QED
      BY <2>4, <2>5, <2>11, <3>1
  <2> QED
    BY <2>4, <2>19, <2>20, <2>21, <2>22 DEF t, N
<1> QED
  BY <1>1, <1>2

-----------------------------------------------------------------------------
(* Opening a block, and what an event does to it *)

\* What the panels and the figures are read from is the same.
SameRest(s, t) == \A f \in Fields \ Files : t[f] = s[f]

LEMMA BlockKeeps ==
  ASSUME NEW s, Filed(s), Small(s), NEW ref, NEW tag, NEW tone, NEW meta
  PROVE  LET t == block(s, ref, tag, tone, meta)
         IN  /\ Filed(t) /\ Small(t) /\ Evolves(s, t) /\ SameRest(s, t)
             /\ ref \in DOMAIN t.order
<1> DEFINE t == block(s, ref, tag, tone, meta)
<1>1. CASE ref \in DOMAIN s.order
  <2>1. t = s
    BY <1>1 DEF block
  <2> QED
    BY <1>1, <2>1, EvolvesSelf DEF SameRest
<1>2. CASE ref \notin DOMAIN s.order
  <2> DEFINE N == Len(s.blocks)
             b == [id |-> NextID(s), tag |-> tag, tone |-> tone,
                   meta |-> meta, lines |-> <<>>, rev |-> 0]
             blocks == Append(s.blocks, b)
             refs == Append(s.refs, ref)
             order == With(s.order, ref, N + 1)
             u == [s EXCEPT !.nextID = NextID(s), !.blocks = Append(@, b),
                            !.refs = Append(@, ref), !.order = With(@, ref, N + 1)]
  <2>1. t = trim(u)
    BY <1>2 DEF block
  <2>2. /\ N \in Nat /\ Len(s.refs) = N /\ s.nextID \in Nat /\ s.dropped \in Nat
        /\ DOMAIN s.blocks = 1..N /\ DOMAIN s.refs = 1..N
    BY FiledSeqs
  <2>3. /\ b.id = NextID(s) /\ b.rev = 0 /\ IsBlock(b)
    <3>1. NextID(s) \in Nat
      BY <2>2 DEF NextID
    <3>2. IsLines(<<>>)
      BY DEF IsLines, IsSeq
    <3> QED
      BY <3>1, <3>2 DEF IsBlock
  <2> HIDE DEF b, N
  <2>4. /\ IsState(u) /\ u.nextID = NextID(s) /\ u.dropped = s.dropped
        /\ u.blocks = blocks /\ u.refs = refs /\ u.order = order
        /\ u.rev = s.rev /\ u.proposed = s.proposed /\ u.outcome = s.outcome
        /\ SameRest(s, u)
    <3>1. IsState(s)
      BY DEF Filed
    <3>2. u = [s EXCEPT !.nextID = NextID(s), !.blocks = blocks, !.refs = refs, !.order = order]
      OBVIOUS
    <3> HIDE DEF blocks, refs, order, u
    <3> QED
      BY <3>1, <3>2 DEF IsState, Fields, Files, SameRest
  <2>5. /\ IsSeq(blocks) /\ Len(blocks) = N + 1 /\ blocks[N + 1] = b
        /\ \A i \in 1..N : blocks[i] = s.blocks[i]
    <3>1. IsSeq(s.blocks) /\ Len(s.blocks) = N
      BY DEF Filed, N
    <3> QED
      BY <3>1, SeqAppend
  <2>6. /\ IsSeq(refs) /\ Len(refs) = N + 1 /\ refs[N + 1] = ref
        /\ \A i \in 1..N : refs[i] = s.refs[i]
    <3>1. IsSeq(s.refs) /\ Len(s.refs) = N
      BY <2>2 DEF Filed
    <3> QED
      BY <3>1, SeqAppend
  <2> HIDE DEF blocks, refs, u
  <2>7. DOMAIN blocks = 1..(N + 1) /\ DOMAIN refs = 1..(N + 1)
    BY <2>5, <2>6, SeqIs
  <2>8. /\ DOMAIN order = DOMAIN s.order \cup {ref} /\ order[ref] = N + 1
        /\ \A r \in DOMAIN s.order : order[r] = s.order[r]
    BY <1>2 DEF With, order
  <2> HIDE DEF order
  <2>8a. \A i \in 1..(N + 1) : i \in 1..N \/ i = N + 1
    BY <2>2
  <2>8b. \A i \in 1..N : i \in 1..(N + 1)
    BY <2>2
  <2>8c. N + 1 \in 1..(N + 1)
    BY <2>2
  <2>9. Indexed(u)
    <3>1. DOMAIN order = ToSet(refs)
      <4>1. ToSet(refs) = {refs[i] : i \in 1..(N + 1)}
        BY <2>7 DEF ToSet
      <4>2. \A r : r \in DOMAIN s.order <=> \E i \in 1..N : s.refs[i] = r
        BY FiledSeqs DEF N
      <4> QED
        BY <2>6, <2>8, <2>8a, <2>8b, <2>8c, <4>1, <4>2
    <3>2. \A i \in 1..(N + 1) : order[refs[i]] = i
      <4>1. \A i \in 1..N : s.order[s.refs[i]] = i /\ s.refs[i] \in DOMAIN s.order
        BY FiledSeqs DEF N
      <4> QED
        BY <2>6, <2>8, <2>8a, <4>1
    <3> QED
      BY <2>4, <2>5, <2>6, <2>7, <3>1, <3>2 DEF Indexed
  <2>10. /\ \A i \in 1..(N + 1) : IsBlock(u.blocks[i]) /\ u.blocks[i].id = u.dropped + i
         /\ u.dropped \in Nat /\ u.nextID = u.dropped + (N + 1)
    <3>1. /\ \A i \in 1..N : IsBlock(s.blocks[i]) /\ s.blocks[i].id = s.dropped + i
          /\ s.nextID = s.dropped + N
      BY DEF Filed, N
    <3>2. NextID(s) = s.dropped + (N + 1)
      <4>1. NextID(s) = (s.dropped + N) + 1
        BY <3>1, Zenon DEF NextID
      <4> QED
        BY <2>2, <4>1
    <3> QED
      BY <2>2, <2>3, <2>4, <2>5, <2>8a, <3>1, <3>2
  <2>11. /\ DOMAIN u.rev \cup DOMAIN u.proposed \cup DOMAIN u.outcome \subseteq DOMAIN u.order
         /\ \A r \in DOMAIN u.order : Get(u.rev, r, 0) = BlockOf(u, r).rev
    <3>1. /\ DOMAIN s.rev \cup DOMAIN s.proposed \cup DOMAIN s.outcome \subseteq DOMAIN s.order
          /\ \A r \in DOMAIN s.order : Get(s.rev, r, 0) = BlockOf(s, r).rev
      BY DEF Filed
    <3>2. \A r \in DOMAIN s.order : s.order[r] \in 1..N
      BY FiledSeqs DEF N
    <3>3. \A r \in DOMAIN s.order : BlockOf(u, r) = BlockOf(s, r)
      BY <2>4, <2>5, <2>8, <3>2 DEF BlockOf
    <3>4. BlockOf(u, ref) = b
      BY <2>4, <2>5, <2>8 DEF BlockOf
    <3>5. Get(u.rev, ref, 0) = 0
      BY <1>2, <2>4, <3>1 DEF Get
    <3>6. \A r \in DOMAIN s.order : Get(u.rev, r, 0) = Get(s.rev, r, 0)
      BY <2>4
    <3> QED
      BY <2>3, <2>4, <2>8, <3>1, <3>3, <3>4, <3>5, <3>6
  <2>12. Filed(u)
    BY <2>4, <2>5, <2>6, <2>9, <2>10, <2>11 DEF Filed
  <2>13. Evolves(s, u)
    <3>1. ASSUME NEW i \in 1..N, NEW j \in 1..(N + 1), s.blocks[i].id = u.blocks[j].id
          PROVE  u.blocks[j] = s.blocks[i]
      <4>1. s.blocks[i].id = s.dropped + i /\ u.blocks[j].id = s.dropped + j
        BY <2>4, <2>10 DEF Filed, N
      <4>2. i = j
        <5>1. s.dropped + i = s.dropped + j
          BY <3>1, <4>1, Zenon
        <5> QED
          BY <2>2, <5>1
      <4> QED
        BY <2>4, <2>5, <4>2
    <3>2. s.nextID <= u.nextID /\ s.dropped <= u.dropped
      BY <2>2, <2>4 DEF NextID
    <3> QED
      BY <2>4, <2>5, <3>1, <3>2 DEF Evolves, N
  <2>14. Len(u.blocks) = N + 1 /\ Len(u.blocks) > 0 /\ u.refs[Len(u.blocks)] = ref
    BY <2>2, <2>4, <2>5, <2>6
  <2>15. /\ Filed(t) /\ Small(t) /\ Evolves(u, t) /\ SameRest(u, t)
         /\ ref \in DOMAIN t.order
    BY <2>1, <2>12, <2>14, TrimKeeps DEF SameRest
  <2>16. Evolves(s, t) /\ SameRest(s, t)
    BY <2>4, <2>12, <2>13, <2>15, EvolvesThrough DEF SameRest
  <2> QED
    BY <2>15, <2>16
<1> QED
  BY <1>1, <1>2

\* From s to t only the block of ref was edited, and not yet touched.
Edited(s, t, ref) ==
  /\ IsState(t)
  /\ t.refs = s.refs /\ t.order = s.order /\ t.rev = s.rev
  /\ t.nextID = s.nextID /\ t.dropped = s.dropped
  /\ DOMAIN t.proposed \cup DOMAIN t.outcome \subseteq DOMAIN s.order
  /\ IsSeq(t.blocks) /\ Len(t.blocks) = Len(s.blocks)
  /\ \A i \in 1..Len(s.blocks) :
       IF i = s.order[ref]
       THEN IsBlock(t.blocks[i]) /\ t.blocks[i].id = s.blocks[i].id
            /\ t.blocks[i].rev = s.blocks[i].rev
       ELSE t.blocks[i] = s.blocks[i]

LEMMA EditedSelf ==
  ASSUME NEW s, Filed(s), NEW ref
  PROVE  Edited(s, s, ref)
BY DEF Filed, Edited

LEMMA EditedThrough ==
  ASSUME NEW s, NEW t, NEW u, NEW ref, Edited(s, t, ref), Edited(t, u, ref)
  PROVE  Edited(s, u, ref)
BY DEF Edited

LEMMA EditedFiled ==
  ASSUME NEW s, NEW t, NEW ref, Filed(s), Edited(s, t, ref)
  PROVE  Filed(t) /\ (Small(s) => Small(t))
<1> DEFINE N == Len(s.blocks)
<1>1. /\ N \in Nat /\ DOMAIN s.blocks = 1..N /\ DOMAIN s.refs = 1..N
  BY FiledSeqs
<1>2. /\ IsState(t) /\ t.refs = s.refs /\ t.order = s.order /\ t.rev = s.rev
      /\ t.nextID = s.nextID /\ t.dropped = s.dropped
      /\ DOMAIN t.proposed \cup DOMAIN t.outcome \subseteq DOMAIN s.order
      /\ IsSeq(t.blocks) /\ Len(t.blocks) = N
  BY DEF Edited
<1>3. \A i \in 1..N : IsBlock(t.blocks[i]) /\ t.blocks[i].id = s.blocks[i].id
                      /\ t.blocks[i].rev = s.blocks[i].rev
  BY DEF Edited, Filed
<1>4. Indexed(t)
  BY <1>2 DEF Filed, Indexed
<1>5. \A r \in DOMAIN t.order : Get(t.rev, r, 0) = BlockOf(t, r).rev
  <2>1. \A r \in DOMAIN s.order : s.order[r] \in 1..N
    BY FiledSeqs
  <2>2. \A r \in DOMAIN s.order : BlockOf(t, r).rev = BlockOf(s, r).rev
    BY <1>2, <1>3, <2>1 DEF BlockOf
  <2> QED
    BY <1>2, <2>2 DEF Filed
<1>6. Filed(t)
  BY <1>2, <1>3, <1>4, <1>5 DEF Filed
<1> QED
  BY <1>2, <1>6 DEF Small

\* The revision of the block that was edited grows.
LEMMA TouchKeeps ==
  ASSUME NEW s, NEW t, NEW ref, Filed(s), Small(s), Edited(s, t, ref), ref \in DOMAIN s.order
  PROVE  /\ Filed(touch(t, ref)) /\ Small(touch(t, ref)) /\ Evolves(s, touch(t, ref))
         /\ SameRest(t, touch(t, ref))
         /\ touch(t, ref).order = s.order
         /\ touch(t, ref).proposed = t.proposed /\ touch(t, ref).outcome = t.outcome
         /\ BlockOf(touch(t, ref), ref).lines = BlockOf(t, ref).lines
<1> DEFINE N == Len(s.blocks)
           k == t.order[ref]
           rev == Get(t.rev, ref, 0) + 1
           b == [t.blocks[k] EXCEPT !.rev = rev]
           blocks == [t.blocks EXCEPT ![k] = b]
           u == touch(t, ref)
<1>1. Filed(t) /\ Small(t) /\ Len(t.blocks) = N /\ t.order = s.order /\ t.rev = s.rev
  <2>1. Filed(t) /\ Small(t)
    BY EditedFiled, Zenon
  <2> QED
    BY <2>1 DEF Edited
<1>2. /\ N \in Nat /\ DOMAIN t.blocks = 1..N /\ DOMAIN t.refs = 1..N
      /\ k \in 1..N /\ t.dropped \in Nat
  BY <1>1, FiledSeqs
<1>3. Get(t.rev, ref, 0) = t.blocks[k].rev
  BY <1>1 DEF Filed, BlockOf
<1>4. IsBlock(t.blocks[k])
  BY <1>1, <1>2 DEF Filed
<1>5. IsBlock(b) /\ b.id = t.blocks[k].id /\ b.rev = t.blocks[k].rev + 1
      /\ b.lines = t.blocks[k].lines
  <2>1. rev \in Nat /\ rev = t.blocks[k].rev + 1
    BY <1>3, <1>4 DEF IsBlock
  <2> HIDE DEF rev, k
  <2> QED
    BY <1>4, <2>1 DEF IsBlock
<1>6. u = [t EXCEPT !.rev = With(@, ref, rev), !.blocks = blocks]
  <2>1. u = [t EXCEPT !.rev = With(@, ref, rev), !.blocks[k].rev = rev]
    BY <1>1 DEF touch
  <2>2. IsState(t)
    BY <1>1 DEF Filed
  <2> HIDE DEF k, rev, u
  <2> QED
    BY <2>1, <2>2 DEF IsState, Fields
<1> HIDE DEF N, k, rev, b, u
<1>7. /\ IsState(u) /\ u.blocks = blocks /\ u.rev = With(t.rev, ref, rev)
      /\ u.refs = t.refs /\ u.order = t.order /\ u.nextID = t.nextID
      /\ u.dropped = t.dropped /\ u.proposed = t.proposed /\ u.outcome = t.outcome
      /\ SameRest(t, u)
  <2>1. IsState(t)
    BY <1>1 DEF Filed
  <2> HIDE DEF blocks
  <2> QED
    BY <1>6, <2>1 DEF IsState, Fields, Files, SameRest
<1>8. /\ IsSeq(blocks) /\ Len(blocks) = N /\ DOMAIN blocks = 1..N
      /\ blocks[k] = b /\ \A i \in 1..N : i # k => blocks[i] = t.blocks[i]
  <2>1. blocks = [i \in 1..N |-> blocks[i]]
    BY <1>2
  <2>2. blocks[k] = b /\ \A i \in 1..N : i # k => blocks[i] = t.blocks[i]
    BY <1>2
  <2> HIDE DEF blocks
  <2> QED
    BY <1>2, <2>1, <2>2, SeqFrom
<1> HIDE DEF blocks
<1>9. Indexed(u)
  BY <1>1, <1>7, <1>8 DEF Filed, Indexed
<1>10. /\ \A i \in 1..N : IsBlock(u.blocks[i]) /\ u.blocks[i].id = u.dropped + i
       /\ u.nextID = u.dropped + N /\ u.dropped \in Nat
  <2>1. /\ \A i \in 1..N : IsBlock(t.blocks[i]) /\ t.blocks[i].id = t.dropped + i
        /\ t.nextID = t.dropped + N
    BY <1>1 DEF Filed
  <2> QED
    BY <1>2, <1>5, <1>7, <1>8, <2>1
<1>11. DOMAIN u.rev \cup DOMAIN u.proposed \cup DOMAIN u.outcome \subseteq DOMAIN u.order
  BY <1>1, <1>7 DEF Filed, With
<1>12. \A r \in DOMAIN u.order : Get(u.rev, r, 0) = BlockOf(u, r).rev
  <2> SUFFICES ASSUME NEW r \in DOMAIN t.order PROVE Get(u.rev, r, 0) = BlockOf(u, r).rev
    BY <1>7
  <2>1. CASE r = ref
    <3>1. Get(u.rev, ref, 0) = rev
      BY <1>7 DEF Get, With
    <3>2. BlockOf(u, ref) = b /\ b.rev = rev
      BY <1>3, <1>5, <1>7, <1>8 DEF BlockOf, k, rev
    <3> QED
      BY <2>1, <3>1, <3>2
  <2>2. CASE r # ref
    <3>1. Get(u.rev, r, 0) = Get(t.rev, r, 0)
      BY <1>7, <2>2 DEF Get, With
    <3>2. t.order[r] \in 1..N /\ t.order[r] # k
      <4>1. t.refs[t.order[r]] = r /\ t.refs[t.order[ref]] = ref /\ t.order[r] \in 1..N
        BY <1>1, FiledSeqs
      <4> QED
        BY <2>2, <4>1 DEF k
    <3>3. BlockOf(u, r) = BlockOf(t, r)
      BY <1>7, <1>8, <3>2 DEF BlockOf
    <3> QED
      BY <1>1, <3>1, <3>3 DEF Filed
  <2> QED
    BY <2>1, <2>2
<1>13. Filed(u)
  <2>1. IsSeq(t.refs)
    BY <1>1 DEF Filed
  <2> QED
    BY <1>7, <1>8, <1>9, <1>10, <1>11, <1>12, <2>1 DEF Filed
<1>14. Small(u)
  BY <1>1, <1>7, <1>8 DEF Small
<1>15. Evolves(s, u)
  <2>1. ASSUME NEW i \in 1..N, NEW j \in 1..N, s.blocks[i].id = u.blocks[j].id
        PROVE  u.blocks[j] = s.blocks[i] \/ u.blocks[j].rev > s.blocks[i].rev
    <3>1. s.blocks[i].id = s.dropped + i /\ u.blocks[j].id = u.dropped + j /\ u.dropped = s.dropped
      BY <1>7, <1>10 DEF Filed, N, Edited
    <3>2. i = j
      <4>1. u.dropped + i = u.dropped + j
        BY <2>1, <3>1, Zenon
      <4>2. u.dropped \in Nat /\ N \in Nat
        BY <1>2, <1>10
      <4> QED
        BY <4>1, <4>2
    <3>3. CASE j = k
      <4>1. t.blocks[k].rev = s.blocks[k].rev /\ s.blocks[k].rev \in Nat
        BY <1>1, <1>2 DEF Edited, Filed, IsBlock, N, k
      <4> QED
        BY <1>5, <1>7, <1>8, <3>2, <3>3, <4>1
    <3>4. CASE j # k
      <4>1. t.blocks[j] = s.blocks[j]
        BY <1>1, <3>4 DEF Edited, N, k
      <4> QED
        BY <1>7, <1>8, <3>2, <3>4, <4>1
    <3> QED
      BY <3>3, <3>4
  <2>2. s.nextID <= u.nextID /\ s.dropped <= u.dropped
    BY <1>7, FiledSeqs DEF Edited
  <2> QED
    BY <1>7, <1>8, <2>1, <2>2 DEF Evolves, N
<1>16. BlockOf(u, ref).lines = BlockOf(t, ref).lines
  BY <1>5, <1>7, <1>8 DEF BlockOf, k
<1> QED
  BY <1>1, <1>7, <1>13, <1>14, <1>15, <1>16 DEF u

-----------------------------------------------------------------------------
(* Lines *)

Joining == INSTANCE Folding WITH Op <- AddWord

LEMMA FlattenIs ==
  ASSUME NEW q
  PROVE  FlattenSeq(q) = Joining!FlattenSeq(q)
BY DEF FlattenSeq, Joining!FlattenSeq

LEMMA TupleSeqs ==
  ASSUME NEW a, NEW b, NEW c, NEW d
  PROVE  IsSeq(<<>>) /\ IsSeq(<<a>>) /\ IsSeq(<<a, b>>) /\ IsSeq(<<a, b, c>>)
         /\ IsSeq(<<a, b, c, d>>)
<1> DEFINE S == {a, b, c, d}
<1>1. <<>> \in Seq(S) /\ <<a>> \in Seq(S) /\ <<a, b>> \in Seq(S) /\ <<a, b, c>> \in Seq(S)
      /\ <<a, b, c, d>> \in Seq(S)
  OBVIOUS
<1> HIDE DEF S
<1> QED
  BY <1>1 DEF IsSeq

LEMMA SeqJoin ==
  ASSUME NEW p, NEW q, IsSeq(p), IsSeq(q)
  PROVE  /\ IsSeq(p \o q) /\ Len(p \o q) = Len(p) + Len(q)
         /\ \A i \in 1..Len(p) : (p \o q)[i] = p[i]
         /\ \A i \in 1..(Len(p) + Len(q)) : i > Len(p) => (p \o q)[i] = q[i - Len(p)]
<1>1. PICK S : p \in Seq(S)
  BY DEF IsSeq
<1>2. PICK T : q \in Seq(T)
  BY DEF IsSeq
<1>3. p \in Seq(S \cup T) /\ q \in Seq(S \cup T)
  BY <1>1, <1>2
<1>4. p \o q \in Seq(S \cup T)
  BY <1>3
<1> QED
  BY <1>3, <1>4 DEF IsSeq

LEMMA LinesOf ==
  ASSUME NEW q, IsSeq(q), NEW r, r = [i \in DOMAIN q |-> r[i]],
         \A i \in DOMAIN q : IsSeq(r[i])
  PROVE  IsLines(r)
<1>1. Len(q) \in Nat /\ DOMAIN q = 1..Len(q)
  BY SeqIs
<1>2. IsSeq(r) /\ Len(r) = Len(q)
  BY <1>1, SeqFrom
<1> QED
  BY <1>1, <1>2 DEF IsLines

LEMMA LinesJoin ==
  ASSUME NEW p, NEW q, IsLines(p), IsLines(q)
  PROVE  IsLines(p \o q)
<1>1. IsSeq(p) /\ IsSeq(q) /\ Len(p) \in Nat /\ Len(q) \in Nat
  BY SeqIs DEF IsLines
<1>2. /\ IsSeq(p \o q) /\ Len(p \o q) = Len(p) + Len(q)
      /\ \A i \in 1..Len(p) : (p \o q)[i] = p[i]
      /\ \A i \in 1..(Len(p) + Len(q)) : i > Len(p) => (p \o q)[i] = q[i - Len(p)]
  BY <1>1, SeqJoin
<1> DEFINE m == Len(p)
           n == Len(q)
           r == p \o q
<1>3. \A i \in 1..(m + n) : i \in 1..m \/ (i > m /\ i - m \in 1..n)
  BY <1>1
<1>4. (\A i \in 1..m : IsSeq(p[i])) /\ (\A i \in 1..n : IsSeq(q[i]))
  BY DEF IsLines
<1>5. \A i \in 1..(m + n) : IsSeq(r[i])
  <2> HIDE DEF m, n, r
  <2>1. /\ \A i \in 1..m : r[i] = p[i]
        /\ \A i \in 1..(m + n) : i > m => r[i] = q[i - m]
    BY <1>2 DEF m, n, r
  <2> QED
    BY <1>3, <1>4, <2>1
<1> QED
  BY <1>2, <1>5 DEF IsLines

LEMMA LineTuples ==
  ASSUME NEW a, NEW b, IsSeq(a), IsSeq(b)
  PROVE  IsLines(<<>>) /\ IsLines(<<a>>) /\ IsLines(<<a, b>>)
<1>1. IsSeq(<<>>) /\ IsSeq(<<a>>) /\ IsSeq(<<a, b>>)
  BY TupleSeqs
<1>2. Len(<<>>) = 0 /\ Len(<<a>>) = 1 /\ Len(<<a, b>>) = 2
  OBVIOUS
<1>3. <<a>>[1] = a /\ <<a, b>>[1] = a /\ <<a, b>>[2] = b
  OBVIOUS
<1> QED
  BY <1>1, <1>2, <1>3 DEF IsLines

LEMMA LinesAre ==
  ASSUME NEW q, IsLines(q)
  PROVE  \E S : q \in Seq(Seq(S))
<1> DEFINE S == UNION {{q[i][j] : j \in 1..Len(q[i])} : i \in 1..Len(q)}
<1>1. /\ Len(q) \in Nat /\ q = [i \in 1..Len(q) |-> q[i]]
      /\ \A i \in 1..Len(q) : IsSeq(q[i])
  BY SeqIs DEF IsLines
<1>2. ASSUME NEW i \in 1..Len(q) PROVE q[i] \in Seq(S)
  <2>1. Len(q[i]) \in Nat /\ q[i] = [j \in 1..Len(q[i]) |-> q[i][j]]
    BY <1>1, SeqIs
  <2>2. \A j \in 1..Len(q[i]) : q[i][j] \in S
    OBVIOUS
  <2> HIDE DEF S
  <2>3. q[i] \in [1..Len(q[i]) -> S]
    BY <2>1, <2>2
  <2> QED
    BY <2>1, <2>3
<1> HIDE DEF S
<1>3. q \in [1..Len(q) -> Seq(S)]
  BY <1>1, <1>2
<1>4. q \in Seq(Seq(S))
  BY <1>1, <1>3
<1> QED
  BY <1>4

LEMMA FlattenLines ==
  ASSUME NEW q, IsLines(q)
  PROVE  IsSeq(FlattenSeq(q))
<1>1. PICK S : q \in Seq(Seq(S))
  BY LinesAre
<1>2. FlattenSeq(q) \in Seq(S)
  BY <1>1, FlattenIs, Joining!FlattenType, Zenon
<1> QED
  BY <1>2 DEF IsSeq

LEMMA CellsLine ==
  ASSUME NEW strings, IsSeq(strings)
  PROVE  IsSeq(Cells(strings))
<1> DEFINE r == [i \in DOMAIN strings |-> IF strings[i] = "" THEN <<>> ELSE <<strings[i]>>]
<1>1. \A i \in DOMAIN strings : IsSeq(r[i])
  BY TupleSeqs
<1>2. r = [i \in DOMAIN strings |-> r[i]]
  OBVIOUS
<1> HIDE DEF r
<1>3. IsLines(r)
  BY <1>1, <1>2, LinesOf
<1> QED
  BY <1>3, FlattenLines DEF Cells, r

\* The paragraphs of a text, of which there is one at least.
LEMMA ParagraphsIs ==
  ASSUME NEW text
  PROVE  paragraphs(text) = Joining!Fold(<<<<>>>>, text)
BY DEF paragraphs, Joining!Fold, FoldLeft, Joining!FoldLeft, MapThenFoldSet,
       Joining!MapThenFoldSet, Max, Joining!Max

LEMMA AddWordType ==
  ASSUME NEW S, NEW lines \in Seq(Seq(S)), lines # <<>>, NEW word \in S
  PROVE  AddWord(lines, word) \in Seq(Seq(S)) /\ AddWord(lines, word) # <<>>
<1>1. CASE word = Newline
  <2>1. <<>> \in Seq(S)
    OBVIOUS
  <2>2. Append(lines, <<>>) \in Seq(Seq(S)) /\ Append(lines, <<>>) # <<>>
    BY <2>1
  <2> QED
    BY <1>1, <2>2 DEF AddWord
<1>2. CASE word # Newline
  <2> DEFINE n == Len(lines)
             last == Append(lines[n], word)
             t == [lines EXCEPT ![n] = last]
  <2>1. n \in Nat /\ n \in 1..n /\ DOMAIN lines = 1..n
    <3>1. n \in Nat /\ n # 0 /\ DOMAIN lines = 1..n
      BY EmptySeq
    <3> QED
      BY <3>1
  <2>2. lines[n] \in Seq(S)
    BY <2>1
  <2>3. last \in Seq(S)
    BY <2>2
  <2>4. AddWord(lines, word) = t
    BY <1>2 DEF AddWord
  <2> HIDE DEF last
  <2>5. t \in [1..n -> Seq(S)]
    BY <2>1, <2>3
  <2>6. Len(t) = n
    BY <2>1
  <2> HIDE DEF t, n
  <2>7. t \in Seq(Seq(S))
    BY <2>1, <2>5
  <2>8. t # <<>>
    BY <2>1, <2>6
  <2> QED
    BY <2>4, <2>7, <2>8
<1> QED
  BY <1>1, <1>2

LEMMA ParagraphsType ==
  ASSUME NEW S, NEW text \in Seq(S)
  PROVE  paragraphs(text) \in Seq(Seq(S)) /\ paragraphs(text) # <<>>
<1> DEFINE T == {q \in Seq(Seq(S)) : q # <<>>}
           one == <<<<>>>>
<1>1. one \in T
  OBVIOUS
<1>2. \A t \in T, x \in S : AddWord(t, x) \in T
  BY AddWordType
<1> HIDE DEF T, one
<1>3. Joining!Fold(one, text) \in T
  BY <1>1, <1>2, Joining!FoldType
<1> QED
  BY <1>3, ParagraphsIs DEF T, one

LEMMA SeqsAreLines ==
  ASSUME NEW S, NEW q \in Seq(Seq(S))
  PROVE  IsLines(q)
<1>1. \A i \in 1..Len(q) : q[i] \in Seq(S)
  OBVIOUS
<1>2. Len(q) \in Nat
  OBVIOUS
<1> QED
  BY <1>1, <1>2 DEF IsLines, IsSeq

LEMMA JoinedType ==
  ASSUME NEW S, NEW lines \in Seq(Seq(S)), Newline \in S
  PROVE  Joined(lines) \in Seq(S)
<1> DEFINE w(i) == (IF i = 1 THEN <<>> ELSE <<Newline>>) \o lines[i]
           r == [i \in DOMAIN lines |-> w(i)]
<1>1. ASSUME NEW i \in DOMAIN lines PROVE w(i) \in Seq(S)
  <2>1. lines[i] \in Seq(S)
    OBVIOUS
  <2>2. (IF i = 1 THEN <<>> ELSE <<Newline>>) \in Seq(S)
    OBVIOUS
  <2> QED
    BY <2>1, <2>2
<1>2. Len(lines) \in Nat /\ DOMAIN lines = 1..Len(lines)
  OBVIOUS
<1> HIDE DEF w
<1>3. r \in [1..Len(lines) -> Seq(S)]
  BY <1>1, <1>2
<1>4. r \in Seq(Seq(S))
  BY <1>2, <1>3
<1>5. FlattenSeq(r) \in Seq(S)
  BY <1>4, FlattenIs, Joining!FlattenType, Zenon
<1> QED
  BY <1>5 DEF Joined, r, w

\* A block's lines, continued with a chunk.
LEMMA ContinuedLines ==
  ASSUME NEW lines, IsLines(lines), NEW chunk \in Seq(STRING)
  PROVE  IsLines(Continued(lines, chunk))
<1>1. PICK S : lines \in Seq(Seq(S))
  BY LinesAre
<1> DEFINE T == S \cup STRING \cup {Newline}
<1>2. Newline \in T /\ chunk \in Seq(T)
  OBVIOUS
<1>3. lines \in Seq(Seq(T))
  <2>1. Seq(S) \subseteq Seq(T)
    OBVIOUS
  <2> HIDE DEF T
  <2>2. lines \in [1..Len(lines) -> Seq(T)]
    BY <1>1, <2>1
  <2>3. Len(lines) \in Nat
    BY <1>1
  <2> QED
    BY <2>2, <2>3
<1> HIDE DEF T
<1>4. Joined(lines) \in Seq(T)
  BY <1>2, <1>3, JoinedType
<1>5. Joined(lines) \o chunk \in Seq(T)
  BY <1>2, <1>4
<1> QED
  BY <1>5, ParagraphsType, SeqsAreLines, Zenon DEF Continued

-----------------------------------------------------------------------------
(* What an event does to its block *)

\* What an event may do to the blocks of a client.
Steps(s, t) == Filed(t) /\ Small(t) /\ Evolves(s, t)

LEMMA StepsThrough ==
  ASSUME NEW s, NEW t, NEW u, Filed(s), Steps(s, t), Steps(t, u)
  PROVE  Steps(s, u)
BY EvolvesThrough DEF Steps

SameFiles(s, t) == IsState(t) /\ \A f \in Files : t[f] = s[f]

LEMMA FilesAre ==
  ASSUME NEW s, NEW t, SameFiles(s, t)
  PROVE  /\ t.blocks = s.blocks /\ t.refs = s.refs /\ t.order = s.order /\ t.rev = s.rev
         /\ t.proposed = s.proposed /\ t.outcome = s.outcome
         /\ t.nextID = s.nextID /\ t.dropped = s.dropped
BY DEF SameFiles, Files

LEMMA FiledAlike ==
  ASSUME NEW s, NEW t, Filed(s), SameFiles(s, t)
  PROVE  /\ Filed(t) /\ (Small(s) => Small(t)) /\ (Small(s) => Steps(s, t))
         /\ \A ref : Edited(s, t, ref)
<1>1. /\ t.blocks = s.blocks /\ t.refs = s.refs /\ t.order = s.order /\ t.rev = s.rev
      /\ t.proposed = s.proposed /\ t.outcome = s.outcome
      /\ t.nextID = s.nextID /\ t.dropped = s.dropped
  BY FilesAre
<1>2. IsState(t)
  BY DEF SameFiles
<1>3. ASSUME NEW ref PROVE Edited(s, t, ref)
  BY <1>1, <1>2 DEF Edited, Filed
<1>4. Filed(t) /\ (Small(s) => Small(t))
  BY <1>3, EditedFiled
<1>5. Evolves(s, t)
  <2>1. Evolves(s, s)
    BY EvolvesSelf
  <2> QED
    BY <1>1, <2>1 DEF Evolves
<1> QED
  BY <1>3, <1>4, <1>5 DEF Steps

\* The proposals and outcomes that are kept are those of blocks that are kept.
LEMMA KeptOutcomes ==
  ASSUME NEW s, NEW t, Filed(s), IsState(t),
         \A f \in Files \ {"proposed", "outcome"} : t[f] = s[f],
         DOMAIN t.proposed \cup DOMAIN t.outcome \subseteq DOMAIN s.order
  PROVE  \A ref : Edited(s, t, ref)
<1>1. /\ t.blocks = s.blocks /\ t.refs = s.refs /\ t.order = s.order /\ t.rev = s.rev
      /\ t.nextID = s.nextID /\ t.dropped = s.dropped
  BY DEF Files
<1> QED
  BY <1>1 DEF Edited, Filed

LEMMA EditKeeps ==
  ASSUME NEW s, NEW t, NEW ref, Filed(s), Edited(s, t, ref), ref \in DOMAIN s.order,
         NEW b, IsBlock(b), b.id = BlockOf(t, ref).id, b.rev = BlockOf(t, ref).rev,
         NEW u, u = [t EXCEPT !.blocks[t.order[ref]] = b]
  PROVE  /\ Edited(s, u, ref) /\ SameRest(t, u)
         /\ u.order = t.order /\ u.proposed = t.proposed /\ u.outcome = t.outcome
         /\ BlockOf(u, ref) = b
<1> DEFINE N == Len(s.blocks)
           k == t.order[ref]
           blocks == [t.blocks EXCEPT ![k] = b]
<1>1. Filed(t) /\ Len(t.blocks) = N /\ t.order = s.order
  <2>1. Filed(t)
    BY EditedFiled, Zenon
  <2> QED
    BY <2>1 DEF Edited
<1>2. N \in Nat /\ DOMAIN t.blocks = 1..N /\ k \in 1..N
  BY <1>1, FiledSeqs
<1>4. b.id = t.blocks[k].id /\ b.rev = t.blocks[k].rev
  BY DEF BlockOf
<1>5. IsState(t)
  BY <1>1 DEF Filed
<1>6. u = [t EXCEPT !.blocks = blocks]
  <2> HIDE DEF k
  <2> QED
    BY <1>5 DEF IsState, Fields, k
<1> HIDE DEF N, k
<1>7. /\ IsState(u) /\ u.blocks = blocks /\ u.rev = t.rev
      /\ u.refs = t.refs /\ u.order = t.order /\ u.nextID = t.nextID
      /\ u.dropped = t.dropped /\ u.proposed = t.proposed /\ u.outcome = t.outcome
      /\ SameRest(t, u)
  <2> HIDE DEF blocks
  <2> QED
    BY <1>5, <1>6 DEF IsState, Fields, Files, SameRest
<1>8. /\ IsSeq(blocks) /\ Len(blocks) = N /\ blocks[k] = b
      /\ \A i \in 1..N : i # k => blocks[i] = t.blocks[i]
  <2>1. blocks = [i \in 1..N |-> blocks[i]]
    BY <1>2
  <2>2. blocks[k] = b /\ \A i \in 1..N : i # k => blocks[i] = t.blocks[i]
    BY <1>2
  <2> HIDE DEF blocks
  <2> QED
    BY <1>2, <2>1, <2>2, SeqFrom
<1> HIDE DEF blocks
<1>9. Edited(t, u, ref)
  <2>1. DOMAIN t.proposed \cup DOMAIN t.outcome \subseteq DOMAIN t.order
    BY <1>1 DEF Filed
  <2> QED
    BY <1>1, <1>4, <1>7, <1>8, <2>1 DEF Edited, k
<1>10. Edited(s, u, ref)
  BY <1>9, EditedThrough
<1>11. BlockOf(u, ref) = b
  BY <1>7, <1>8 DEF BlockOf, k
<1> QED
  BY <1>7, <1>10, <1>11

LEMMA EditedBlock ==
  ASSUME NEW s, NEW t, NEW ref, Filed(s), Edited(s, t, ref), ref \in DOMAIN s.order
  PROVE  /\ Filed(t) /\ IsState(t) /\ t.order = s.order
         /\ IsBlock(BlockOf(t, ref))
<1>1. Filed(t) /\ t.order = s.order
  BY EditedFiled DEF Edited
<1> QED
  BY <1>1, FiledSeqs DEF BlockOf, Filed

\* Its tag, its tone or its meta was set.
SetTo(t, u, ref, v) ==
  \/ u = [t EXCEPT !.blocks[t.order[ref]].tag = v]
  \/ u = [t EXCEPT !.blocks[t.order[ref]].tone = v]
  \/ u = [t EXCEPT !.blocks[t.order[ref]].meta = v]

LEMMA AttributesKeep ==
  ASSUME NEW s, NEW t, NEW ref, NEW v, Filed(s), Edited(s, t, ref), ref \in DOMAIN s.order,
         NEW u, SetTo(t, u, ref, v)
  PROVE  /\ Edited(s, u, ref) /\ SameRest(t, u)
         /\ u.order = t.order /\ u.proposed = t.proposed /\ u.outcome = t.outcome
         /\ BlockOf(u, ref).lines = BlockOf(t, ref).lines
<1>1. IsBlock(BlockOf(t, ref)) /\ IsState(t)
  BY EditedBlock
<1> DEFINE k == t.order[ref]
           c == BlockOf(t, ref)
<1>2. c = t.blocks[k]
  BY DEF BlockOf
<1>3. ASSUME NEW b, IsBlock(b), b.id = c.id, b.rev = c.rev, b.lines = c.lines,
             u = [t EXCEPT !.blocks[k] = b]
      PROVE  /\ Edited(s, u, ref) /\ SameRest(t, u)
             /\ u.order = t.order /\ u.proposed = t.proposed /\ u.outcome = t.outcome
             /\ BlockOf(u, ref).lines = BlockOf(t, ref).lines
  BY <1>3, EditKeeps
<1> HIDE DEF k, c
<1>4. CASE u = [t EXCEPT !.blocks[k].tag = v]
  <2> DEFINE b == [c EXCEPT !.tag = v]
  <2>1. IsBlock(b) /\ b.id = c.id /\ b.rev = c.rev /\ b.lines = c.lines
    BY <1>1 DEF IsBlock, c
  <2>2. u = [t EXCEPT !.blocks[k] = b]
    BY <1>1, <1>2, <1>4 DEF IsState, Fields
  <2> HIDE DEF b
  <2> QED
    BY <1>3, <2>1, <2>2
<1>5. CASE u = [t EXCEPT !.blocks[k].tone = v]
  <2> DEFINE b == [c EXCEPT !.tone = v]
  <2>1. IsBlock(b) /\ b.id = c.id /\ b.rev = c.rev /\ b.lines = c.lines
    BY <1>1 DEF IsBlock, c
  <2>2. u = [t EXCEPT !.blocks[k] = b]
    BY <1>1, <1>2, <1>5 DEF IsState, Fields
  <2> HIDE DEF b
  <2> QED
    BY <1>3, <2>1, <2>2
<1>6. CASE u = [t EXCEPT !.blocks[k].meta = v]
  <2> DEFINE b == [c EXCEPT !.meta = v]
  <2>1. IsBlock(b) /\ b.id = c.id /\ b.rev = c.rev /\ b.lines = c.lines
    BY <1>1 DEF IsBlock, c
  <2>2. u = [t EXCEPT !.blocks[k] = b]
    BY <1>1, <1>2, <1>6 DEF IsState, Fields
  <2> HIDE DEF b
  <2> QED
    BY <1>3, <2>1, <2>2
<1> QED
  BY <1>4, <1>5, <1>6 DEF k, SetTo

LEMMA MetaKeeps ==
  ASSUME NEW s, NEW t, NEW ref, NEW meta, Filed(s), Edited(s, t, ref), ref \in DOMAIN s.order
  PROVE  /\ Edited(s, Meta(t, ref, meta), ref) /\ SameRest(t, Meta(t, ref, meta))
         /\ Meta(t, ref, meta).order = t.order
         /\ Meta(t, ref, meta).proposed = t.proposed
         /\ Meta(t, ref, meta).outcome = t.outcome
         /\ BlockOf(Meta(t, ref, meta), ref).lines = BlockOf(t, ref).lines
<1> DEFINE u == Meta(t, ref, meta)
<1>1. SetTo(t, u, ref, meta)
  BY DEF Meta, SetTo
<1> HIDE DEF u
<1>2. /\ Edited(s, u, ref) /\ SameRest(t, u)
      /\ u.order = t.order /\ u.proposed = t.proposed /\ u.outcome = t.outcome
      /\ BlockOf(u, ref).lines = BlockOf(t, ref).lines
  BY <1>1, AttributesKeep
<1> QED
  BY <1>2 DEF u

LEMMA RewriteKeeps ==
  ASSUME NEW s, NEW t, NEW ref, NEW lines, Filed(s), Small(s), Edited(s, t, ref),
         ref \in DOMAIN s.order, IsLines(lines)
  PROVE  LET v == Rewrite(t, ref, lines)
         IN  /\ Steps(s, v) /\ SameRest(t, v)
             /\ v.order = s.order /\ v.proposed = t.proposed /\ v.outcome = t.outcome
             /\ BlockOf(v, ref).lines = lines
<1> DEFINE u == [t EXCEPT !.blocks[t.order[ref]].lines = lines]
           v == touch(u, ref)
           k == t.order[ref]
           c == BlockOf(t, ref)
           b == [c EXCEPT !.lines = lines]
<1>1. Rewrite(t, ref, lines) = v
  BY DEF Rewrite
<1>2. IsBlock(c) /\ IsState(t) /\ c = t.blocks[k]
  BY EditedBlock DEF BlockOf
<1> HIDE DEF c, k
<1>3. IsBlock(b) /\ b.id = c.id /\ b.rev = c.rev /\ b.lines = lines
  BY <1>2 DEF IsBlock
<1>4. u = [t EXCEPT !.blocks[k] = b]
  BY <1>2 DEF IsState, Fields, k
<1> HIDE DEF u, b, v
<1>5. /\ Edited(s, u, ref) /\ SameRest(t, u)
      /\ u.order = t.order /\ u.proposed = t.proposed /\ u.outcome = t.outcome
      /\ BlockOf(u, ref) = b
  BY <1>3, <1>4, EditKeeps DEF c, k
<1>6. /\ Filed(v) /\ Small(v) /\ Evolves(s, v) /\ SameRest(u, v)
      /\ v.order = s.order /\ v.proposed = u.proposed /\ v.outcome = u.outcome
      /\ BlockOf(v, ref).lines = BlockOf(u, ref).lines
  BY <1>5, TouchKeeps DEF v
<1>7. SameRest(t, v)
  BY <1>5, <1>6 DEF SameRest
<1> QED
  BY <1>1, <1>3, <1>5, <1>6, <1>7 DEF Steps

LEMMA BlockLines ==
  ASSUME NEW s, NEW t, NEW ref, Filed(s), Edited(s, t, ref), ref \in DOMAIN s.order
  PROVE  IsLines(BlockOf(t, ref).lines)
<1>1. Filed(t) /\ t.order = s.order
  BY EditedFiled DEF Edited
<1> QED
  BY <1>1, FiledSeqs DEF BlockOf, Filed, IsBlock

LEMMA AddLinesKeeps ==
  ASSUME NEW s, NEW t, NEW ref, NEW lines, Filed(s), Small(s), Edited(s, t, ref),
         ref \in DOMAIN s.order, IsLines(lines)
  PROVE  LET v == AddLines(t, ref, lines)
         IN  /\ Steps(s, v) /\ SameRest(t, v)
             /\ v.order = s.order /\ v.proposed = t.proposed /\ v.outcome = t.outcome
<1>1. IsLines(BlockOf(t, ref).lines \o lines)
  BY BlockLines, LinesJoin
<1> QED
  BY <1>1, RewriteKeeps DEF AddLines

\* A block that is opened, and what the event then does to it.
LEMMA OpenedKeeps ==
  ASSUME NEW s, Filed(s), Small(s), NEW ref, NEW tag, NEW tone, NEW meta
  PROVE  LET t == block(s, ref, tag, tone, meta)
         IN  /\ Steps(s, t) /\ SameRest(s, t) /\ ref \in DOMAIN t.order
             /\ Edited(t, t, ref)
BY BlockKeeps, EditedSelf DEF Steps

\* The event has edited its block and rewritten it.
LEMMA OpenedRewritten ==
  ASSUME NEW s, Filed(s), NEW t, Steps(s, t), SameRest(s, t), NEW ref,
         ref \in DOMAIN t.order, NEW u, Edited(t, u, ref), NEW lines, IsLines(lines)
  PROVE  LET v == Rewrite(u, ref, lines)
         IN  Steps(s, v) /\ (SameRest(t, u) => SameRest(s, v)) /\ SameRest(u, v)
             /\ v.order = t.order /\ v.proposed = u.proposed /\ v.outcome = u.outcome
             /\ BlockOf(v, ref).lines = lines
<1> DEFINE v == Rewrite(u, ref, lines)
<1>1. /\ Steps(t, v) /\ SameRest(u, v)
      /\ v.order = t.order /\ v.proposed = u.proposed /\ v.outcome = u.outcome
      /\ BlockOf(v, ref).lines = lines
  BY RewriteKeeps DEF Steps
<1>2. Steps(s, v)
  BY <1>1, StepsThrough DEF v
<1> HIDE DEF v
<1>3. SameRest(t, u) => SameRest(s, v)
  BY <1>1 DEF SameRest
<1> QED
  BY <1>1, <1>2, <1>3 DEF v

-----------------------------------------------------------------------------
(* The handlers *)

Rules     == Seq([id : STRING, hot : BOOLEAN])
Approvals == Seq([proposal : Ref, rule : STRING, options : Seq(STRING)])

OneHot(rules) == \A r, q \in ToSet(rules) : r.hot /\ q.hot => r = q

\* What the panels are drawn from is of its type.
Panels(s) == /\ s.mode \in Modes /\ s.turn \in Nat
             /\ s.rules \in Rules /\ OneHot(s.rules)
             /\ s.approval \in Approvals

Good(s) == Filed(s) /\ Small(s) /\ Panels(s)

\* From s to t the blocks evolved, and the panels are still of their types.
Goes(s, t) == Steps(s, t) /\ Panels(t)

SamePanels(s, t) ==
  t.mode = s.mode /\ t.turn = s.turn /\ t.rules = s.rules /\ t.approval = s.approval

LEMMA PanelsAlike ==
  ASSUME NEW s, NEW t, Panels(s), SamePanels(s, t)
  PROVE  Panels(t)
BY DEF Panels, SamePanels

LEMMA RestPanels ==
  ASSUME NEW s, NEW t, SameRest(s, t)
  PROVE  SamePanels(s, t)
BY DEF SameRest, SamePanels, Fields, Files

LEMMA SameRestThrough ==
  ASSUME NEW s, NEW t, NEW u, SameRest(s, t), SameRest(t, u)
  PROVE  SameRest(s, u)
BY DEF SameRest

LEMMA SameRestSelf ==
  ASSUME NEW s
  PROVE  SameRest(s, s)
BY DEF SameRest

\* An event that leaves the blocks alone.
LEMMA AsideGoes ==
  ASSUME NEW s, Good(s), NEW t, SameFiles(s, t), SamePanels(s, t)
  PROVE  Goes(s, t)
BY FiledAlike, PanelsAlike DEF Good, Goes

\* An event that rewrites its block, and nothing else.
LEMMA RewrittenGoes ==
  ASSUME NEW s, Good(s), NEW t, Steps(s, t), SameRest(s, t), NEW ref,
         ref \in DOMAIN t.order, NEW u, Edited(t, u, ref), SameRest(t, u),
         NEW lines, IsLines(lines)
  PROVE  Goes(s, Rewrite(u, ref, lines)) /\ SameRest(s, Rewrite(u, ref, lines))
<1> DEFINE v == Rewrite(u, ref, lines)
<1>1. Steps(s, v) /\ SameRest(s, v)
  BY OpenedRewritten DEF Good
<1> HIDE DEF v
<1>2. Panels(v)
  BY <1>1, RestPanels, PanelsAlike DEF Good
<1> QED
  BY <1>1, <1>2 DEF Goes, v

LEMMA NewIsGood == Good(New)
<1>1. /\ New.mode = "plan" /\ New.turn = 0 /\ New.rules = <<>> /\ New.approval = <<>>
  BY DEF New
<1>2. Panels(New)
  BY <1>1 DEF Panels, Modes, Rules, Approvals, OneHot, ToSet
<1> QED
  BY <1>2, NewIsFiled DEF Good

LEMMA SessionStartedGoes ==
  ASSUME NEW s, Good(s), NEW e \in SessionStarted
  PROVE  Goes(s, applySessionStarted(s, e))
<1> DEFINE t == [s EXCEPT !.command = e.sandbox, !.cwd = e.cwd, !.branch = e.branch,
                          !.model = e.model, !.ctxLimit = e.ctxLimit]
           u == [t EXCEPT !.label = contextLabel(0, e.ctxLimit)]
<1>1. IsState(s)
  BY DEF Good, Filed
<1>2. IsState(t) /\ SameFiles(s, t) /\ SamePanels(s, t)
  BY <1>1 DEF IsState, Fields, Files, SameFiles, SamePanels
<1> HIDE DEF t
<1>3. SameFiles(s, u) /\ SamePanels(s, u)
  BY <1>2 DEF IsState, Fields, Files, SameFiles, SamePanels
<1>4. applySessionStarted(s, e) = IF e.ctxLimit > 0 THEN u ELSE t
  BY DEF applySessionStarted, t
<1> HIDE DEF u
<1> QED
  BY <1>2, <1>3, <1>4, AsideGoes

LEMMA TurnStateGoes ==
  ASSUME NEW s, Good(s), NEW e \in TurnState
  PROVE  Goes(s, applyTurnState(s, e))
<1> DEFINE t == applyTurnState(s, e)
<1>1. IsState(s)
  BY DEF Good, Filed
<1>2. /\ SameFiles(s, t) /\ t.rules = s.rules /\ t.approval = s.approval
      /\ t.mode = (IF e.mode \in Modes THEN e.mode ELSE s.mode)
      /\ t.turn = (IF e.turn > 0 THEN e.turn ELSE s.turn)
  <2> DEFINE tone == IF s.forked /\ e.state = "EXECUTING" THEN "fork" ELSE stateTone(e.state)
             turn == IF e.turn > 0 THEN e.turn ELSE s.turn
             dirty == IF e.dirty = "" THEN s.dirty ELSE e.dirty
             mode == IF e.mode \in Modes THEN e.mode ELSE s.mode
  <2>1. t = [s EXCEPT !.state = e.state, !.tone = tone, !.turn = turn, !.loading = e.detail,
                      !.dirty = dirty, !.mode = mode]
    BY <1>1 DEF applyTurnState, IsState, Fields
  <2> HIDE DEF t, tone, turn, dirty, mode
  <2>2. /\ SameFiles(s, t) /\ t.rules = s.rules /\ t.approval = s.approval
        /\ t.mode = mode /\ t.turn = turn
    BY <1>1, <2>1 DEF IsState, Fields, Files, SameFiles
  <2> QED
    BY <2>2 DEF turn, mode
<1> HIDE DEF t
<1>3. e.turn \in Nat
  BY DEF TurnState
<1>4. Panels(t)
  BY <1>2, <1>3 DEF Good, Panels
<1>5. Steps(s, t)
  BY <1>2, FiledAlike DEF Good
<1> QED
  BY <1>4, <1>5 DEF Goes, t

LEMMA HostLogGoes ==
  ASSUME NEW s, Good(s), NEW e \in HostLog
  PROVE  Goes(s, applyHostLog(s, e))
<1> DEFINE t == block(s, e.block, "HOST", "sys", <<e.meta>>)
           row(step) == Cells(<<IF e.marks THEN Mark(step) ELSE "",
                                step.label, step.value, step.note>>)
           lines == [i \in DOMAIN e.steps |-> row(e.steps[i])]
<1>1. /\ Steps(s, t) /\ SameRest(s, t) /\ e.block \in DOMAIN t.order /\ Edited(t, t, e.block)
  BY OpenedKeeps DEF Good
<1>2. IsLines(lines)
  <2>1. IsSeq(e.steps)
    BY DEF HostLog, IsSeq
  <2>2. \A i \in DOMAIN e.steps : IsSeq(row(e.steps[i]))
    BY TupleSeqs, CellsLine
  <2>3. lines = [i \in DOMAIN e.steps |-> lines[i]]
    OBVIOUS
  <2>4. \A i \in DOMAIN e.steps : IsSeq(lines[i])
    BY <2>2
  <2> HIDE DEF lines
  <2> QED
    BY <2>1, <2>3, <2>4, LinesOf
<1>3. applyHostLog(s, e) = Rewrite(t, e.block, lines)
  BY DEF applyHostLog
<1> HIDE DEF t, lines
<1> QED
  BY <1>1, <1>2, <1>3, SameRestSelf, RewrittenGoes

LEMMA UserMessageGoes ==
  ASSUME NEW s, Good(s), NEW e \in UserMessage
  PROVE  Goes(s, applyUserMessage(s, e))
<1> DEFINE t == block(s, e.block, "YOU", "user", <<e.at>>)
<1>1. /\ Steps(s, t) /\ SameRest(s, t) /\ e.block \in DOMAIN t.order /\ Edited(t, t, e.block)
  BY OpenedKeeps DEF Good
<1>2. IsLines(<<e.text>>)
  <2>1. IsSeq(e.text)
    BY DEF UserMessage, Prose, IsSeq
  <2> QED
    BY <2>1, LineTuples
<1>3. applyUserMessage(s, e) = Rewrite(t, e.block, <<e.text>>)
  BY DEF applyUserMessage
<1> HIDE DEF t
<1> QED
  BY <1>1, <1>2, <1>3, SameRestSelf, RewrittenGoes

LEMMA AgentMessageGoes ==
  ASSUME NEW s, Good(s), NEW e \in AgentMessage
  PROVE  Goes(s, applyAgentMessage(s, e))
<1> DEFINE t == block(s, e.block, "AGENT", "agent", <<e.meta>>)
           u == IF e.meta = "" THEN t ELSE Meta(t, e.block, <<e.meta>>)
           lines == paragraphs(e.text)
<1>1. /\ Steps(s, t) /\ SameRest(s, t) /\ e.block \in DOMAIN t.order /\ Edited(t, t, e.block)
  BY OpenedKeeps DEF Good
<1>2. IsLines(lines)
  <2>1. e.text \in Seq(STRING)
    BY DEF AgentMessage, Prose
  <2> QED
    BY <2>1, ParagraphsType, SeqsAreLines
<1>3. applyAgentMessage(s, e) = Rewrite(u, e.block, lines)
  BY DEF applyAgentMessage
<1> HIDE DEF t, lines
<1>4. Edited(t, u, e.block) /\ SameRest(t, u)
  BY <1>1, MetaKeeps, SameRestSelf DEF Steps
<1> HIDE DEF u
<1> QED
  BY <1>1, <1>2, <1>3, <1>4, RewrittenGoes

LEMMA AgentDeltaGoes ==
  ASSUME NEW s, Good(s), NEW e \in AgentDelta
  PROVE  Goes(s, applyAgentDelta(s, e))
<1> DEFINE t == block(s, e.block, "AGENT", "agent", <<>>)
           lines == Continued(BlockOf(t, e.block).lines, e.text)
<1>1. /\ Steps(s, t) /\ SameRest(s, t) /\ e.block \in DOMAIN t.order /\ Edited(t, t, e.block)
  BY OpenedKeeps DEF Good
<1>2. applyAgentDelta(s, e) = Rewrite(t, e.block, lines)
  BY DEF applyAgentDelta
<1> HIDE DEF t
<1>3. IsLines(lines)
  <2>1. e.text \in Seq(STRING)
    BY DEF AgentDelta, Prose
  <2>2. IsLines(BlockOf(t, e.block).lines)
    BY <1>1, BlockLines DEF Steps
  <2> QED
    BY <2>1, <2>2, ContinuedLines
<1> HIDE DEF lines
<1> QED
  BY <1>1, <1>2, <1>3, SameRestSelf, RewrittenGoes

LEMMA AgentPlanGoes ==
  ASSUME NEW s, Good(s), NEW e \in AgentPlan
  PROVE  Goes(s, applyAgentPlan(s, e))
<1> DEFINE meta == <<"plan", ToString(Len(e.steps))>>
           t == block(s, e.block, "AGENT", "agent", meta)
           u == Meta(t, e.block, meta)
           lines == [n \in DOMAIN e.steps |-> <<ToString(n), e.steps[n]>>]
<1>1. /\ Steps(s, t) /\ SameRest(s, t) /\ e.block \in DOMAIN t.order /\ Edited(t, t, e.block)
  BY OpenedKeeps DEF Good
<1>2. applyAgentPlan(s, e) = Rewrite(u, e.block, lines)
  BY DEF applyAgentPlan
<1> HIDE DEF t, meta
<1>3. IsLines(lines)
  <2>1. IsSeq(e.steps)
    BY DEF AgentPlan, IsSeq
  <2>2. lines = [i \in DOMAIN e.steps |-> lines[i]]
    OBVIOUS
  <2>3. \A i \in DOMAIN e.steps : IsSeq(lines[i])
    BY TupleSeqs
  <2> HIDE DEF lines
  <2> QED
    BY <2>1, <2>2, <2>3, LinesOf
<1>4. Edited(t, u, e.block) /\ SameRest(t, u)
  BY <1>1, MetaKeeps DEF Steps
<1> HIDE DEF u, lines
<1> QED
  BY <1>1, <1>2, <1>3, <1>4, RewrittenGoes

LEMMA Elements ==
  ASSUME NEW S, NEW q \in Seq(S)
  PROVE  /\ Len(q) \in Nat /\ DOMAIN q = 1..Len(q) /\ IsSeq(q)
         /\ \A i \in DOMAIN q : q[i] \in S
BY DEF IsSeq

LEMMA FromFunction ==
  ASSUME NEW S, NEW n \in Nat, NEW q \in [1..n -> S]
  PROVE  q \in Seq(S)
OBVIOUS

LEMMA KeptSteps ==
  ASSUME NEW s, NEW t, Filed(s), Small(s), IsState(t),
         \A f \in Files \ {"proposed", "outcome"} : t[f] = s[f],
         DOMAIN t.proposed \cup DOMAIN t.outcome \subseteq DOMAIN s.order
  PROVE  Steps(s, t)
<1>1. Edited(s, t, "")
  BY KeptOutcomes
<1>2. Filed(t) /\ Small(t)
  BY <1>1, EditedFiled
<1>3. t.blocks = s.blocks /\ t.nextID = s.nextID /\ t.dropped = s.dropped
  BY DEF Files
<1>4. Evolves(s, t)
  BY <1>3, EvolvesSelf DEF Evolves
<1> QED
  BY <1>2, <1>4 DEF Steps

LEMMA ToolProposedGoes ==
  ASSUME NEW s, Good(s), NEW e \in ToolProposed
  PROVE  Goes(s, applyToolProposed(s, e))
<1> DEFINE t == block(s, e.block, "PROPOSED", "tool", <<"pending gate">>)
           row(c) == <<<<c.tool, c.args>>>> \o IF c.detail = "" THEN <<>> ELSE <<<<c.detail>>>>
           rows == [n \in DOMAIN e.calls |-> row(e.calls[n])]
           lines == FlattenSeq(rows)
           u == Rewrite(t, e.block, lines)
           proposed == With(u.proposed, e.block, toolNames(e.calls))
           v == [u EXCEPT !.proposed = proposed]
<1>1. /\ Steps(s, t) /\ SameRest(s, t) /\ e.block \in DOMAIN t.order /\ Edited(t, t, e.block)
  BY OpenedKeeps DEF Good
<1>2. applyToolProposed(s, e) = v
  BY DEF applyToolProposed
<1> HIDE DEF t
<1>3. IsLines(lines)
  <2>1. Len(e.calls) \in Nat /\ DOMAIN e.calls = 1..Len(e.calls)
        /\ \A n \in DOMAIN e.calls : e.calls[n].tool \in STRING /\ e.calls[n].args \in STRING
                                     /\ e.calls[n].detail \in STRING
    <3> DEFINE Call == [tool : STRING, args : STRING, detail : STRING]
    <3>1. e.calls \in Seq(Call)
      BY DEF ToolProposed
    <3> HIDE DEF Call
    <3>2. /\ Len(e.calls) \in Nat /\ DOMAIN e.calls = 1..Len(e.calls)
          /\ \A n \in DOMAIN e.calls : e.calls[n] \in Call
      BY <3>1, Elements
    <3> QED
      BY <3>2 DEF Call
  <2>2. ASSUME NEW c, c.tool \in STRING, c.args \in STRING, c.detail \in STRING
        PROVE  row(c) \in Seq(Seq(STRING))
    <3>1. <<c.tool, c.args>> \in Seq(STRING) /\ <<c.detail>> \in Seq(STRING)
      BY <2>2
    <3> DEFINE one == <<c.tool, c.args>>
               two == IF c.detail = "" THEN <<>> ELSE <<<<c.detail>>>>
    <3>2. one \in Seq(STRING)
      BY <3>1
    <3>2a. two \in Seq(Seq(STRING))
      <4> DEFINE d == <<c.detail>>
      <4>1. d \in Seq(STRING)
        BY <3>1
      <4> HIDE DEF d
      <4>2. <<d>> \in Seq(Seq(STRING)) /\ <<>> \in Seq(Seq(STRING))
        BY <4>1
      <4>3. two = IF c.detail = "" THEN <<>> ELSE <<d>>
        BY DEF d
      <4> HIDE DEF two
      <4> QED
        BY <4>2, <4>3
    <3> HIDE DEF one, two
    <3>3. <<one>> \o two \in Seq(Seq(STRING))
      BY <3>2, <3>2a
    <3> QED
      BY <3>3 DEF one, two
  <2>3. \A n \in DOMAIN e.calls : row(e.calls[n]) \in Seq(Seq(STRING))
    BY <2>1, <2>2
  <2> HIDE DEF row
  <2>4. rows \in [1..Len(e.calls) -> Seq(Seq(STRING))]
    BY <2>1, <2>3
  <2> HIDE DEF rows
  <2>5. rows \in Seq(Seq(Seq(STRING)))
    BY <2>1, <2>4
  <2>6. lines \in Seq(Seq(STRING))
    BY <2>5, FlattenIs, Joining!FlattenType, Zenon
  <2> QED
    BY <2>6, SeqsAreLines
<1> HIDE DEF lines, proposed
<1>4. Steps(s, u) /\ SameRest(s, u) /\ u.order = t.order
  <2>1. Filed(s) /\ SameRest(t, t)
    BY SameRestSelf DEF Good
  <2> QED
    BY <1>1, <1>3, <2>1, OpenedRewritten
<1> HIDE DEF u
<1>5. DOMAIN proposed \cup DOMAIN u.outcome \subseteq DOMAIN u.order
  BY <1>1, <1>4 DEF proposed, With, Steps, Filed
<1>6. /\ IsState(v) /\ v.proposed = proposed /\ v.outcome = u.outcome
      /\ \A f \in Files \ {"proposed", "outcome"} : v[f] = u[f]
      /\ SameRest(u, v)
  BY <1>4 DEF Steps, Filed, IsState, Fields, Files, SameRest
<1> HIDE DEF v
<1>7. Steps(u, v)
  BY <1>4, <1>5, <1>6, KeptSteps DEF Steps
<1>8. Steps(s, v)
  BY <1>4, <1>7, StepsThrough DEF Good
<1>9. Panels(v)
  BY <1>4, <1>6, SameRestThrough, RestPanels, PanelsAlike DEF Good
<1> QED
  BY <1>2, <1>8, <1>9 DEF Goes

\* Rules that are named by their identities and none of which fired.
LEMMA ColdRules ==
  ASSUME NEW rules \in Rules, \A i \in DOMAIN rules : ~rules[i].hot
  PROVE  OneHot(rules)
BY DEF OneHot, ToSet

LEMMA OfinScopeGoes ==
  ASSUME NEW s, Good(s), NEW e \in OfinScope
  PROVE  LET v == applyOfinScope(s, e)
         IN  /\ Goes(s, v) /\ v.inScope = <<e.total>>
             /\ v.rules = [i \in DOMAIN e.rules |-> [id |-> e.rules[i].id, hot |-> FALSE]]
             /\ \A f \in (Fields \ Files) \ {"inScope", "rules"} : v[f] = s[f]
<1> DEFINE rules == [i \in DOMAIN e.rules |-> [id |-> e.rules[i].id, hot |-> FALSE]]
           t    == [s EXCEPT !.inScope = <<e.total>>, !.rules = rules]
           row(r) == Cells(<<r.id, r.tool, r.match, r.verdict>>)
           rest == e.total - Len(e.rules)
           rows == [i \in DOMAIN e.rules |-> row(e.rules[i])]
           first == <<<<"resolved", ToString(e.total)>>>>
           last == IF rest > 0 THEN <<<<"more", ToString(rest)>>>> ELSE <<>>
           lines == first \o rows \o last
           meta == <<"scope", e.scope>>
           u == block(t, e.block, "OFIN", "agent", meta)
           v == Meta(u, e.block, meta)
<1>1. applyOfinScope(s, e) = IF e.block = "" THEN t ELSE Rewrite(v, e.block, lines)
  BY DEF applyOfinScope
<1>2. /\ Len(e.rules) \in Nat /\ DOMAIN e.rules = 1..Len(e.rules) /\ IsSeq(e.rules)
      /\ \A i \in DOMAIN e.rules : e.rules[i].id \in STRING
  <2> DEFINE Rule == [id : STRING, tool : STRING, match : STRING, verdict : STRING]
  <2>1. e.rules \in Seq(Rule)
    BY DEF OfinScope
  <2> HIDE DEF Rule
  <2>2. /\ Len(e.rules) \in Nat /\ DOMAIN e.rules = 1..Len(e.rules) /\ IsSeq(e.rules)
        /\ \A i \in DOMAIN e.rules : e.rules[i] \in Rule
    BY <2>1, Elements
  <2> QED
    BY <2>2 DEF Rule
<1>3. rules \in Rules /\ OneHot(rules)
  <2>1. rules \in [1..Len(e.rules) -> [id : STRING, hot : BOOLEAN]]
    BY <1>2
  <2>2. \A i \in DOMAIN rules : ~rules[i].hot
    OBVIOUS
  <2> HIDE DEF rules
  <2>3. rules \in Rules
    BY <1>2, <2>1, FromFunction DEF Rules
  <2> QED
    BY <2>2, <2>3, ColdRules
<1>4. IsLines(lines)
  <2>1. \A i \in DOMAIN e.rules : IsSeq(row(e.rules[i]))
    BY TupleSeqs, CellsLine
  <2> HIDE DEF row
  <2>2. rows = [i \in DOMAIN e.rules |-> rows[i]] /\ \A i \in DOMAIN e.rules : IsSeq(rows[i])
    BY <2>1
  <2> HIDE DEF rows
  <2>3. IsLines(rows)
    BY <1>2, <2>2, LinesOf
  <2>4. IsLines(first) /\ IsLines(last)
    BY TupleSeqs, LineTuples
  <2> HIDE DEF first, last
  <2>5. IsLines(first \o rows)
    BY <2>3, <2>4, LinesJoin
  <2> QED
    BY <2>4, <2>5, LinesJoin
<1> HIDE DEF lines, rules, meta
<1> DEFINE total == <<e.total>>
<1>5. /\ SameFiles(s, t) /\ t.rules = rules /\ t.inScope = total
      /\ t.mode = s.mode /\ t.turn = s.turn /\ t.approval = s.approval
      /\ \A f \in (Fields \ Files) \ {"inScope", "rules"} : t[f] = s[f]
  <2> HIDE DEF total
  <2>1. t = [s EXCEPT !.inScope = total, !.rules = rules]
    BY DEF total
  <2> HIDE DEF t
  <2> QED
    BY <2>1 DEF Good, Filed, IsState, Fields, Files, SameFiles
<1> HIDE DEF t
<1>6. Goes(s, t) /\ Good(t)
  BY <1>3, <1>5, FiledAlike DEF Good, Panels, Goes, Steps
<1>7. /\ Steps(t, u) /\ SameRest(t, u) /\ e.block \in DOMAIN u.order /\ Edited(u, u, e.block)
  BY <1>6, OpenedKeeps DEF Good
<1> HIDE DEF u
<1>8. Edited(u, v, e.block) /\ SameRest(u, v)
  BY <1>7, MetaKeeps DEF Steps
<1> HIDE DEF v
<1>9. Goes(t, Rewrite(v, e.block, lines)) /\ SameRest(t, Rewrite(v, e.block, lines))
  BY <1>4, <1>6, <1>7, <1>8, RewrittenGoes
<1>10. Goes(s, Rewrite(v, e.block, lines))
  BY <1>6, <1>9, StepsThrough DEF Goes, Good
<1> DEFINE w == applyOfinScope(s, e)
<1>11. Goes(s, w) /\ SameRest(t, w)
  BY <1>1, <1>6, <1>9, <1>10, SameRestSelf
<1> HIDE DEF w, total
<1>12. /\ w.inScope = total /\ w.rules = rules
       /\ \A f \in (Fields \ Files) \ {"inScope", "rules"} : w[f] = s[f]
  BY <1>5, <1>11 DEF SameRest, Fields, Files
<1> QED
  BY <1>11, <1>12 DEF w, total, rules

LEMMA HotRuleGoes ==
  ASSUME NEW s, Good(s), NEW id, NEW hot \in BOOLEAN
  PROVE  Goes(s, hotRule(s, id, hot))
<1> DEFINE rule(i) == [s.rules[i] EXCEPT !.hot = hot /\ s.rules[i].id = id]
           rules == [i \in DOMAIN s.rules |-> rule(i)]
           t == [s EXCEPT !.rules = rules]
<1>1. hotRule(s, id, hot) = t
  BY DEF hotRule, Good, Filed, IsState, Fields
<1>2. s.rules \in Rules /\ Len(s.rules) \in Nat /\ DOMAIN s.rules = 1..Len(s.rules)
  BY DEF Good, Panels, Rules
<1>3. \A i \in DOMAIN s.rules : s.rules[i] \in [id : STRING, hot : BOOLEAN]
  BY <1>2, Elements DEF Rules
<1>4. \A i \in DOMAIN s.rules : /\ rule(i) \in [id : STRING, hot : BOOLEAN]
                                /\ rule(i).hot => rule(i).id = id /\ rule(i).hot = TRUE
  BY <1>3
<1> HIDE DEF rule
<1>5. rules \in Rules
  <2>1. rules \in [1..Len(s.rules) -> [id : STRING, hot : BOOLEAN]]
    BY <1>2, <1>4
  <2> HIDE DEF rules
  <2> QED
    BY <1>2, <2>1 DEF Rules
<1>6. OneHot(rules)
  <2>1. ASSUME NEW i \in DOMAIN rules, NEW j \in DOMAIN rules, rules[i].hot, rules[j].hot
        PROVE  rules[i] = rules[j]
    <3>1. /\ rule(i) \in [id : STRING, hot : BOOLEAN] /\ rule(j) \in [id : STRING, hot : BOOLEAN]
          /\ rule(i).id = rule(j).id /\ rule(i).hot = rule(j).hot
      BY <1>4, <2>1
    <3>2. rule(i) = rule(j)
      BY <3>1
    <3> QED
      BY <3>2
  <2> HIDE DEF rules
  <2> QED
    BY <2>1 DEF OneHot, ToSet
<1> HIDE DEF rules
<1>7. /\ SameFiles(s, t) /\ t.rules = rules
      /\ t.mode = s.mode /\ t.turn = s.turn /\ t.approval = s.approval
  BY DEF Good, Filed, IsState, Fields, Files, SameFiles
<1> HIDE DEF t
<1> QED
  BY <1>1, <1>5, <1>6, <1>7, FiledAlike DEF Good, Panels, Goes

LEMMA AllowedGoes ==
  ASSUME NEW s, Good(s), NEW ref
  PROVE  Goes(s, Allowed(s, ref))
<1>1. CASE ref \notin DOMAIN s.order
  <2>1. Allowed(s, ref) = s
    BY <1>1 DEF Allowed
  <2> QED
    BY <2>1, EvolvesSelf DEF Goes, Steps, Good
<1>2. CASE ref \in DOMAIN s.order
  <2> DEFINE t == [s EXCEPT !.blocks[s.order[ref]].tag = "TOOL"]
             u == Meta(t, ref, toolMeta(Get(s.proposed, ref, <<>>), <<"running">>))
  <2>1. Allowed(s, ref) = Rewrite(u, ref, <<>>)
    BY <1>2 DEF Allowed
  <2>2. SetTo(s, t, ref, "TOOL")
    BY DEF SetTo
  <2> HIDE DEF t
  <2>3. Edited(s, s, ref) /\ Filed(s)
    BY EditedSelf DEF Good
  <2>4. Edited(s, t, ref) /\ SameRest(s, t)
    BY <1>2, <2>2, <2>3, AttributesKeep
  <2>5. Edited(s, u, ref) /\ SameRest(t, u)
    BY <1>2, <2>3, <2>4, MetaKeeps
  <2> HIDE DEF u
  <2>6. SameRest(s, u) /\ Steps(s, s) /\ SameRest(s, s) /\ IsLines(<<>>)
    BY <2>3, <2>4, <2>5, SameRestThrough, SameRestSelf, EvolvesSelf, TupleSeqs, LineTuples
       DEF Steps, Good
  <2> QED
    BY <1>2, <2>1, <2>5, <2>6, RewrittenGoes
<1> QED
  BY <1>1, <1>2

LEMMA GoesGood ==
  ASSUME NEW s, NEW t, Goes(s, t)
  PROVE  Good(t)
BY DEF Goes, Steps, Good

LEMMA GoesThrough ==
  ASSUME NEW s, NEW t, NEW u, Good(s), Goes(s, t), Goes(t, u)
  PROVE  Goes(s, u)
BY StepsThrough DEF Goes, Good

LEMMA RefusedGoes ==
  ASSUME NEW s, Good(s), NEW e \in OfinVerdict
  PROVE  Goes(s, Refused(s, e))
<1> DEFINE human == e.verdict = "require_human"
           t == block(s, e.block, IF human THEN "APPROVAL" ELSE "DENIED",
                      IF human THEN "human" ELSE "deny", verdictMeta(e))
           given == Cells(<<e.headline, e.rationale>>) \o e.terms
           last == IF ~human THEN <<<<"returned as an observation">>>>
                   ELSE IF e.options = <<>> THEN <<>> ELSE <<e.options>>
           shown == [i \in DOMAIN given |-> <<given[i]>>]
           lines == shown \o last
           u == [t EXCEPT !.approval = ApprovalAfter(s, e)]
           v == Meta(u, e.block, verdictMeta(e))
           w == Rewrite(v, e.block, lines)
<1>1. Refused(s, e) = w
  BY DEF Refused
<1>2. /\ Steps(s, t) /\ SameRest(s, t) /\ e.block \in DOMAIN t.order
  BY OpenedKeeps DEF Good
<1> HIDE DEF t
<1>3. IsSeq(e.terms) /\ IsSeq(e.options)
  BY DEF OfinVerdict, IsSeq
<1>4. IsLines(lines)
  <2>1. IsSeq(Cells(<<e.headline, e.rationale>>))
    BY TupleSeqs, CellsLine
  <2>2. IsSeq(given)
    BY <1>3, <2>1, SeqJoin
  <2> HIDE DEF given
  <2>3. shown = [i \in DOMAIN given |-> shown[i]]
        /\ \A i \in DOMAIN given : IsSeq(shown[i])
    BY TupleSeqs
  <2> HIDE DEF shown
  <2>4. IsLines(shown)
    BY <2>2, <2>3, LinesOf
  <2>5. IsLines(last)
    BY <1>3, TupleSeqs, LineTuples
  <2> HIDE DEF last
  <2> QED
    BY <2>4, <2>5, LinesJoin
<1> HIDE DEF lines
<1>5. /\ SameFiles(t, u) /\ u.approval = ApprovalAfter(s, e)
      /\ u.mode = t.mode /\ u.turn = t.turn /\ u.rules = t.rules
  BY <1>2 DEF Steps, Filed, IsState, Fields, Files, SameFiles
<1> HIDE DEF u
<1>6. Edited(t, u, e.block)
  BY <1>2, <1>5, FiledAlike DEF Steps
<1>7. Edited(t, v, e.block) /\ SameRest(u, v)
  BY <1>2, <1>6, MetaKeeps DEF Steps
<1> HIDE DEF v
<1>8. Steps(s, w) /\ SameRest(v, w)
  BY <1>2, <1>4, <1>7, OpenedRewritten DEF Good
<1> HIDE DEF w
<1>9. /\ w.approval = ApprovalAfter(s, e)
      /\ w.mode = s.mode /\ w.turn = s.turn /\ w.rules = s.rules
  <2>1. SamePanels(s, t) /\ SamePanels(u, v) /\ SamePanels(v, w)
    BY <1>2, <1>7, <1>8, RestPanels
  <2> QED
    BY <1>5, <2>1 DEF SamePanels
<1>10. ApprovalAfter(s, e) \in Approvals
  <2> DEFINE A == [proposal : Ref, rule : STRING, options : Seq(STRING)]
             a == [proposal |-> e.proposal, rule |-> e.rule, options |-> e.options]
  <2>1. a \in A
    BY DEF OfinVerdict
  <2> HIDE DEF a, A
  <2>2. <<>> \in Seq(A) /\ <<a>> \in Seq(A)
    BY <2>1
  <2>3. ApprovalAfter(s, e) = IF e.verdict = "deny" THEN <<>> ELSE <<a>>
    BY DEF ApprovalAfter, a
  <2> QED
    BY <2>2, <2>3 DEF Approvals, A
<1>11. Panels(w)
  BY <1>9, <1>10 DEF Panels, Good
<1> QED
  BY <1>1, <1>8, <1>11 DEF Goes

LEMMA OfinVerdictGoes ==
  ASSUME NEW s, Good(s), NEW e \in OfinVerdict
  PROVE  Goes(s, applyOfinVerdict(s, e))
<1> DEFINE t == IF e.verdict = "allow" THEN Allowed(s, e.proposal) ELSE Refused(s, e)
           hot == e.verdict # "allow"
<1>1. applyOfinVerdict(s, e) = hotRule(t, e.rule, hot)
  <2>1. CASE e.verdict = "allow"
    <3>1. hot = FALSE /\ t = Allowed(s, e.proposal)
      BY <2>1
    <3> HIDE DEF hot, t
    <3> QED
      BY <2>1, <3>1 DEF applyOfinVerdict
  <2>2. CASE e.verdict # "allow"
    <3>1. hot = TRUE /\ t = Refused(s, e)
      BY <2>2
    <3> HIDE DEF hot, t
    <3> QED
      BY <2>2, <3>1 DEF applyOfinVerdict
  <2> QED
    BY <2>1, <2>2
<1>2. Goes(s, t)
  BY AllowedGoes, RefusedGoes
<1>3. hot \in BOOLEAN
  OBVIOUS
<1> HIDE DEF t, hot
<1>4. Good(t) /\ Goes(t, hotRule(t, e.rule, hot))
  BY <1>2, <1>3, GoesGood, HotRuleGoes
<1> QED
  BY <1>1, <1>2, <1>4, GoesThrough

LEMMA OutcomeDomain ==
  ASSUME NEW s, Filed(s), NEW ref \in DOMAIN s.order, NEW lines
  PROVE  DOMAIN Outcome(s, ref, lines) \subseteq DOMAIN s.order
BY DEF Outcome, With, Filed

LEMMA ToolOutputGoes ==
  ASSUME NEW s, Good(s), NEW e \in ToolOutput
  PROVE  Goes(s, applyToolOutput(s, e))
<1> DEFINE ref == e.block
           t == block(s, ref, "TOOL", "tool", <<>>)
           outcome == Outcome(t, ref, e.lines)
           u == [t EXCEPT !.outcome = outcome]
           v == [u EXCEPT !.blocks[u.order[ref]].tone = toneFor(u, ref)]
           lines == [i \in DOMAIN e.lines |-> <<e.lines[i].text>>]
           w == AddLines(v, ref, lines)
<1>1. applyToolOutput(s, e) = w
  BY DEF applyToolOutput
<1>2. /\ Steps(s, t) /\ SameRest(s, t) /\ ref \in DOMAIN t.order
  BY OpenedKeeps DEF Good
<1> HIDE DEF t
<1>3. IsLines(lines)
  <2>1. IsSeq(e.lines)
    BY DEF ToolOutput, IsSeq
  <2>2. lines = [i \in DOMAIN e.lines |-> lines[i]] /\ \A i \in DOMAIN e.lines : IsSeq(lines[i])
    BY TupleSeqs
  <2> HIDE DEF lines
  <2> QED
    BY <2>1, <2>2, LinesOf
<1>4. DOMAIN outcome \subseteq DOMAIN t.order
  BY <1>2, OutcomeDomain DEF Steps
<1> HIDE DEF outcome, lines
<1>5. /\ IsState(u) /\ u.outcome = outcome /\ u.proposed = t.proposed
      /\ \A f \in Files \ {"proposed", "outcome"} : u[f] = t[f]
      /\ SameRest(t, u)
  BY <1>2 DEF Steps, Filed, IsState, Fields, Files, SameRest
<1>6. SetTo(u, v, ref, toneFor(u, ref))
  BY DEF SetTo
<1> HIDE DEF u, v
<1>7. Edited(t, u, ref)
  <2>1. DOMAIN u.proposed \cup DOMAIN u.outcome \subseteq DOMAIN t.order
    BY <1>2, <1>4, <1>5 DEF Steps, Filed
  <2> QED
    BY <1>2, <1>5, <2>1, KeptOutcomes DEF Steps
<1>8. Edited(t, v, ref) /\ SameRest(u, v)
  BY <1>2, <1>6, <1>7, AttributesKeep DEF Steps
<1>9. Steps(t, w) /\ SameRest(v, w)
  BY <1>2, <1>3, <1>8, AddLinesKeeps DEF Steps
<1>10. Steps(s, w)
  BY <1>2, <1>9, StepsThrough DEF Good, w
<1> HIDE DEF w
<1>11. SamePanels(s, w)
  BY <1>2, <1>5, <1>8, <1>9, SameRestThrough, RestPanels
<1> QED
  BY <1>1, <1>10, <1>11, PanelsAlike DEF Goes, Good

LEMMA SignedLine ==
  ASSUME NEW added, NEW removed
  PROVE  IsSeq(signedChanges(added, removed))
<1>1. \A sign, n : IsSeq(Signed(sign, n))
  BY TupleSeqs DEF Signed
<1> QED
  BY <1>1, SeqJoin DEF signedChanges

LEMMA ToolCompletedGoes ==
  ASSUME NEW s, Good(s), NEW e \in ToolCompleted
  PROVE  Goes(s, applyToolCompleted(s, e))
<1> DEFINE ref == e.block
           t == block(s, ref, "TOOL", "tool", <<>>)
           tone == IF e.status = "ok" THEN toneFor(t, ref) ELSE "deny"
           u == [t EXCEPT !.blocks[t.order[ref]].tone = tone]
           meta == toolMeta(Get(u.proposed, ref, <<>>), duration(e.duration))
           v == IF e.duration > 0 THEN Meta(u, ref, meta) ELSE u
           row(c) == <<c.op, c.path>> \o (IF c.summary # "" THEN <<c.summary>>
                                          ELSE signedChanges(c.added, c.removed))
           lines == [i \in DOMAIN e.changes |-> row(e.changes[i])]
           w == AddLines(v, ref, lines)
<1>1. applyToolCompleted(s, e) = w
  BY DEF applyToolCompleted
<1>2. /\ Steps(s, t) /\ SameRest(s, t) /\ ref \in DOMAIN t.order /\ Edited(t, t, ref)
  BY OpenedKeeps DEF Good
<1> HIDE DEF t
<1>3. IsLines(lines)
  <2>1. IsSeq(e.changes)
    BY DEF ToolCompleted, IsSeq
  <2>2. ASSUME NEW c PROVE IsSeq(row(c))
    <3> DEFINE rest == IF c.summary # "" THEN <<c.summary>> ELSE signedChanges(c.added, c.removed)
    <3>1. IsSeq(rest) /\ IsSeq(<<c.op, c.path>>)
      BY TupleSeqs, SignedLine
    <3> HIDE DEF rest
    <3>2. IsSeq(<<c.op, c.path>> \o rest)
      BY <3>1, SeqJoin
    <3> QED
      BY <3>2 DEF rest
  <2>3. \A c : IsSeq(row(c))
    BY <2>2
  <2> HIDE DEF row
  <2>4. lines = [i \in DOMAIN e.changes |-> lines[i]] /\ \A i \in DOMAIN e.changes : IsSeq(lines[i])
    BY <2>3
  <2> HIDE DEF lines
  <2> QED
    BY <2>1, <2>4, LinesOf
<1> HIDE DEF lines, tone, meta
<1>4. SetTo(t, u, ref, tone)
  BY DEF SetTo
<1> HIDE DEF u
<1>5. Edited(t, u, ref) /\ SameRest(t, u)
  BY <1>2, <1>4, AttributesKeep DEF Steps
<1>6. Edited(t, v, ref) /\ SameRest(u, v)
  BY <1>2, <1>5, MetaKeeps, SameRestSelf DEF Steps
<1> HIDE DEF v
<1>7. Steps(t, w) /\ SameRest(v, w)
  BY <1>2, <1>3, <1>6, AddLinesKeeps DEF Steps
<1>8. Steps(s, w)
  BY <1>2, <1>7, StepsThrough DEF Good, w
<1> HIDE DEF w
<1>9. SamePanels(s, w)
  BY <1>2, <1>5, <1>6, <1>7, SameRestThrough, RestPanels
<1> QED
  BY <1>1, <1>8, <1>9, PanelsAlike DEF Goes, Good

LEMMA GoalsGoes ==
  ASSUME NEW s, Good(s), NEW e \in GoalsUpdated
  PROVE  Goes(s, applyGoals(s, e))
<1> DEFINE goals == [i \in DOMAIN e.goals |-> [e.goals[i] EXCEPT !.state = goalState(@)]]
           t == [s EXCEPT !.goals = goals]
<1>1. applyGoals(s, e) = t
  BY DEF applyGoals
<1> HIDE DEF goals
<1>2. SameFiles(s, t) /\ SamePanels(s, t)
  BY DEF Good, Filed, IsState, Fields, Files, SameFiles, SamePanels
<1> QED
  BY <1>1, <1>2, AsideGoes

LEMMA LSPGoes ==
  ASSUME NEW s, Good(s), NEW e \in LSPUpdated
  PROVE  Goes(s, applyLSP(s, e))
<1> DEFINE shown(d) == [severity |-> severity(d.severity), file |-> d.file,
                        at |-> IF d.line > 0 THEN ToString(d.line) ELSE ""]
           diagnostics == [i \in DOMAIN e.diagnostics |-> shown(e.diagnostics[i])]
           server == IF e.server = "" THEN s.server ELSE e.server
           t == [s EXCEPT !.server = server, !.diagnostics = diagnostics]
<1>1. applyLSP(s, e) = t
  BY DEF applyLSP, Good, Filed, IsState, Fields
<1> HIDE DEF diagnostics, server
<1>2. SameFiles(s, t) /\ SamePanels(s, t)
  BY DEF Good, Filed, IsState, Fields, Files, SameFiles, SamePanels
<1> QED
  BY <1>1, <1>2, AsideGoes

\* refreshUsage changes three figures.
LEMMA RefreshSame ==
  ASSUME NEW s, IsState(s)
  PROVE  /\ SameFiles(s, refreshUsage(s)) /\ SamePanels(s, refreshUsage(s))
         /\ \A f \in Fields \ {"percent", "label", "cost"} : refreshUsage(s)[f] = s[f]
<1> DEFINE limit == IF s.usage.ctxLimit = 0 THEN s.ctxLimit ELSE s.usage.ctxLimit
           percent == contextPercent(s.usage.ctxUsed, limit)
           label == contextLabel(s.usage.ctxUsed, limit)
           cost == <<turnCost(s, s.usage.costTurn),
                     [key |-> <<"session">>, value |-> money(s.usage.costSession)],
                     [key |-> <<"tok">>,
                      value |-> contextLabel(s.usage.tokensIn, s.usage.tokensOut)]>>
           t == [s EXCEPT !.percent = percent, !.label = label, !.cost = cost]
<1>1. refreshUsage(s) = t
  BY DEF refreshUsage
<1> HIDE DEF percent, label, cost
<1>2. /\ SameFiles(s, t) /\ SamePanels(s, t)
      /\ \A f \in Fields \ {"percent", "label", "cost"} : t[f] = s[f]
  BY DEF IsState, Fields, Files, SameFiles, SamePanels
<1> QED
  BY <1>1, <1>2

LEMMA UsageGoes ==
  ASSUME NEW s, Good(s), NEW e \in UsageUpdated
  PROVE  Goes(s, applyUsage(s, e))
<1> DEFINE usage == [f \in DOMAIN NoUsage |-> e[f]]
           t == [s EXCEPT !.usage = usage]
<1>1. applyUsage(s, e) = refreshUsage(t)
  BY DEF applyUsage
<1> HIDE DEF usage
<1>2. SameFiles(s, t) /\ SamePanels(s, t) /\ IsState(t)
  BY DEF Good, Filed, IsState, Fields, Files, SameFiles, SamePanels
<1> HIDE DEF t
<1>3. SameFiles(s, refreshUsage(t)) /\ SamePanels(s, refreshUsage(t))
  BY <1>2, RefreshSame DEF SameFiles, SamePanels
<1> QED
  BY <1>1, <1>3, AsideGoes

LEMMA SandboxGoes ==
  ASSUME NEW s, Good(s), NEW e \in SandboxUpdated
  PROVE  Goes(s, applySandbox(s, e))
<1> DEFINE t == applySandbox(s, e)
<1>1. \E sandbox : t = [s EXCEPT !.sandbox = sandbox]
  BY DEF applySandbox
<1> HIDE DEF t
<1>2. SameFiles(s, t) /\ SamePanels(s, t)
  BY <1>1 DEF Good, Filed, IsState, Fields, Files, SameFiles, SamePanels
<1> QED
  BY <1>2, AsideGoes DEF t

LEMMA ForksGoes ==
  ASSUME NEW s, Good(s), NEW e \in ForksUpdated
  PROVE  /\ Goes(s, applyForks(s, e))
         /\ \E r : /\ IsState(r) /\ r.forked = TRUE /\ r.forks = e.forks
                   /\ \A f \in (Fields \ Files) \ {"forked", "forks"} : r[f] = s[f]
                   /\ SameRest(refreshUsage(r), applyForks(s, e))
<1> DEFINE t == block(s, e.block, "FORKS", "fork", <<"independent loops">>)
           r == [t EXCEPT !.forked = TRUE, !.forks = e.forks]
           u == refreshUsage(r)
           row(f) == <<f.name, f.approach>>
                     \o (IF f.state = "done" THEN <<"done">> ELSE <<"turn", ToString(f.turn)>>)
                     \o signedChanges(f.added, f.removed)
                     \o (IF f.testsRun > 0 THEN <<ToString(f.testsOK), ToString(f.testsRun)>>
                         ELSE <<>>)
                     \o moneyCompact(f.cost)
           lines == [i \in DOMAIN e.forks |-> row(e.forks[i])]
           w == Rewrite(u, e.block, lines)
<1>1. applyForks(s, e) = w
  BY DEF applyForks, AfterForking
<1>2. /\ Steps(s, t) /\ SameRest(s, t) /\ e.block \in DOMAIN t.order
  BY OpenedKeeps DEF Good
<1> HIDE DEF t
<1>3. IsLines(lines)
  <2>1. IsSeq(e.forks)
    BY DEF ForksUpdated, IsSeq
  <2>2. ASSUME NEW f PROVE IsSeq(row(f))
    <3> DEFINE a == <<f.name, f.approach>>
               b == IF f.state = "done" THEN <<"done">> ELSE <<"turn", ToString(f.turn)>>
               c == signedChanges(f.added, f.removed)
               d == IF f.testsRun > 0 THEN <<ToString(f.testsOK), ToString(f.testsRun)>> ELSE <<>>
               g == moneyCompact(f.cost)
    <3>1. IsSeq(a) /\ IsSeq(b) /\ IsSeq(c) /\ IsSeq(d) /\ IsSeq(g)
      BY TupleSeqs, SignedLine DEF moneyCompact
    <3> HIDE DEF a, b, c, d, g
    <3>2. IsSeq(a \o b)
      BY <3>1, SeqJoin
    <3>3. IsSeq(a \o b \o c)
      BY <3>1, <3>2, SeqJoin
    <3>4. IsSeq(a \o b \o c \o d)
      BY <3>1, <3>3, SeqJoin
    <3>5. IsSeq(a \o b \o c \o d \o g)
      BY <3>1, <3>4, SeqJoin
    <3> QED
      BY <3>5 DEF a, b, c, d, g
  <2>3. \A f : IsSeq(row(f))
    BY <2>2
  <2> HIDE DEF row
  <2>4. lines = [i \in DOMAIN e.forks |-> lines[i]] /\ \A i \in DOMAIN e.forks : IsSeq(lines[i])
    BY <2>3
  <2> HIDE DEF lines
  <2> QED
    BY <2>1, <2>4, LinesOf
<1> HIDE DEF lines
<1>4. /\ SameFiles(t, r) /\ SamePanels(t, r) /\ r.forked = TRUE /\ r.forks = e.forks
      /\ \A f \in (Fields \ Files) \ {"forked", "forks"} : r[f] = t[f]
  BY <1>2 DEF Steps, Filed, IsState, Fields, Files, SameFiles, SamePanels
<1> HIDE DEF r
<1>5. SameFiles(t, u) /\ SamePanels(t, u)
  BY <1>4, RefreshSame DEF SameFiles, SamePanels
<1> HIDE DEF u
<1>6. Edited(t, u, e.block)
  BY <1>2, <1>5, FiledAlike DEF Steps
<1>7. Steps(s, w) /\ SameRest(u, w)
  BY <1>2, <1>3, <1>6, OpenedRewritten DEF Good
<1> HIDE DEF w
<1>8. SamePanels(s, w)
  BY <1>2, <1>5, <1>7, RestPanels DEF SamePanels
<1>9. Goes(s, w)
  BY <1>7, <1>8, PanelsAlike DEF Goes, Good
<1>10. \A f \in (Fields \ Files) \ {"forked", "forks"} : r[f] = s[f]
  BY <1>2, <1>4 DEF SameRest
<1>11. IsState(r)
  BY <1>4 DEF SameFiles
<1> QED
  BY <1>1, <1>4, <1>7, <1>9, <1>10, <1>11 DEF u

LEMMA KindOf ==
  ASSUME NEW e \in Event
  PROVE  /\ e.kind = "SessionStarted" => e \in SessionStarted
         /\ e.kind = "TurnState" => e \in TurnState
         /\ e.kind = "HostLog" => e \in HostLog
         /\ e.kind = "UserMessage" => e \in UserMessage
         /\ e.kind = "AgentMessage" => e \in AgentMessage
         /\ e.kind = "AgentDelta" => e \in AgentDelta
         /\ e.kind = "AgentPlan" => e \in AgentPlan
         /\ e.kind = "ToolProposed" => e \in ToolProposed
         /\ e.kind = "OfinScope" => e \in OfinScope
         /\ e.kind = "OfinVerdict" => e \in OfinVerdict
         /\ e.kind = "ToolOutput" => e \in ToolOutput
         /\ e.kind = "ToolCompleted" => e \in ToolCompleted
         /\ e.kind = "GoalsUpdated" => e \in GoalsUpdated
         /\ e.kind = "LSPUpdated" => e \in LSPUpdated
         /\ e.kind = "UsageUpdated" => e \in UsageUpdated
         /\ e.kind = "SandboxUpdated" => e \in SandboxUpdated
         /\ e.kind = "ForksUpdated" => e \in ForksUpdated
         /\ e.kind \in {"SessionStarted", "TurnState", "HostLog", "UserMessage", "AgentMessage",
                        "AgentDelta", "AgentPlan", "ToolProposed", "OfinScope", "OfinVerdict",
                        "ToolOutput", "ToolCompleted", "GoalsUpdated", "LSPUpdated",
                        "UsageUpdated", "SandboxUpdated", "ForksUpdated"}
<1>1. /\ \A x \in SessionStarted : x.kind = "SessionStarted"
      /\ \A x \in TurnState : x.kind = "TurnState"
      /\ \A x \in HostLog : x.kind = "HostLog"
      /\ \A x \in UserMessage : x.kind = "UserMessage"
      /\ \A x \in AgentMessage : x.kind = "AgentMessage"
      /\ \A x \in AgentDelta : x.kind = "AgentDelta"
      /\ \A x \in AgentPlan : x.kind = "AgentPlan"
      /\ \A x \in ToolProposed : x.kind = "ToolProposed"
      /\ \A x \in OfinScope : x.kind = "OfinScope"
      /\ \A x \in OfinVerdict : x.kind = "OfinVerdict"
      /\ \A x \in ToolOutput : x.kind = "ToolOutput"
      /\ \A x \in ToolCompleted : x.kind = "ToolCompleted"
      /\ \A x \in GoalsUpdated : x.kind = "GoalsUpdated"
      /\ \A x \in LSPUpdated : x.kind = "LSPUpdated"
      /\ \A x \in UsageUpdated : x.kind = "UsageUpdated"
      /\ \A x \in SandboxUpdated : x.kind = "SandboxUpdated"
      /\ \A x \in ForksUpdated : x.kind = "ForksUpdated"
  BY DEF SessionStarted, TurnState, HostLog, UserMessage, AgentMessage, AgentDelta, AgentPlan,
         ToolProposed, OfinScope, OfinVerdict, ToolOutput, ToolCompleted, GoalsUpdated,
         LSPUpdated, UsageUpdated, SandboxUpdated, ForksUpdated
<1> QED
  BY <1>1 DEF Event

\* Any event leaves the blocks filed, few enough, and the panels of their types.
LEMMA ApplyGoes ==
  ASSUME NEW s, Good(s), NEW e \in Event
  PROVE  Goes(s, Apply(s, e)) /\ Good(Apply(s, e))
<1>1. Goes(s, Apply(s, e))
  BY KindOf, SessionStartedGoes, TurnStateGoes, HostLogGoes, UserMessageGoes,
     AgentMessageGoes, AgentDeltaGoes, AgentPlanGoes, ToolProposedGoes, OfinScopeGoes,
     OfinVerdictGoes, ToolOutputGoes, ToolCompletedGoes, GoalsGoes, LSPGoes, UsageGoes,
     SandboxGoes, ForksGoes DEF Apply
<1> QED
  BY <1>1, GoesGood

-----------------------------------------------------------------------------
(* Folding a whole session *)

Applying == INSTANCE Folding WITH Op <- Apply

LEMMA FoldIs ==
  ASSUME NEW events
  PROVE  Fold(events) = Applying!Fold(New, events)
BY DEF Fold, Applying!Fold, FoldLeft, Applying!FoldLeft, MapThenFoldSet,
       Applying!MapThenFoldSet, Max, Applying!Max

LEMMA FoldGood ==
  ASSUME NEW events \in Seq(Event)
  PROVE  Good(Fold(events))
<1> DEFINE T == {q \in Seq(Event) : Good(Applying!Fold(New, q))}
<1>1. <<>> \in T
  BY Applying!FoldEmpty, NewIsGood
<1>2. ASSUME NEW q \in Seq(Event), NEW e \in Event, q \in T PROVE Append(q, e) \in T
  <2>1. Applying!Fold(New, Append(q, e)) = Apply(Applying!Fold(New, q), e)
    BY Applying!FoldAppend
  <2>2. Good(Apply(Applying!Fold(New, q), e))
    BY <1>2, ApplyGoes
  <2> QED
    BY <2>1, <2>2
<1> HIDE DEF T
<1>3. events \in T
  BY <1>1, <1>2, Applying!SeqSetInduction
<1> QED
  BY <1>3, FoldIs DEF T

-----------------------------------------------------------------------------
(* The render cache and the scroll *)

Tallying == INSTANCE Folding WITH Op <- Pane!AddRows

LEMMA TallyIsFold ==
  ASSUME NEW base, NEW q
  PROVE  Pane!FoldLeft(Pane!AddRows, base, q) = Tallying!Fold(base, q)
BY DEF Tallying!Fold, Tallying!FoldLeft, Pane!FoldLeft, Tallying!MapThenFoldSet,
       Pane!MapThenFoldSet, Tallying!Max, Pane!Max

LEMMA LinesType ==
  ASSUME NEW blocks \in Seq(Nat)
  PROVE  Pane!Lines(blocks, Gap) \in Nat
<1>1. 0 \in Nat /\ \A n \in Nat, rows \in Nat : Pane!AddRows(n, rows) \in Nat
  BY DEF Pane!AddRows
<1>2. Tallying!Fold(0, blocks) \in Nat
  BY <1>1, Tallying!FoldType
<1>3. Gap \in Nat
  BY ClientAssumption
<1>4. Len(blocks) > 1 => Gap * (Len(blocks) - 1) \in Nat
  BY <1>3
<1> QED
  BY <1>2, <1>4, TallyIsFold DEF Pane!Lines

\* The transcript as the blocks would be rendered now.
Painted(s, width) == [i \in DOMAIN s.blocks |-> Render(s.blocks[i], width)]

LEMMA PaintedSizes ==
  ASSUME NEW s, Filed(s), NEW width
  PROVE  Sizes(Painted(s, width)) \in Seq(Nat) /\ TotalLines(Painted(s, width)) \in Nat
<1> DEFINE N == Len(s.blocks)
           sizes == Sizes(Painted(s, width))
<1>1. N \in Nat /\ DOMAIN s.blocks = 1..N
  BY FiledSeqs
<1>2. \A i \in 1..N : Len(s.blocks[i].lines) \in Nat
  BY SeqIs DEF Filed, IsBlock, IsLines
<1>3. \A i \in 1..N : Render(s.blocks[i], width).rows \in Nat
  <2> SUFFICES ASSUME NEW i \in 1..N PROVE Render(s.blocks[i], width).rows \in Nat
    OBVIOUS
  <2> DEFINE n == Len(s.blocks[i].lines)
  <2>1. n \in Nat
    BY <1>2
  <2> HIDE DEF n
  <2>2. (1 + n) * (IF width = 1 THEN 2 ELSE 1) \in Nat
    BY <2>1
  <2> QED
    BY <2>2 DEF Render, n
<1>4. sizes = [i \in 1..N |-> Render(s.blocks[i], width).rows]
  BY <1>1 DEF Sizes, Painted
<1> HIDE DEF sizes, N
<1>5. sizes \in [1..N -> Nat]
  BY <1>3, <1>4
<1>6. sizes \in Seq(Nat)
  BY <1>1, <1>5, FromFunction
<1> QED
  BY <1>6, LinesType DEF TotalLines, sizes

LEMMA ClampInRange ==
  ASSUME NEW n \in Int, NEW most \in Nat
  PROVE  Clamp(n, most) \in 0..most
BY DEF Clamp

LEMMA MostType ==
  ASSUME NEW n \in Nat, NEW height \in Nat
  PROVE  Pane!MaxScroll(n, height) \in Nat
BY DEF Pane!MaxScroll, Pane!Larger

\* What is laid out shows a session at a width, and is kept.
Shows(c, shown, s, width) ==
  IF width = 0 THEN c = NoCache /\ shown = <<>>
  ELSE /\ shown = Painted(s, width)
       /\ c = [width |-> width, entries |-> c.entries]
       /\ DOMAIN c.entries = {s.blocks[i].id : i \in DOMAIN s.blocks}
       /\ \A i \in DOMAIN s.blocks : c.entries[s.blocks[i].id] = Render(s.blocks[i], width)

\* What is cached may be shown for a session.
Fits(c, s) ==
  /\ c = [width |-> c.width, entries |-> c.entries]
  /\ \A i \in DOMAIN s.blocks : Serves(c.entries, s.blocks[i]) =>
       c.entries[s.blocks[i].id] = Render(s.blocks[i], c.width)

\* A block whose revision is the one that was laid out has not changed since.
LEMMA EvolvedFits ==
  ASSUME NEW c, NEW shown, NEW s, NEW t, NEW width, Filed(s), Filed(t), Evolves(s, t),
         Shows(c, shown, s, width)
  PROVE  Fits(c, t)
<1>1. CASE width = 0
  <2>1. c = NoCache /\ DOMAIN c.entries = {}
    BY <1>1 DEF Shows, NoCache
  <2>2. c = [width |-> c.width, entries |-> c.entries]
    BY <2>1 DEF NoCache
  <2> QED
    BY <2>1, <2>2 DEF Fits, Serves
<1>2. CASE width # 0
  <2>1. /\ c = [width |-> width, entries |-> c.entries]
        /\ DOMAIN c.entries = {s.blocks[i].id : i \in DOMAIN s.blocks}
        /\ \A i \in DOMAIN s.blocks : c.entries[s.blocks[i].id] = Render(s.blocks[i], width)
    BY <1>2 DEF Shows
  <2>2. c.width = width
    BY <2>1
  <2>3. ASSUME NEW j \in DOMAIN t.blocks, Serves(c.entries, t.blocks[j])
        PROVE  c.entries[t.blocks[j].id] = Render(t.blocks[j], width)
    <3>1. PICK i \in DOMAIN s.blocks : s.blocks[i].id = t.blocks[j].id
      BY <2>1, <2>3 DEF Serves
    <3>2. i \in 1..Len(s.blocks) /\ j \in 1..Len(t.blocks)
      BY <3>1, FiledSeqs
    <3>3. t.blocks[j] = s.blocks[i] \/ t.blocks[j].rev > s.blocks[i].rev
      BY <3>1, <3>2 DEF Evolves
    <3>4. c.entries[t.blocks[j].id] = Render(s.blocks[i], width)
      BY <2>1, <3>1
    <3>5. t.blocks[j].rev = s.blocks[i].rev
      BY <2>3, <3>4 DEF Serves, Render
    <3>6. s.blocks[i].rev \in Nat
      BY <3>2 DEF Filed, IsBlock
    <3>7. t.blocks[j] = s.blocks[i]
      BY <3>3, <3>5, <3>6
    <3> QED
      BY <3>4, <3>7
  <2> QED
    BY <2>1, <2>2, <2>3 DEF Fits
<1> QED
  BY <1>1, <1>2

\* A frame shows the session, whatever it takes from a cache that fits.
LEMMA RedrawShows ==
  ASSUME NEW s, Filed(s), NEW c, Fits(c, s), NEW width, width = 0 => c = NoCache
  PROVE  LET out == Lines(c, s.blocks, width)
         IN  Shows(IF width = 0 THEN c ELSE [width |-> width, entries |-> Evict(c, s.blocks, out)],
                   IF width = 0 THEN <<>> ELSE out, s, width)
<1> DEFINE out == Lines(c, s.blocks, width)
           kept == Evict(c, s.blocks, out)
<1>1. CASE width = 0
  BY <1>1 DEF Shows
<1>2. CASE width # 0
  <2>1. out = Painted(s, width)
    <3>1. ASSUME NEW i \in DOMAIN s.blocks, Serves(Usable(c, width), s.blocks[i])
          PROVE  Usable(c, width)[s.blocks[i].id] = Render(s.blocks[i], width)
      <4>1. CASE c.width = width
        <5>1. Usable(c, width) = c.entries
          BY <4>1 DEF Usable
        <5> QED
          BY <3>1, <4>1, <5>1 DEF Fits
      <4>2. CASE c.width # width
        <5>1. Usable(c, width) = <<>> /\ DOMAIN Usable(c, width) = {}
          BY <4>2 DEF Usable
        <5> QED
          BY <3>1, <5>1 DEF Serves
      <4> QED
        BY <4>1, <4>2
    <3> QED
      BY <3>1 DEF Lines, Painted
  <2> HIDE DEF out
  <2>2. DOMAIN kept = {s.blocks[i].id : i \in DOMAIN s.blocks}
    BY DEF Evict
  <2>3. ASSUME NEW i \in DOMAIN s.blocks
        PROVE  kept[s.blocks[i].id] = Render(s.blocks[i], width)
    <3> DEFINE j == CHOOSE k \in DOMAIN s.blocks : s.blocks[k].id = s.blocks[i].id
    <3>1. kept[s.blocks[i].id] = out[j]
      BY DEF Evict
    <3>2. j \in DOMAIN s.blocks /\ s.blocks[j].id = s.blocks[i].id
      OBVIOUS
    <3> HIDE DEF j
    <3>3. j = i
      <4>1. /\ s.dropped \in Nat /\ i \in Nat /\ j \in Nat
            /\ s.blocks[i].id = s.dropped + i /\ s.blocks[j].id = s.dropped + j
        <5>1. i \in 1..Len(s.blocks) /\ j \in 1..Len(s.blocks) /\ s.dropped \in Nat
          BY <3>2, FiledSeqs
        <5>2. \A k \in 1..Len(s.blocks) : s.blocks[k].id = s.dropped + k
          BY DEF Filed
        <5> QED
          BY <5>1, <5>2
      <4>2. s.dropped + i = s.dropped + j
        BY <3>2, <4>1, Zenon
      <4> QED
        BY <4>1, <4>2
    <3> QED
      BY <2>1, <3>1, <3>3 DEF Painted
  <2> HIDE DEF kept
  <2> QED
    BY <1>2, <2>1, <2>2, <2>3 DEF Shows, kept, out
<1> QED
  BY <1>1, <1>2

-----------------------------------------------------------------------------
(* The invariant *)

\* Types of the variables about the session.
Typed ==
  /\ size = [width |-> size.width, rows |-> size.rows]
  /\ size.width \in Widths \cup {0} /\ size.rows \in Rows \cup {0}
  /\ count \in 0..MaxEvents /\ fed \in BOOLEAN /\ quit \in BOOLEAN

InRange == scroll \in 0..Pane!MaxScroll(TotalLines(screen), size.rows)

\* The session is filed and small, and what is on the screen shows it as it is.
IInv == Typed /\ Good(session) /\ Shows(cache, screen, session, size.width) /\ InRange

LEMMA WidthsAre ==
  ASSUME NEW w \in Widths \cup {0}, NEW r \in Rows \cup {0}
  PROVE  w \in Nat /\ r \in Nat
BY ClientAssumption

LEMMA NoLines == TotalLines(<<>>) = 0
<1> DEFINE none == [i \in DOMAIN <<>> |-> <<>>[i].rows]
<1>1. Sizes(<<>>) = <<>>
  BY DEF Sizes
<1>2. Tallying!Fold(0, <<>>) = 0
  BY Tallying!FoldEmpty
<1>3. Pane!Lines(<<>>, Gap) = 0
  BY <1>2, TallyIsFold DEF Pane!Lines
<1> QED
  BY <1>1, <1>3 DEF TotalLines

LEMMA TotalType ==
  ASSUME NEW s, Filed(s), NEW c, NEW shown, NEW width, Shows(c, shown, s, width)
  PROVE  TotalLines(shown) \in Nat
BY PaintedSizes, NoLines DEF Shows

\* Every redraw leaves the session shown and the scroll in range.
LEMMA RedrawKeeps ==
  ASSUME NEW s, Filed(s), NEW c, Fits(c, s),
         NEW w \in Widths \cup {0}, NEW r \in Rows \cup {0}, w = 0 => c = NoCache,
         NEW sz, sz.width = w, sz.rows = r, NEW wanted \in Int,
         Redraw(c, s.blocks, sz, wanted)
  PROVE  /\ Shows(cache', screen', s, w)
         /\ scroll' \in 0..Pane!MaxScroll(TotalLines(screen'), r)
<1> DEFINE out == Lines(c, s.blocks, w)
           all == IF w = 0 THEN <<>> ELSE out
           kept == IF w = 0 THEN c ELSE [width |-> w, entries |-> Evict(c, s.blocks, out)]
           most == IF w = 0 THEN 0 ELSE Pane!MaxScroll(TotalLines(all), r)
<1>1. screen' = all /\ cache' = kept /\ scroll' = Clamp(wanted, most)
  BY DEF Redraw
<1>2. Shows(kept, all, s, w)
  BY RedrawShows
<1> HIDE DEF all, kept
<1>3. TotalLines(all) \in Nat /\ r \in Nat
  BY <1>2, TotalType, WidthsAre
<1>4. Pane!MaxScroll(TotalLines(all), r) \in Nat
  BY <1>3, MostType
<1>5. Clamp(wanted, most) \in 0..Pane!MaxScroll(TotalLines(all), r)
  <2> DEFINE p == Pane!MaxScroll(TotalLines(all), r)
  <2>1. most \in Nat /\ (most = 0 \/ most = p) /\ p \in Nat
    BY <1>4
  <2> HIDE DEF most, p
  <2>2. Clamp(wanted, most) \in 0..most
    BY <2>1, ClampInRange
  <2>3. Clamp(wanted, most) \in 0..p
    BY <2>1, <2>2
  <2> QED
    BY <2>3 DEF p
<1> QED
  BY <1>1, <1>2, <1>5

LEMMA InitIInv == Init => IInv
<1> SUFFICES ASSUME Init PROVE IInv
  OBVIOUS
<1>1. Typed
  <2>1. size = [width |-> 0, rows |-> 0] /\ size.width = 0 /\ size.rows = 0
    BY DEF Init
  <2>2. 0 \in 0..MaxEvents
    BY ClientAssumption
  <2>3. count = 0 /\ fed = TRUE /\ quit = FALSE
    BY DEF Init
  <2> QED
    BY <2>1, <2>2, <2>3 DEF Typed
<1>2. Good(session)
  BY NewIsGood DEF Init
<1>3. Shows(cache, screen, session, size.width)
  BY DEF Init, Shows
<1>4. InRange
  BY NoLines DEF Init, InRange, Pane!MaxScroll
<1> QED
  BY <1>1, <1>2, <1>3, <1>4 DEF IInv

LEMMA QuitsKeeps ==
  ASSUME IInv, Quits, count' \in 0..MaxEvents, fed' \in BOOLEAN
  PROVE  IInv'
<1>1. Typed'
  BY DEF Quits, Typed
<1>2. Good(session')
  BY NewIsGood DEF Quits
<1>3. Shows(cache', screen', session', size'.width)
  BY DEF Quits, Shows
<1>4. InRange'
  BY NoLines DEF Quits, InRange, Pane!MaxScroll
<1> QED
  BY <1>1, <1>2, <1>3, <1>4 DEF IInv

\* What an action does but for quitting: the session evolves, or is another
\* one and the cache is emptied, and the frame is drawn again.
LEMMA DrawnKeeps ==
  ASSUME IInv, NEW c, Good(session'), Fits(c, session'), NEW wanted \in Int,
         Redraw(c, session'.blocks, size', wanted), Typed',
         size'.width = 0 => c = NoCache
  PROVE  IInv'
<1> DEFINE s == session'
           w == size'.width
           r == size'.rows
           sz == size'
<1>1. /\ w \in Widths \cup {0} /\ r \in Rows \cup {0} /\ Filed(s) /\ Fits(c, s)
      /\ w = 0 => c = NoCache
      /\ Redraw(c, s.blocks, sz, wanted) /\ sz.width = w /\ sz.rows = r
  BY DEF Typed, Good
<1> HIDE DEF s, w, r, sz
<1>2. /\ Shows(cache', screen', s, w)
      /\ scroll' \in 0..Pane!MaxScroll(TotalLines(screen'), r)
  BY <1>1, RedrawKeeps
<1> QED
  BY <1>2 DEF IInv, s, w, r, InRange

LEMMA ScrollType ==
  ASSUME IInv
  PROVE  scroll \in Int
BY DEF IInv, InRange

LEMMA CacheFits ==
  ASSUME IInv, Goes(session, session')
  PROVE  Fits(cache, session') /\ Good(session')
<1>1. Filed(session) /\ Filed(session') /\ Evolves(session, session')
  BY DEF IInv, Good, Goes, Steps
<1>2. Fits(cache, session')
  BY <1>1, EvolvedFits DEF IInv
<1> QED
  BY <1>2, GoesGood

LEMMA StillGoes ==
  ASSUME NEW s, Good(s)
  PROVE  Goes(s, s)
BY EvolvesSelf DEF Good, Goes, Steps

LEMMA NothingCached ==
  ASSUME IInv, size.width = 0
  PROVE  cache = NoCache
BY DEF IInv, Shows

LEMMA ResizeKeeps ==
  ASSUME IInv, Resize
  PROVE  IInv'
<1>1. session' = session /\ Redraw(cache, session'.blocks, size', scroll)
  BY DEF Resize
<1>2. Typed' /\ size'.width # 0
  BY ClientAssumption DEF Resize, IInv, Typed
<1>3. Goes(session, session')
  BY <1>1, StillGoes DEF IInv
<1> QED
  BY <1>1, <1>2, <1>3, CacheFits, ScrollType, DrawnKeeps

LEMMA DeliverKeeps ==
  ASSUME IInv, Deliver
  PROVE  IInv'
<1>1. PICK e \in Events : Folded(e) \/ Contradiction(e)
  BY DEF Deliver
<1>2. count' \in 0..MaxEvents /\ fed' = fed /\ fed \in BOOLEAN
  BY ClientAssumption DEF Deliver, IInv, Typed
<1>3. CASE Folded(e)
  <2>1. session' = Apply(session, e) /\ Redraw(cache, session'.blocks, size', scroll)
        /\ size' = size
    BY <1>3 DEF Folded
  <2>2. Typed'
    BY <1>2, <1>3 DEF Folded, IInv, Typed
  <2>3. Goes(session, session')
    BY <2>1, ApplyGoes, ClientAssumption DEF IInv
  <2> QED
    BY <2>1, <2>2, <2>3, CacheFits, ScrollType, NothingCached, DrawnKeeps
<1>4. CASE Contradiction(e)
  BY <1>2, <1>4, QuitsKeeps DEF Contradiction
<1> QED
  BY <1>1, <1>3, <1>4

LEMMA StreamEndsKeeps ==
  ASSUME IInv, StreamEnds
  PROVE  IInv'
<1>1. session' = session /\ size' = size /\ Redraw(cache, session'.blocks, size', scroll)
  BY DEF StreamEnds
<1>2. Typed'
  BY DEF StreamEnds, IInv, Typed
<1>3. Goes(session, session')
  BY <1>1, StillGoes DEF IInv
<1> QED
  BY <1>1, <1>2, <1>3, CacheFits, ScrollType, NothingCached, DrawnKeeps

LEMMA DecideGoes ==
  ASSUME IInv, Decide
  PROVE  Goes(session, session') /\ Redraw(cache, session'.blocks, size, scroll) /\ quit' = quit
<1>1. PICK state, tone : resolveApproval(state, tone)
  BY DEF Decide
<1>2. /\ SameFiles(session, session') /\ session'.mode = session.mode
      /\ session'.turn = session.turn /\ session'.rules = session.rules
      /\ session'.approval = <<>>
  BY <1>1 DEF resolveApproval, IInv, Good, Filed, IsState, Fields, Files, SameFiles
<1>3. Panels(session')
  BY <1>2 DEF IInv, Good, Panels, Approvals
<1>4. Steps(session, session')
  BY <1>2, FiledAlike DEF IInv, Good
<1>5. session'.blocks = session.blocks
  BY <1>2, FilesAre
<1> QED
  BY <1>3, <1>4, <1>5 DEF Goes, Decide

LEMMA ModeGoes ==
  ASSUME IInv, Mode
  PROVE  Goes(session, session') /\ Redraw(cache, session'.blocks, size, scroll) /\ quit' = quit
<1>1. session' = [session EXCEPT !.mode = Following(session.mode)]
  BY DEF Mode
<1>2. /\ SameFiles(session, session') /\ session'.mode = Following(session.mode)
      /\ session'.turn = session.turn /\ session'.rules = session.rules
      /\ session'.approval = session.approval
  BY <1>1 DEF IInv, Good, Filed, IsState, Fields, Files, SameFiles
<1>3. Following(session.mode) \in Modes
  BY DEF IInv, Good, Panels, Modes, Following
<1>4. Panels(session')
  BY <1>2, <1>3 DEF IInv, Good, Panels
<1>5. Steps(session, session')
  BY <1>2, FiledAlike DEF IInv, Good
<1>6. session'.blocks = session.blocks
  BY <1>2, FilesAre
<1> QED
  BY <1>4, <1>5, <1>6 DEF Goes, Mode

LEMMA ScrollKeeps ==
  ASSUME IInv, Scroll, Typed', size' = size
  PROVE  IInv'
<1> DEFINE most == Pane!MaxScroll(TotalLines(screen), size.rows)
<1>1. scroll \in Int /\ size.rows \in Nat /\ most \in Nat
  <2>1. TotalLines(screen) \in Nat
    BY TotalType DEF IInv, Good
  <2>2. size.rows \in Nat
    BY WidthsAre DEF IInv, Typed
  <2> QED
    BY <2>1, <2>2, MostType, ScrollType
<1>2. Page \in Nat
  BY <1>1 DEF Page
<1>3. \A n \in Int : Clamp(n, most) \in Int
  <2> HIDE DEF most
  <2> QED
    BY <1>1 DEF Clamp
<1>4. \A n \in {scroll + 1, scroll - 1, scroll + Page, scroll - Page, 0, most} : n \in Int
  <2> HIDE DEF most
  <2> QED
    BY <1>1, <1>2
<1>5. PICK wanted \in {Clamp(n, most) : n \in {scroll + 1, scroll - 1, scroll + Page,
                                               scroll - Page, 0, most}} :
        Redraw(cache, session.blocks, size, wanted)
  BY DEF Scroll
<1>6. wanted \in Int
  <2> HIDE DEF most
  <2> QED
    BY <1>3, <1>4, <1>5
<1>7. session' = session /\ Goes(session, session')
  BY StillGoes DEF Scroll, IInv
<1>8. Redraw(cache, session'.blocks, size', wanted)
  BY <1>5, <1>7
<1> HIDE DEF most
<1> QED
  BY <1>6, <1>7, <1>8, CacheFits, NothingCached, DrawnKeeps

LEMMA SwitchKeeps ==
  ASSUME IInv, switchScene, Typed', size' = size
  PROVE  IInv'
<1> DEFINE c == Reset(cache)
<1>1. Good(session')
  BY FoldGood, ClientAssumption DEF switchScene
<1>2. c.entries = <<>> /\ c = [width |-> c.width, entries |-> c.entries]
      /\ (size.width = 0 => c = NoCache)
  <2>1. cache = [width |-> cache.width, entries |-> cache.entries]
    BY DEF IInv, Shows, NoCache
  <2>2. c = [width |-> cache.width, entries |-> <<>>]
    BY <2>1 DEF Reset
  <2>3. size.width = 0 => cache.width = 0
    BY NothingCached DEF NoCache
  <2> HIDE DEF c
  <2> QED
    BY <2>2, <2>3 DEF NoCache
<1>3. Redraw(c, session'.blocks, size', scroll)
  BY DEF switchScene
<1> HIDE DEF c
<1>4. Fits(c, session')
  <2>1. DOMAIN c.entries = {}
    BY <1>2
  <2> QED
    BY <1>2, <2>1 DEF Fits, Serves
<1> QED
  BY <1>1, <1>2, <1>3, <1>4, ScrollType, DrawnKeeps

LEMMA PressKeeps ==
  ASSUME IInv, Press
  PROVE  IInv'
<1>1. count' = count /\ fed' = fed
  BY DEF Press
<1>2. CASE CtrlC
  BY <1>1, <1>2, QuitsKeeps DEF CtrlC, IInv, Typed
<1>3. CASE (Decide \/ Mode \/ Scroll \/ switchScene) /\ UNCHANGED <<size, record>>
  <2>1. size' = size
    BY <1>3
  <2>2. quit' = quit
    BY <1>3 DEF Decide, Mode, Scroll, switchScene
  <2>3. Typed'
    BY <1>1, <2>1, <2>2 DEF IInv, Typed
  <2>4. ASSUME Goes(session, session'), Redraw(cache, session'.blocks, size, scroll) PROVE IInv'
    BY <2>1, <2>3, <2>4, CacheFits, ScrollType, NothingCached, DrawnKeeps
  <2> QED
    BY <1>3, <2>1, <2>3, <2>4, DecideGoes, ModeGoes, ScrollKeeps, SwitchKeeps
<1> QED
  BY <1>2, <1>3 DEF Press

LEMMA StutterKeeps ==
  ASSUME IInv, UNCHANGED vars
  PROVE  IInv'
BY DEF IInv, vars, Typed, InRange

LEMMA NextIInv ==
  ASSUME IInv, [Next]_vars
  PROVE  IInv'
BY ResizeKeeps, DeliverKeeps, StreamEndsKeeps, PressKeeps, StutterKeeps DEF Next

LEMMA SpecIInv == Spec => []IInv
BY InitIInv, NextIInv, PTL DEF Spec

-----------------------------------------------------------------------------
(* Theorems *)

LEMMA TypesHold ==
  ASSUME IInv
  PROVE  TypeOK
<1>1. session.mode \in Modes /\ session.turn \in Nat /\ session.approval \in Approvals
      /\ OneHot(session.rules)
  BY DEF IInv, Good, Panels
<1> QED
  BY <1>1 DEF IInv, Typed, InRange, TypeOK, OneHot, Approvals

LEMMA IndexHolds ==
  ASSUME IInv
  PROVE  BlocksIndexed
<1> DEFINE N == Len(session.blocks)
           d == session.dropped
<1>1. /\ N \in Nat /\ d \in Nat /\ DOMAIN session.blocks = 1..N
      /\ session.nextID = d + N
      /\ \A i \in 1..N : session.blocks[i].id = d + i
      /\ Indexed(session)
  BY FiledSeqs DEF IInv, Good, Filed
<1> HIDE DEF N, d
<1>2. \A i \in 1..(N - 1) : i \in 1..N /\ i + 1 \in 1..N
  BY <1>1
<1>3. \A i \in 1..N : d + i < d + (i + 1) /\ d + i <= d + N
  BY <1>1
<1>4. \A i \in 1..(N - 1) : session.blocks[i].id < session.blocks[i + 1].id
  BY <1>1, <1>2, <1>3
<1>5. \A i \in 1..N : session.blocks[i].id <= session.nextID
  BY <1>1, <1>3
<1> QED
  BY <1>1, <1>4, <1>5 DEF BlocksIndexed, N, d

LEMMA MemoryHolds ==
  ASSUME IInv
  PROVE  MemoryBounded
<1>1. Bounded(session)
  BY DEF IInv, Good, Filed, Small, Bounded
<1> QED
  BY <1>1 DEF IInv, Shows, MemoryBounded

\* After any history a client's values have their types, the index finds every
\* block after any number of trims, and the fold and the cache hold no more
\* than their limit (session.go:225-261, cache.go:84-110, tui.go:247-262).
THEOREM ClientStaysSound == Spec => []ClientInv
<1>1. IInv => ClientInv
  BY TypesHold, IndexHolds, MemoryHolds DEF ClientInv
<1> QED
  BY <1>1, SpecIInv, PTL

\* The cache is never stale: what is on the screen is what the blocks would
\* render to now (cache.go:48-82).
THEOREM CacheIsFresh == Spec => []Fresh
<1>1. IInv => Fresh
  BY DEF IInv, Shows, Painted, Fresh
<1> QED
  BY <1>1, SpecIInv, PTL

\* Only blocks that changed are laid out again: one that stands as it did is
\* served.
LEMMA ServedAgain ==
  ASSUME IInv, Filed(session'), size'.width = cache.width,
         NEW i \in DOMAIN session'.blocks, size'.width # 0,
         session'.blocks[i] \in ToSet(session.blocks)
  PROVE  Serves(Usable(cache, size'.width), session'.blocks[i])
<1> DEFINE b == session'.blocks[i]
<1>1. PICK j \in DOMAIN session.blocks : session.blocks[j] = b
  BY DEF ToSet
<1>2. size.width # 0
  BY NothingCached DEF NoCache
<1>3. /\ DOMAIN cache.entries = {session.blocks[k].id : k \in DOMAIN session.blocks}
      /\ cache.entries[b.id] = Render(b, size.width)
  BY <1>1, <1>2 DEF IInv, Shows
<1>4. b.id \in DOMAIN cache.entries /\ cache.entries[b.id].of.rev = b.rev
  <2>1. Render(b, size.width).of = b
    BY DEF Render
  <2> HIDE DEF b
  <2> QED
    BY <1>1, <1>3, <2>1
<1>5. Usable(cache, size'.width) = cache.entries
  BY DEF Usable
<1> QED
  BY <1>4, <1>5 DEF Serves

\* While a log feeds the client a block is laid out again only if it or the
\* width changed (cache.go:5-14,84-110).
THEOREM OnlyChangesAreLaidOut == Spec => CostsWhatChanged
<1> DEFINE Cost == fed /\ size'.width = cache.width =>
             \A id \in LaidOut(cache, session'.blocks, size'.width) :
               \E b \in ToSet(session'.blocks) : b.id = id /\ b \notin ToSet(session.blocks)
<1>1. ASSUME IInv, [Next]_vars PROVE Cost
  <2>1. IInv' /\ Filed(session')
    BY <1>1, NextIInv DEF IInv, Good
  <2> SUFFICES ASSUME size'.width = cache.width,
                      NEW id \in LaidOut(cache, session'.blocks, size'.width)
               PROVE  \E b \in ToSet(session'.blocks) : b.id = id /\ b \notin ToSet(session.blocks)
    OBVIOUS
  <2>2. PICK i \in DOMAIN session'.blocks :
          /\ size'.width # 0 /\ ~Serves(Usable(cache, size'.width), session'.blocks[i])
          /\ id = session'.blocks[i].id
    BY DEF LaidOut
  <2>3. session'.blocks[i] \notin ToSet(session.blocks)
    BY <1>1, <2>1, <2>2, ServedAgain
  <2>4. session'.blocks[i] \in ToSet(session'.blocks)
    BY DEF ToSet
  <2> QED
    BY <2>2, <2>3, <2>4
<1> QED
  BY <1>1, SpecIInv, PTL DEF Spec, CostsWhatChanged

-----------------------------------------------------------------------------
(* Two terminals on one log *)

\* Two folded states that differ only in what a person decided.
Agree(s, r) == IsState(s) /\ IsState(r) /\ \A f \in Fields \ Decided : s[f] = r[f]

LEMMA AgreeSelf ==
  ASSUME NEW s, IsState(s)
  PROVE  Agree(s, s)
BY DEF Agree

LEMMA AgreeOn ==
  ASSUME NEW s, NEW r, Agree(s, r)
  PROVE  /\ s.blocks = r.blocks /\ s.refs = r.refs /\ s.order = r.order /\ s.rev = r.rev
         /\ s.proposed = r.proposed /\ s.outcome = r.outcome
         /\ s.nextID = r.nextID /\ s.dropped = r.dropped
         /\ s.turn = r.turn /\ s.dirty = r.dirty /\ s.ctxLimit = r.ctxLimit
         /\ s.forked = r.forked /\ s.forks = r.forks /\ s.usage = r.usage
         /\ s.rules = r.rules /\ s.server = r.server
         /\ IsState(s) /\ IsState(r)
BY DEF Agree, Fields, Decided

LEMMA ForgetAgree ==
  ASSUME NEW s, NEW r, Agree(s, r), NEW gone
  PROVE  Agree(Forget(s, gone), Forget(r, gone))
<1> DEFINE order == Without(s.order, gone)
           rev == Without(s.rev, gone)
           proposed == Without(s.proposed, gone)
           outcome == Without(s.outcome, gone)
           t == [s EXCEPT !.order = order, !.rev = rev, !.proposed = proposed, !.outcome = outcome]
           q == [r EXCEPT !.order = order, !.rev = rev, !.proposed = proposed, !.outcome = outcome]
<1>1. Forget(s, gone) = t /\ Forget(r, gone) = q
  <2>1. IsState(s) /\ IsState(r) /\ s.order = r.order /\ s.rev = r.rev
        /\ s.proposed = r.proposed /\ s.outcome = r.outcome
    BY AgreeOn
  <2> QED
    BY <2>1 DEF Forget
<1> HIDE DEF order, rev, proposed, outcome
<1>2. Agree(t, q)
  BY DEF Agree, IsState
<1> QED
  BY <1>1, <1>2

LEMMA TrimAgree ==
  ASSUME NEW s, NEW r, Agree(s, r)
  PROVE  Agree(trim(s), trim(r))
<1> DEFINE small == MaxBlocks = 0 \/ Len(s.blocks) <= MaxBlocks + TrimSlack
<1>0. s.blocks = r.blocks /\ s.refs = r.refs
  BY AgreeOn
<1>1. CASE small
  <2>1. trim(s) = s /\ trim(r) = r
    BY <1>0, <1>1 DEF trim
  <2> QED
    BY <2>1
<1>2. CASE ~small
  <2> DEFINE d == Len(s.blocks) - MaxBlocks
             refs == SubSeq(s.refs, d + 1, Len(s.refs))
             gone == ToSet(SubSeq(s.refs, 1, d))
             f == Forget(s, gone)
             g == Forget(r, gone)
             kept == SubSeq(f.blocks, d + 1, Len(f.blocks))
             order == Reindex(f.order, refs)
             dropped == f.dropped + d
  <2>1. /\ trim(s) = [f EXCEPT !.blocks = SubSeq(@, d + 1, Len(@)), !.refs = refs,
                               !.order = Reindex(@, refs), !.dropped = @ + d]
        /\ trim(r) = [g EXCEPT !.blocks = SubSeq(@, d + 1, Len(@)), !.refs = refs,
                               !.order = Reindex(@, refs), !.dropped = @ + d]
    BY <1>0, <1>2 DEF trim
  <2>2. Agree(f, g)
    BY ForgetAgree
  <2> HIDE DEF d, refs, gone, f, g
  <2>3. f.blocks = g.blocks /\ f.order = g.order /\ f.dropped = g.dropped
    BY <2>2, AgreeOn
  <2>4. /\ trim(s) = [f EXCEPT !.blocks = kept, !.refs = refs, !.order = order, !.dropped = dropped]
        /\ trim(r) = [g EXCEPT !.blocks = kept, !.refs = refs, !.order = order, !.dropped = dropped]
    BY <2>1, <2>3
  <2> HIDE DEF kept, order, dropped
  <2> DEFINE t == [f EXCEPT !.blocks = kept, !.refs = refs, !.order = order, !.dropped = dropped]
             q == [g EXCEPT !.blocks = kept, !.refs = refs, !.order = order, !.dropped = dropped]
  <2>5. Agree(t, q)
    BY <2>2 DEF Agree, IsState
  <2> QED
    BY <2>4, <2>5
<1> QED
  BY <1>1, <1>2

LEMMA BlockAgree ==
  ASSUME NEW s, NEW r, Agree(s, r), NEW ref, NEW tag, NEW tone, NEW meta
  PROVE  Agree(block(s, ref, tag, tone, meta), block(r, ref, tag, tone, meta))
<1>0. s.blocks = r.blocks /\ s.refs = r.refs /\ s.order = r.order /\ s.nextID = r.nextID
  BY AgreeOn
<1>1. CASE ref \in DOMAIN s.order
  <2>1. block(s, ref, tag, tone, meta) = s /\ block(r, ref, tag, tone, meta) = r
    BY <1>0, <1>1 DEF block
  <2> QED
    BY <2>1
<1>2. CASE ref \notin DOMAIN s.order
  <2> DEFINE id == NextID(s)
             b == [id |-> id, tag |-> tag, tone |-> tone,
                   meta |-> meta, lines |-> <<>>, rev |-> 0]
             blocks == Append(s.blocks, b)
             refs == Append(s.refs, ref)
             order == With(s.order, ref, Len(s.blocks) + 1)
             t == [s EXCEPT !.nextID = id, !.blocks = blocks, !.refs = refs, !.order = order]
             q == [r EXCEPT !.nextID = id, !.blocks = blocks, !.refs = refs, !.order = order]
  <2>1. NextID(r) = id
    BY <1>0 DEF NextID
  <2>2. block(s, ref, tag, tone, meta) = trim(t)
    BY <1>2 DEF block
  <2>3. block(r, ref, tag, tone, meta) = trim(q)
    <3>1. ref \notin DOMAIN r.order
      BY <1>0, <1>2
    <3>2. block(r, ref, tag, tone, meta)
          = trim([r EXCEPT
               !.nextID = NextID(r),
               !.blocks = Append(r.blocks, [id |-> NextID(r), tag |-> tag, tone |-> tone,
                                     meta |-> meta, lines |-> <<>>, rev |-> 0]),
               !.refs   = Append(r.refs, ref),
               !.order  = With(r.order, ref, Len(r.blocks) + 1)])
      BY <3>1, AgreeOn DEF block, IsState, Fields
    <3> HIDE DEF id
    <3> QED
      BY <1>0, <2>1, <3>2
  <2> HIDE DEF id, b, blocks, refs, order
  <2>4. Agree(t, q)
    BY DEF Agree, IsState
  <2> HIDE DEF t, q
  <2> QED
    BY <2>2, <2>3, <2>4, TrimAgree
<1> QED
  BY <1>1, <1>2

\* The blocks, the revisions, the proposals, the outcomes or the rules are
\* given the same value.
LEMMA SetAgree ==
  ASSUME NEW s, NEW r, Agree(s, r), NEW v
  PROVE  /\ Agree([s EXCEPT !.blocks = v], [r EXCEPT !.blocks = v])
         /\ Agree([s EXCEPT !.rev = v], [r EXCEPT !.rev = v])
         /\ Agree([s EXCEPT !.proposed = v], [r EXCEPT !.proposed = v])
         /\ Agree([s EXCEPT !.outcome = v], [r EXCEPT !.outcome = v])
         /\ Agree([s EXCEPT !.rules = v], [r EXCEPT !.rules = v])
         /\ Agree([s EXCEPT !.goals = v], [r EXCEPT !.goals = v])
         /\ Agree([s EXCEPT !.sandbox = v], [r EXCEPT !.sandbox = v])
         /\ Agree([s EXCEPT !.usage = v], [r EXCEPT !.usage = v])
<1>1. Agree([s EXCEPT !.blocks = v], [r EXCEPT !.blocks = v])
  BY DEF Agree, IsState
<1>2. Agree([s EXCEPT !.rev = v], [r EXCEPT !.rev = v])
  BY DEF Agree, IsState
<1>3. Agree([s EXCEPT !.proposed = v], [r EXCEPT !.proposed = v])
  BY DEF Agree, IsState
<1>4. Agree([s EXCEPT !.outcome = v], [r EXCEPT !.outcome = v])
  BY DEF Agree, IsState
<1>5. Agree([s EXCEPT !.rules = v], [r EXCEPT !.rules = v])
  BY DEF Agree, IsState
<1>6. Agree([s EXCEPT !.goals = v], [r EXCEPT !.goals = v])
  BY DEF Agree, IsState
<1>7. Agree([s EXCEPT !.sandbox = v], [r EXCEPT !.sandbox = v])
  BY DEF Agree, IsState
<1>8. Agree([s EXCEPT !.usage = v], [r EXCEPT !.usage = v])
  BY DEF Agree, IsState
<1> QED
  BY <1>1, <1>2, <1>3, <1>4, <1>5, <1>6, <1>7, <1>8

\* What was decided may differ.
LEMMA ApprovalAgree ==
  ASSUME NEW s, NEW r, Agree(s, r), NEW v, NEW w
  PROVE  Agree([s EXCEPT !.approval = v], [r EXCEPT !.approval = w])
BY DEF Agree, IsState, Decided

LEMMA EditAgree ==
  ASSUME NEW s, NEW r, Agree(s, r), NEW k, NEW v
  PROVE  /\ Agree([s EXCEPT !.blocks[k].tag = v], [r EXCEPT !.blocks[k].tag = v])
         /\ Agree([s EXCEPT !.blocks[k].tone = v], [r EXCEPT !.blocks[k].tone = v])
         /\ Agree([s EXCEPT !.blocks[k].meta = v], [r EXCEPT !.blocks[k].meta = v])
         /\ Agree([s EXCEPT !.blocks[k].lines = v], [r EXCEPT !.blocks[k].lines = v])
         /\ Agree([s EXCEPT !.blocks[k].rev = v], [r EXCEPT !.blocks[k].rev = v])
<1>1. s.blocks = r.blocks /\ IsState(s) /\ IsState(r)
  BY AgreeOn
<1>2. Agree([s EXCEPT !.blocks[k].tag = v], [r EXCEPT !.blocks[k].tag = v])
  <2> DEFINE b == [s.blocks EXCEPT ![k].tag = v]
  <2>1. [s EXCEPT !.blocks[k].tag = v] = [s EXCEPT !.blocks = b]
        /\ [r EXCEPT !.blocks[k].tag = v] = [r EXCEPT !.blocks = b]
    BY <1>1 DEF IsState, Fields
  <2> HIDE DEF b
  <2> QED
    BY <2>1, SetAgree
<1>3. Agree([s EXCEPT !.blocks[k].tone = v], [r EXCEPT !.blocks[k].tone = v])
  <2> DEFINE b == [s.blocks EXCEPT ![k].tone = v]
  <2>1. [s EXCEPT !.blocks[k].tone = v] = [s EXCEPT !.blocks = b]
        /\ [r EXCEPT !.blocks[k].tone = v] = [r EXCEPT !.blocks = b]
    BY <1>1 DEF IsState, Fields
  <2> HIDE DEF b
  <2> QED
    BY <2>1, SetAgree
<1>4. Agree([s EXCEPT !.blocks[k].meta = v], [r EXCEPT !.blocks[k].meta = v])
  <2> DEFINE b == [s.blocks EXCEPT ![k].meta = v]
  <2>1. [s EXCEPT !.blocks[k].meta = v] = [s EXCEPT !.blocks = b]
        /\ [r EXCEPT !.blocks[k].meta = v] = [r EXCEPT !.blocks = b]
    BY <1>1 DEF IsState, Fields
  <2> HIDE DEF b
  <2> QED
    BY <2>1, SetAgree
<1>5. Agree([s EXCEPT !.blocks[k].lines = v], [r EXCEPT !.blocks[k].lines = v])
  <2> DEFINE b == [s.blocks EXCEPT ![k].lines = v]
  <2>1. [s EXCEPT !.blocks[k].lines = v] = [s EXCEPT !.blocks = b]
        /\ [r EXCEPT !.blocks[k].lines = v] = [r EXCEPT !.blocks = b]
    BY <1>1 DEF IsState, Fields
  <2> HIDE DEF b
  <2> QED
    BY <2>1, SetAgree
<1>6. Agree([s EXCEPT !.blocks[k].rev = v], [r EXCEPT !.blocks[k].rev = v])
  <2> DEFINE b == [s.blocks EXCEPT ![k].rev = v]
  <2>1. [s EXCEPT !.blocks[k].rev = v] = [s EXCEPT !.blocks = b]
        /\ [r EXCEPT !.blocks[k].rev = v] = [r EXCEPT !.blocks = b]
    BY <1>1 DEF IsState, Fields
  <2> HIDE DEF b
  <2> QED
    BY <2>1, SetAgree
<1> QED
  BY <1>2, <1>3, <1>4, <1>5, <1>6

LEMMA TouchAgree ==
  ASSUME NEW s, NEW r, Agree(s, r), NEW ref
  PROVE  Agree(touch(s, ref), touch(r, ref))
<1>0. s.order = r.order /\ s.rev = r.rev /\ s.blocks = r.blocks
  BY AgreeOn
<1>1. CASE ref \notin DOMAIN s.order
  BY <1>0, <1>1 DEF touch
<1>2. CASE ref \in DOMAIN s.order
  <2> DEFINE rev == Get(s.rev, ref, 0) + 1
             revs == With(s.rev, ref, rev)
             k == s.order[ref]
             b == [s.blocks EXCEPT ![k].rev = rev]
             t == [s EXCEPT !.rev = revs]
             q == [r EXCEPT !.rev = revs]
  <2>1. touch(s, ref) = [s EXCEPT !.rev = With(@, ref, rev), !.blocks[k].rev = rev]
        /\ touch(r, ref) = [r EXCEPT !.rev = With(@, ref, rev), !.blocks[k].rev = rev]
    BY <1>0, <1>2 DEF touch
  <2>2. IsState(s) /\ IsState(r)
    BY AgreeOn
  <2> HIDE DEF rev, k
  <2>3. touch(s, ref) = [t EXCEPT !.blocks[k].rev = rev]
        /\ touch(r, ref) = [q EXCEPT !.blocks[k].rev = rev]
    BY <1>0, <2>1, <2>2 DEF IsState, Fields
  <2> HIDE DEF revs
  <2>4. Agree(t, q)
    BY SetAgree
  <2> HIDE DEF t, q
  <2>5. Agree([t EXCEPT !.blocks[k].rev = rev], [q EXCEPT !.blocks[k].rev = rev])
    BY <2>4, EditAgree
  <2> QED
    BY <2>3, <2>5, Zenon
<1> QED
  BY <1>1, <1>2

LEMMA MetaAgree ==
  ASSUME NEW s, NEW r, Agree(s, r), NEW ref, NEW meta
  PROVE  Agree(Meta(s, ref, meta), Meta(r, ref, meta))
<1>1. s.order = r.order
  BY AgreeOn
<1> QED
  BY <1>1, EditAgree DEF Meta

LEMMA RewriteAgree ==
  ASSUME NEW s, NEW r, Agree(s, r), NEW ref, NEW lines
  PROVE  Agree(Rewrite(s, ref, lines), Rewrite(r, ref, lines))
<1> DEFINE t == [s EXCEPT !.blocks[s.order[ref]].lines = lines]
           q == [r EXCEPT !.blocks[r.order[ref]].lines = lines]
<1>1. s.order = r.order
  BY AgreeOn
<1>2. Agree(t, q)
  BY <1>1, EditAgree
<1>3. Rewrite(s, ref, lines) = touch(t, ref) /\ Rewrite(r, ref, lines) = touch(q, ref)
  BY DEF Rewrite
<1> HIDE DEF t, q
<1> QED
  BY <1>2, <1>3, TouchAgree

LEMMA AddLinesAgree ==
  ASSUME NEW s, NEW r, Agree(s, r), NEW ref, NEW lines
  PROVE  Agree(AddLines(s, ref, lines), AddLines(r, ref, lines))
<1>1. BlockOf(s, ref) = BlockOf(r, ref)
  BY AgreeOn DEF BlockOf
<1> QED
  BY <1>1, RewriteAgree DEF AddLines

LEMMA SessionStartedAgree ==
  ASSUME NEW s, NEW r, Agree(s, r), NEW e
  PROVE  Agree(applySessionStarted(s, e), applySessionStarted(r, e))
<1> DEFINE t == [s EXCEPT !.command = e.sandbox, !.cwd = e.cwd, !.branch = e.branch,
                          !.model = e.model, !.ctxLimit = e.ctxLimit]
           q == [r EXCEPT !.command = e.sandbox, !.cwd = e.cwd, !.branch = e.branch,
                          !.model = e.model, !.ctxLimit = e.ctxLimit]
           label == contextLabel(0, e.ctxLimit)
<1>1. Agree(t, q)
  BY DEF Agree, IsState
<1>2. /\ applySessionStarted(s, e) = IF e.ctxLimit > 0 THEN [t EXCEPT !.label = label] ELSE t
      /\ applySessionStarted(r, e) = IF e.ctxLimit > 0 THEN [q EXCEPT !.label = label] ELSE q
  BY DEF applySessionStarted
<1> HIDE DEF t, q, label
<1>3. Agree([t EXCEPT !.label = label], [q EXCEPT !.label = label])
  BY <1>1 DEF Agree, IsState
<1> QED
  BY <1>1, <1>2, <1>3

LEMMA TurnStateAgree ==
  ASSUME NEW s, NEW r, Agree(s, r), NEW e
  PROVE  Agree(applyTurnState(s, e), applyTurnState(r, e))
<1> DEFINE tone(x) == IF x.forked /\ e.state = "EXECUTING" THEN "fork" ELSE stateTone(e.state)
           turn(x) == IF e.turn > 0 THEN e.turn ELSE x.turn
           dirty(x) == IF e.dirty = "" THEN x.dirty ELSE e.dirty
           mode(x) == IF e.mode \in Modes THEN e.mode ELSE x.mode
<1>1. IsState(s) /\ IsState(r) /\ turn(s) = turn(r) /\ dirty(s) = dirty(r)
  BY AgreeOn
<1>2. /\ applyTurnState(s, e)
         = [s EXCEPT !.state = e.state, !.tone = tone(s), !.turn = turn(s), !.loading = e.detail,
                     !.dirty = dirty(s), !.mode = mode(s)]
      /\ applyTurnState(r, e)
         = [r EXCEPT !.state = e.state, !.tone = tone(r), !.turn = turn(r), !.loading = e.detail,
                     !.dirty = dirty(r), !.mode = mode(r)]
  BY <1>1 DEF applyTurnState, IsState, Fields
<1> HIDE DEF tone, turn, dirty, mode
<1> QED
  BY <1>1, <1>2 DEF Agree, IsState, Decided

LEMMA HostLogAgree ==
  ASSUME NEW s, NEW r, Agree(s, r), NEW e
  PROVE  Agree(applyHostLog(s, e), applyHostLog(r, e))
BY BlockAgree, RewriteAgree DEF applyHostLog

LEMMA UserMessageAgree ==
  ASSUME NEW s, NEW r, Agree(s, r), NEW e
  PROVE  Agree(applyUserMessage(s, e), applyUserMessage(r, e))
BY BlockAgree, RewriteAgree DEF applyUserMessage

LEMMA AgentMessageAgree ==
  ASSUME NEW s, NEW r, Agree(s, r), NEW e
  PROVE  Agree(applyAgentMessage(s, e), applyAgentMessage(r, e))
BY BlockAgree, MetaAgree, RewriteAgree DEF applyAgentMessage

LEMMA AgentDeltaAgree ==
  ASSUME NEW s, NEW r, Agree(s, r), NEW e
  PROVE  Agree(applyAgentDelta(s, e), applyAgentDelta(r, e))
<1> DEFINE t == block(s, e.block, "AGENT", "agent", <<>>)
           q == block(r, e.block, "AGENT", "agent", <<>>)
<1>1. Agree(t, q)
  BY BlockAgree
<1>2. /\ applyAgentDelta(s, e) = Rewrite(t, e.block, Continued(BlockOf(t, e.block).lines, e.text))
      /\ applyAgentDelta(r, e) = Rewrite(q, e.block, Continued(BlockOf(q, e.block).lines, e.text))
  BY DEF applyAgentDelta
<1> HIDE DEF t, q
<1>3. BlockOf(t, e.block) = BlockOf(q, e.block)
  BY <1>1, AgreeOn DEF BlockOf
<1> QED
  BY <1>1, <1>2, <1>3, RewriteAgree

LEMMA AgentPlanAgree ==
  ASSUME NEW s, NEW r, Agree(s, r), NEW e
  PROVE  Agree(applyAgentPlan(s, e), applyAgentPlan(r, e))
BY BlockAgree, MetaAgree, RewriteAgree DEF applyAgentPlan

LEMMA ToolProposedAgree ==
  ASSUME NEW s, NEW r, Agree(s, r), NEW e
  PROVE  Agree(applyToolProposed(s, e), applyToolProposed(r, e))
<1> DEFINE lines == FlattenSeq([n \in DOMAIN e.calls |->
               LET c == e.calls[n]
               IN  <<<<c.tool, c.args>>>> \o IF c.detail = "" THEN <<>> ELSE <<<<c.detail>>>>])
           t == Rewrite(block(s, e.block, "PROPOSED", "tool", <<"pending gate">>), e.block, lines)
           q == Rewrite(block(r, e.block, "PROPOSED", "tool", <<"pending gate">>), e.block, lines)
           proposed == With(t.proposed, e.block, toolNames(e.calls))
<1>1. Agree(t, q)
  <2> HIDE DEF lines
  <2> QED
    BY BlockAgree, RewriteAgree
<1>2. /\ applyToolProposed(s, e) = [t EXCEPT !.proposed = With(t.proposed, e.block, toolNames(e.calls))]
      /\ applyToolProposed(r, e) = [q EXCEPT !.proposed = With(q.proposed, e.block, toolNames(e.calls))]
  BY DEF applyToolProposed
<1> HIDE DEF t, q
<1>3. t.proposed = q.proposed
  BY <1>1, AgreeOn
<1>4. /\ applyToolProposed(s, e) = [t EXCEPT !.proposed = proposed]
      /\ applyToolProposed(r, e) = [q EXCEPT !.proposed = proposed]
  BY <1>2, <1>3
<1> HIDE DEF proposed
<1>5. Agree([t EXCEPT !.proposed = proposed], [q EXCEPT !.proposed = proposed])
  BY <1>1 DEF Agree, IsState
<1> QED
  BY <1>4, <1>5, Zenon

LEMMA OfinScopeAgree ==
  ASSUME NEW s, NEW r, Agree(s, r), NEW e
  PROVE  Agree(applyOfinScope(s, e), applyOfinScope(r, e))
<1> DEFINE rules == [i \in DOMAIN e.rules |-> [id |-> e.rules[i].id, hot |-> FALSE]]
           t    == [s EXCEPT !.inScope = <<e.total>>, !.rules = rules]
           q    == [r EXCEPT !.inScope = <<e.total>>, !.rules = rules]
           row(x) == Cells(<<x.id, x.tool, x.match, x.verdict>>)
           rest == e.total - Len(e.rules)
           lines == <<<<"resolved", ToString(e.total)>>>>
                    \o [i \in DOMAIN e.rules |-> row(e.rules[i])]
                    \o IF rest > 0 THEN <<<<"more", ToString(rest)>>>> ELSE <<>>
           meta == <<"scope", e.scope>>
           Opened(x) == Rewrite(Meta(block(x, e.block, "OFIN", "agent", meta), e.block, meta),
                                e.block, lines)
<1>1. /\ applyOfinScope(s, e) = IF e.block = "" THEN t ELSE Opened(t)
      /\ applyOfinScope(r, e) = IF e.block = "" THEN q ELSE Opened(q)
  BY DEF applyOfinScope
<1> HIDE DEF rules, lines, meta
<1>2. Agree(t, q)
  BY DEF Agree, IsState
<1> HIDE DEF t, q
<1>3. Agree(Opened(t), Opened(q))
  BY <1>2, BlockAgree, MetaAgree, RewriteAgree
<1> QED
  BY <1>1, <1>2, <1>3

LEMMA HotRuleAgree ==
  ASSUME NEW s, NEW r, Agree(s, r), NEW id, NEW hot
  PROVE  Agree(hotRule(s, id, hot), hotRule(r, id, hot))
<1> DEFINE rules == [i \in DOMAIN s.rules |-> [s.rules[i] EXCEPT !.hot = hot /\ s.rules[i].id = id]]
<1>1. s.rules = r.rules /\ IsState(s) /\ IsState(r)
  BY AgreeOn
<1>2. hotRule(s, id, hot) = [s EXCEPT !.rules = rules]
  BY <1>1 DEF hotRule
<1>3. hotRule(r, id, hot) = [r EXCEPT !.rules = rules]
  <2>1. hotRule(r, id, hot) = [r EXCEPT !.rules =
          [i \in DOMAIN r.rules |-> [r.rules[i] EXCEPT !.hot = hot /\ r.rules[i].id = id]]]
    BY <1>1 DEF hotRule
  <2> QED
    BY <1>1, <2>1
<1> HIDE DEF rules
<1>4. Agree([s EXCEPT !.rules = rules], [r EXCEPT !.rules = rules])
  BY DEF Agree, IsState
<1> QED
  BY <1>2, <1>3, <1>4, Zenon

LEMMA AllowedAgree ==
  ASSUME NEW s, NEW r, Agree(s, r), NEW ref
  PROVE  Agree(Allowed(s, ref), Allowed(r, ref))
<1>0. s.order = r.order /\ s.proposed = r.proposed
  BY AgreeOn
<1>1. CASE ref \notin DOMAIN s.order
  BY <1>0, <1>1 DEF Allowed
<1>2. CASE ref \in DOMAIN s.order
  <2> DEFINE t == [s EXCEPT !.blocks[s.order[ref]].tag = "TOOL"]
             q == [r EXCEPT !.blocks[r.order[ref]].tag = "TOOL"]
             meta == toolMeta(Get(s.proposed, ref, <<>>), <<"running">>)
  <2>1. /\ Allowed(s, ref) = Rewrite(Meta(t, ref, meta), ref, <<>>)
        /\ Allowed(r, ref) = Rewrite(Meta(q, ref, meta), ref, <<>>)
    BY <1>0, <1>2 DEF Allowed
  <2>2. Agree(t, q)
    BY <1>0, EditAgree
  <2> HIDE DEF t, q, meta
  <2> QED
    BY <2>1, <2>2, MetaAgree, RewriteAgree
<1> QED
  BY <1>1, <1>2

LEMMA RefusedAgree ==
  ASSUME NEW s, NEW r, Agree(s, r), NEW e
  PROVE  Agree(Refused(s, e), Refused(r, e))
<1> DEFINE human == e.verdict = "require_human"
           tag == IF human THEN "APPROVAL" ELSE "DENIED"
           tone == IF human THEN "human" ELSE "deny"
           meta == verdictMeta(e)
           given == Cells(<<e.headline, e.rationale>>) \o e.terms
           last == IF ~human THEN <<<<"returned as an observation">>>>
                   ELSE IF e.options = <<>> THEN <<>> ELSE <<e.options>>
           lines == [i \in DOMAIN given |-> <<given[i]>>] \o last
           t == block(s, e.block, tag, tone, meta)
           q == block(r, e.block, tag, tone, meta)
           u == [t EXCEPT !.approval = ApprovalAfter(s, e)]
           v == [q EXCEPT !.approval = ApprovalAfter(r, e)]
<1>1. /\ Refused(s, e) = Rewrite(Meta(u, e.block, meta), e.block, lines)
      /\ Refused(r, e) = Rewrite(Meta(v, e.block, meta), e.block, lines)
  BY DEF Refused
<1> HIDE DEF tag, tone, meta, lines
<1>2. Agree(t, q)
  BY BlockAgree
<1> HIDE DEF t, q
<1>3. Agree(u, v)
  BY <1>2, ApprovalAgree
<1> HIDE DEF u, v
<1> QED
  BY <1>1, <1>3, MetaAgree, RewriteAgree

LEMMA OfinVerdictAgree ==
  ASSUME NEW s, NEW r, Agree(s, r), NEW e
  PROVE  Agree(applyOfinVerdict(s, e), applyOfinVerdict(r, e))
BY AllowedAgree, RefusedAgree, HotRuleAgree DEF applyOfinVerdict

LEMMA ToolOutputAgree ==
  ASSUME NEW s, NEW r, Agree(s, r), NEW e
  PROVE  Agree(applyToolOutput(s, e), applyToolOutput(r, e))
<1> DEFINE ref == e.block
           t == block(s, ref, "TOOL", "tool", <<>>)
           q == block(r, ref, "TOOL", "tool", <<>>)
           outcome == Outcome(t, ref, e.lines)
           u == [t EXCEPT !.outcome = outcome]
           v == [q EXCEPT !.outcome = outcome]
           tone == toneFor(u, ref)
           lines == [i \in DOMAIN e.lines |-> <<e.lines[i].text>>]
           w == [u EXCEPT !.blocks[u.order[ref]].tone = tone]
           x == [v EXCEPT !.blocks[v.order[ref]].tone = tone]
<1>1. Agree(t, q)
  BY BlockAgree
<1>2. applyToolOutput(s, e) = AddLines(w, ref, lines)
  BY DEF applyToolOutput
<1>3. applyToolOutput(r, e) =
        AddLines([[q EXCEPT !.outcome = Outcome(q, ref, e.lines)] EXCEPT
                    !.blocks[[q EXCEPT !.outcome = Outcome(q, ref, e.lines)].order[ref]].tone
                    = toneFor([q EXCEPT !.outcome = Outcome(q, ref, e.lines)], ref)], ref, lines)
  BY DEF applyToolOutput
<1> HIDE DEF t, q
<1>4. Outcome(q, ref, e.lines) = outcome
  BY <1>1, AgreeOn DEF Outcome
<1> HIDE DEF outcome
<1>5. Agree(u, v)
  BY <1>1, SetAgree
<1>6. applyToolOutput(r, e) = AddLines([v EXCEPT !.blocks[v.order[ref]].tone = toneFor(v, ref)],
                                       ref, lines)
  <2> HIDE DEF lines
  <2> QED
    BY <1>3, <1>4, Zenon
<1> HIDE DEF u, v, lines
<1>7. u.order = v.order /\ toneFor(v, ref) = tone
  BY <1>5, AgreeOn DEF toneFor
<1>8. applyToolOutput(r, e) = AddLines(x, ref, lines)
  BY <1>6, <1>7
<1> HIDE DEF tone
<1>9. Agree(w, x)
  BY <1>5, <1>7, EditAgree
<1> HIDE DEF w, x
<1> QED
  BY <1>2, <1>8, <1>9, AddLinesAgree

LEMMA ToolCompletedAgree ==
  ASSUME NEW s, NEW r, Agree(s, r), NEW e
  PROVE  Agree(applyToolCompleted(s, e), applyToolCompleted(r, e))
<1> DEFINE ref == e.block
           t == block(s, ref, "TOOL", "tool", <<>>)
           q == block(r, ref, "TOOL", "tool", <<>>)
           tone(x) == IF e.status = "ok" THEN toneFor(x, ref) ELSE "deny"
           u == [t EXCEPT !.blocks[t.order[ref]].tone = tone(t)]
           v == [q EXCEPT !.blocks[q.order[ref]].tone = tone(q)]
           Ran(x) == IF e.duration > 0
                     THEN Meta(x, ref, toolMeta(Get(x.proposed, ref, <<>>), duration(e.duration)))
                     ELSE x
           row(c) == <<c.op, c.path>> \o (IF c.summary # "" THEN <<c.summary>>
                                          ELSE signedChanges(c.added, c.removed))
           lines == [i \in DOMAIN e.changes |-> row(e.changes[i])]
<1>1. Agree(t, q)
  BY BlockAgree
<1>2. /\ applyToolCompleted(s, e) = AddLines(Ran(u), ref, lines)
      /\ applyToolCompleted(r, e) = AddLines(Ran(v), ref, lines)
  BY DEF applyToolCompleted
<1> HIDE DEF t, q, lines
<1>3. t.order = q.order /\ tone(t) = tone(q)
  BY <1>1, AgreeOn DEF toneFor
<1> HIDE DEF tone
<1>4. Agree(u, v)
  BY <1>1, <1>3, EditAgree
<1> HIDE DEF u, v
<1>5. Agree(Ran(u), Ran(v))
  <2>1. u.proposed = v.proposed
    BY <1>4, AgreeOn
  <2> QED
    BY <1>4, <2>1, MetaAgree
<1> HIDE DEF Ran
<1> QED
  BY <1>2, <1>5, AddLinesAgree

LEMMA GoalsAgree ==
  ASSUME NEW s, NEW r, Agree(s, r), NEW e
  PROVE  Agree(applyGoals(s, e), applyGoals(r, e))
BY SetAgree DEF applyGoals

LEMMA LSPAgree ==
  ASSUME NEW s, NEW r, Agree(s, r), NEW e
  PROVE  Agree(applyLSP(s, e), applyLSP(r, e))
<1> DEFINE shown(d) == [severity |-> severity(d.severity), file |-> d.file,
                        at |-> IF d.line > 0 THEN ToString(d.line) ELSE ""]
           diagnostics == [i \in DOMAIN e.diagnostics |-> shown(e.diagnostics[i])]
           server == IF e.server = "" THEN s.server ELSE e.server
<1>1. s.server = r.server /\ IsState(s) /\ IsState(r)
  BY AgreeOn
<1>2. /\ applyLSP(s, e) = [s EXCEPT !.server = server, !.diagnostics = diagnostics]
      /\ applyLSP(r, e) = [r EXCEPT !.server = server, !.diagnostics = diagnostics]
  BY <1>1 DEF applyLSP, IsState, Fields
<1> HIDE DEF diagnostics, server
<1> QED
  BY <1>2 DEF Agree, IsState

LEMMA RefreshAgree ==
  ASSUME NEW s, NEW r, Agree(s, r)
  PROVE  Agree(refreshUsage(s), refreshUsage(r))
<1> DEFINE limit(x) == IF x.usage.ctxLimit = 0 THEN x.ctxLimit ELSE x.usage.ctxLimit
           percent(x) == contextPercent(x.usage.ctxUsed, limit(x))
           label(x) == contextLabel(x.usage.ctxUsed, limit(x))
           cost(x) == <<turnCost(x, x.usage.costTurn),
                        [key |-> <<"session">>, value |-> money(x.usage.costSession)],
                        [key |-> <<"tok">>,
                         value |-> contextLabel(x.usage.tokensIn, x.usage.tokensOut)]>>
<1>1. /\ refreshUsage(s) = [s EXCEPT !.percent = percent(s), !.label = label(s), !.cost = cost(s)]
      /\ refreshUsage(r) = [r EXCEPT !.percent = percent(r), !.label = label(r), !.cost = cost(r)]
  BY DEF refreshUsage
<1>2. s.usage = r.usage /\ s.ctxLimit = r.ctxLimit /\ s.forked = r.forked /\ s.forks = r.forks
  BY AgreeOn
<1>3. turnCost(s, s.usage.costTurn) = turnCost(r, r.usage.costTurn)
  BY <1>2 DEF turnCost
<1>4. percent(s) = percent(r) /\ label(s) = label(r) /\ cost(s) = cost(r)
  BY <1>2, <1>3
<1> HIDE DEF percent, label, cost
<1> QED
  BY <1>1, <1>4 DEF Agree, IsState

LEMMA UsageAgree ==
  ASSUME NEW s, NEW r, Agree(s, r), NEW e
  PROVE  Agree(applyUsage(s, e), applyUsage(r, e))
BY SetAgree, RefreshAgree DEF applyUsage

LEMMA SandboxAgree ==
  ASSUME NEW s, NEW r, Agree(s, r), NEW e
  PROVE  Agree(applySandbox(s, e), applySandbox(r, e))
BY SetAgree DEF applySandbox

LEMMA ForksAgree ==
  ASSUME NEW s, NEW r, Agree(s, r), NEW e
  PROVE  Agree(applyForks(s, e), applyForks(r, e))
<1> DEFINE t == block(s, e.block, "FORKS", "fork", <<"independent loops">>)
           q == block(r, e.block, "FORKS", "fork", <<"independent loops">>)
           u == [t EXCEPT !.forked = TRUE, !.forks = e.forks]
           v == [q EXCEPT !.forked = TRUE, !.forks = e.forks]
           row(f) == <<f.name, f.approach>>
                     \o (IF f.state = "done" THEN <<"done">> ELSE <<"turn", ToString(f.turn)>>)
                     \o signedChanges(f.added, f.removed)
                     \o (IF f.testsRun > 0 THEN <<ToString(f.testsOK), ToString(f.testsRun)>>
                         ELSE <<>>)
                     \o moneyCompact(f.cost)
           lines == [i \in DOMAIN e.forks |-> row(e.forks[i])]
<1>1. /\ applyForks(s, e) = Rewrite(refreshUsage(u), e.block, lines)
      /\ applyForks(r, e) = Rewrite(refreshUsage(v), e.block, lines)
  BY DEF applyForks, AfterForking
<1>2. Agree(t, q)
  BY BlockAgree
<1> HIDE DEF t, q, lines
<1>3. Agree(u, v)
  BY <1>2 DEF Agree, IsState
<1> HIDE DEF u, v
<1> QED
  BY <1>1, <1>3, RefreshAgree, RewriteAgree

LEMMA ApplyAgree ==
  ASSUME NEW s, NEW r, Agree(s, r), NEW e \in Event
  PROVE  Agree(Apply(s, e), Apply(r, e))
BY KindOf, SessionStartedAgree, TurnStateAgree, HostLogAgree, UserMessageAgree,
   AgentMessageAgree, AgentDeltaAgree, AgentPlanAgree, ToolProposedAgree, OfinScopeAgree,
   OfinVerdictAgree, ToolOutputAgree, ToolCompletedAgree, GoalsAgree, LSPAgree, UsageAgree,
   SandboxAgree, ForksAgree DEF Apply

\* While a log feeds it, the session is the fold of the log but for what a
\* person decided.
LogInv == fed => Agree(session, record)

LEMMA NewAgrees == Agree(New, New)
BY NewIsState, AgreeSelf

LEMMA DecideAgrees ==
  ASSUME Decide \/ Mode, NEW r, Agree(session, r)
  PROVE  Agree(session', r)
<1>1. CASE Decide
  <2>1. PICK state, tone : resolveApproval(state, tone)
    BY <1>1 DEF Decide
  <2> QED
    BY <2>1 DEF resolveApproval, Agree, IsState, Decided
<1>2. CASE Mode
  BY <1>2 DEF Mode, Agree, IsState, Decided
<1> QED
  BY <1>1, <1>2

LEMMA NextLogInv ==
  ASSUME LogInv, [Next]_vars
  PROVE  LogInv'
<1>1. CASE Resize
  BY <1>1 DEF Resize, LogInv
<1>2. CASE Deliver
  <2>1. PICK e \in Events : Folded(e) \/ Contradiction(e)
    BY <1>2 DEF Deliver
  <2>2. fed
    BY <1>2 DEF Deliver
  <2>3. CASE Folded(e)
    BY <2>2, <2>3, ApplyAgree, ClientAssumption DEF Folded, LogInv
  <2>4. CASE Contradiction(e)
    BY <2>4, NewAgrees DEF Contradiction, Quits, LogInv
  <2> QED
    BY <2>1, <2>3, <2>4
<1>3. CASE StreamEnds
  BY <1>3 DEF StreamEnds, LogInv
<1>4. CASE Press
  <2>1. fed' = fed
    BY <1>4 DEF Press
  <2>2. CASE CtrlC
    BY <2>2, NewAgrees DEF CtrlC, Quits, LogInv
  <2>3. CASE (Decide \/ Mode) /\ record' = record
    BY <2>1, <2>3, DecideAgrees DEF LogInv
  <2>4. CASE Scroll /\ record' = record
    BY <2>1, <2>4 DEF Scroll, LogInv
  <2>5. CASE switchScene
    BY <2>1, <2>5 DEF switchScene, Detached, LogInv
  <2> QED
    BY <1>4, <2>2, <2>3, <2>4, <2>5 DEF Press
<1>5. CASE UNCHANGED vars
  BY <1>5 DEF vars, LogInv
<1> QED
  BY <1>1, <1>2, <1>3, <1>4, <1>5 DEF Next

\* While a log feeds the client, what a person decides or chooses changes
\* nothing else of what the log says, on every client alike
\* (session.go:181-192, tui.go:174-245).
THEOREM TheLogDecides == Spec => []TranscriptIsTheLog
<1>1. Init => LogInv
  BY NewAgrees DEF Init, LogInv
<1>2. LogInv => TranscriptIsTheLog
  <2>1. ASSUME LogInv, fed, NEW f \in DOMAIN session \ Decided PROVE session[f] = record[f]
    <3>1. DOMAIN session = Fields
      BY <2>1 DEF LogInv, Agree, IsState
    <3> QED
      BY <2>1, <3>1 DEF LogInv, Agree
  <2> QED
    BY <2>1 DEF TranscriptIsTheLog
<1> QED
  BY <1>1, <1>2, NextLogInv, PTL DEF Spec

-----------------------------------------------------------------------------
(* The rail *)

\* The limit the context is counted against, and the cost rows.
Limit(s) == IF s.usage.ctxLimit = 0 THEN s.ctxLimit ELSE s.usage.ctxLimit

Costs(s) == <<turnCost(s, s.usage.costTurn),
              [key |-> <<"session">>, value |-> money(s.usage.costSession)],
              [key |-> <<"tok">>,
               value |-> contextLabel(s.usage.tokensIn, s.usage.tokensOut)]>>

\* The figures of the rail are those the usage gives.
Computed(s) == /\ s.percent = contextPercent(s.usage.ctxUsed, Limit(s))
               /\ s.label = contextLabel(s.usage.ctxUsed, Limit(s))
               /\ s.cost = Costs(s)

\* What the figures are computed from.
SameSource(s, r) == /\ s.usage = r.usage /\ s.ctxLimit = r.ctxLimit
                    /\ s.forked = r.forked /\ s.forks = r.forks

SameFigures(s, r) == s.percent = r.percent /\ s.label = r.label /\ s.cost = r.cost

\* The rail but its figures.
SameNews(s, r) ==
  /\ s.goals = r.goals /\ s.rules = r.rules /\ s.inScope = r.inScope
  /\ s.server = r.server /\ s.diagnostics = r.diagnostics
  /\ s.sandbox = r.sandbox /\ s.model = r.model

LEMMA ComputedAlike ==
  ASSUME NEW s, NEW r, SameSource(s, r), Computed(s)
  PROVE  Computed(r) <=> SameFigures(s, r)
<1>1. Limit(s) = Limit(r)
  BY DEF Limit, SameSource
<1>2. Costs(s) = Costs(r)
  <2>1. turnCost(s, s.usage.costTurn) = turnCost(r, r.usage.costTurn)
    BY DEF turnCost, SameSource
  <2> QED
    BY <2>1 DEF Costs, SameSource
<1> QED
  BY <1>1, <1>2 DEF Computed, SameSource, SameFigures

LEMMA RefreshComputes ==
  ASSUME NEW s, IsState(s)
  PROVE  /\ Computed(refreshUsage(s)) /\ SameSource(s, refreshUsage(s))
         /\ SameNews(s, refreshUsage(s))
<1> DEFINE percent == contextPercent(s.usage.ctxUsed, Limit(s))
           label == contextLabel(s.usage.ctxUsed, Limit(s))
           cost == Costs(s)
           t == [s EXCEPT !.percent = percent, !.label = label, !.cost = cost]
<1>1. refreshUsage(s) = t
  BY DEF refreshUsage, Limit, Costs
<1> HIDE DEF percent, label, cost
<1>2. /\ t.percent = percent /\ t.label = label /\ t.cost = cost
      /\ SameSource(s, t) /\ SameNews(s, t)
  BY DEF IsState, Fields, SameSource, SameNews
<1> HIDE DEF t
<1>3. Limit(t) = Limit(s)
  BY <1>2 DEF Limit, SameSource
<1>4. Costs(t) = cost
  <2>1. turnCost(t, t.usage.costTurn) = turnCost(s, s.usage.costTurn)
    BY <1>2 DEF turnCost, SameSource
  <2> QED
    BY <1>2, <2>1 DEF Costs, SameSource, cost
<1>5. t.usage = s.usage
  BY <1>2 DEF SameSource
<1> QED
  BY <1>1, <1>2, <1>3, <1>4, <1>5 DEF Computed, percent, label

LEMMA RestRail ==
  ASSUME NEW s, NEW t, SameRest(s, t)
  PROVE  SameSource(s, t) /\ SameFigures(s, t) /\ SameNews(s, t)
BY DEF SameRest, SameSource, SameFigures, SameNews, Fields, Files

LEMMA UsageDoes ==
  ASSUME NEW s, Good(s), NEW e
  PROVE  LET t == applyUsage(s, e)
         IN  /\ Computed(t) /\ SameNews(s, t) /\ t.usage = [f \in DOMAIN NoUsage |-> e[f]]
             /\ t.ctxLimit = s.ctxLimit /\ t.forked = s.forked /\ t.forks = s.forks
<1> DEFINE usage == [f \in DOMAIN NoUsage |-> e[f]]
           t == [s EXCEPT !.usage = usage]
<1>1. applyUsage(s, e) = refreshUsage(t)
  BY DEF applyUsage
<1> HIDE DEF usage
<1>2. /\ IsState(t) /\ SameNews(s, t) /\ t.usage = usage
      /\ t.ctxLimit = s.ctxLimit /\ t.forked = s.forked /\ t.forks = s.forks
  BY DEF Good, Filed, IsState, Fields, SameNews
<1> HIDE DEF t
<1>3. Computed(refreshUsage(t)) /\ SameSource(t, refreshUsage(t)) /\ SameNews(t, refreshUsage(t))
  BY <1>2, RefreshComputes
<1> QED
  BY <1>1, <1>2, <1>3 DEF SameNews, SameSource, usage

\* What an event of the rail does to the news of two states that agree on them.
LEMMA GoalsDoes ==
  ASSUME NEW s, Good(s), NEW r, Good(r), NEW e, SameNews(s, r)
  PROVE  LET t == applyGoals(s, e)
             q == applyGoals(r, e)
         IN  SameNews(t, q) /\ SameSource(s, t) /\ SameFigures(s, t)
<1> DEFINE goals == [i \in DOMAIN e.goals |-> [e.goals[i] EXCEPT !.state = goalState(@)]]
           t == [s EXCEPT !.goals = goals]
           q == [r EXCEPT !.goals = goals]
<1>1. applyGoals(s, e) = t /\ applyGoals(r, e) = q
  BY DEF applyGoals
<1> HIDE DEF goals
<1>2. SameNews(t, q) /\ SameSource(s, t) /\ SameFigures(s, t)
  BY DEF Good, Filed, IsState, Fields, SameNews, SameSource, SameFigures
<1> QED
  BY <1>1, <1>2

LEMMA LSPDoes ==
  ASSUME NEW s, Good(s), NEW r, Good(r), NEW e, SameNews(s, r)
  PROVE  LET t == applyLSP(s, e)
             q == applyLSP(r, e)
         IN  SameNews(t, q) /\ SameSource(s, t) /\ SameFigures(s, t)
<1> DEFINE shown(d) == [severity |-> severity(d.severity), file |-> d.file,
                        at |-> IF d.line > 0 THEN ToString(d.line) ELSE ""]
           diagnostics == [i \in DOMAIN e.diagnostics |-> shown(e.diagnostics[i])]
           server(x) == IF e.server = "" THEN x.server ELSE e.server
           t == [s EXCEPT !.server = server(s), !.diagnostics = diagnostics]
           q == [r EXCEPT !.server = server(r), !.diagnostics = diagnostics]
<1>1. applyLSP(s, e) = t /\ applyLSP(r, e) = q
  BY DEF applyLSP, Good, Filed, IsState, Fields
<1>2. server(s) = server(r)
  BY DEF SameNews
<1> HIDE DEF diagnostics, server
<1>3. SameNews(t, q) /\ SameSource(s, t) /\ SameFigures(s, t)
  BY <1>2 DEF Good, Filed, IsState, Fields, SameNews, SameSource, SameFigures
<1> QED
  BY <1>1, <1>3

LEMMA SandboxDoes ==
  ASSUME NEW s, Good(s), NEW r, Good(r), NEW e, SameNews(s, r)
  PROVE  LET t == applySandbox(s, e)
             q == applySandbox(r, e)
         IN  SameNews(t, q) /\ SameSource(s, t) /\ SameFigures(s, t)
<1> DEFINE t == applySandbox(s, e)
           q == applySandbox(r, e)
<1>1. \E sandbox : t = [s EXCEPT !.sandbox = sandbox] /\ q = [r EXCEPT !.sandbox = sandbox]
  BY DEF applySandbox
<1> HIDE DEF t, q
<1>2. SameNews(t, q) /\ SameSource(s, t) /\ SameFigures(s, t)
  BY <1>1 DEF Good, Filed, IsState, Fields, SameNews, SameSource, SameFigures
<1> QED
  BY <1>2 DEF t, q

LEMMA OfinScopeDoes ==
  ASSUME NEW s, Good(s), NEW r, Good(r), NEW e \in OfinScope, SameNews(s, r)
  PROVE  LET t == applyOfinScope(s, e)
             q == applyOfinScope(r, e)
         IN  SameNews(t, q) /\ SameSource(s, t) /\ SameFigures(s, t)
<1> DEFINE t == applyOfinScope(s, e)
           q == applyOfinScope(r, e)
           rules == [i \in DOMAIN e.rules |-> [id |-> e.rules[i].id, hot |-> FALSE]]
           total == <<e.total>>
<1>1. /\ t.inScope = total /\ t.rules = rules
      /\ \A f \in (Fields \ Files) \ {"inScope", "rules"} : t[f] = s[f]
  BY OfinScopeGoes
<1>2. /\ q.inScope = total /\ q.rules = rules
      /\ \A f \in (Fields \ Files) \ {"inScope", "rules"} : q[f] = r[f]
  BY OfinScopeGoes
<1> HIDE DEF t, q, rules, total
<1>3. SameNews(t, q)
  BY <1>1, <1>2 DEF SameNews, Fields, Files
<1>4. SameSource(s, t) /\ SameFigures(s, t)
  BY <1>1 DEF SameSource, SameFigures, Fields, Files
<1> QED
  BY <1>3, <1>4 DEF t, q

LEMMA ForksDoes ==
  ASSUME NEW s, Good(s), NEW e \in ForksUpdated
  PROVE  LET t == applyForks(s, e)
         IN  /\ SameNews(s, t) /\ Computed(t) /\ t.usage = s.usage /\ t.ctxLimit = s.ctxLimit
             /\ t.forked = TRUE /\ t.forks = e.forks
<1> DEFINE t == applyForks(s, e)
<1>1. PICK r : /\ IsState(r) /\ r.forked = TRUE /\ r.forks = e.forks
               /\ \A f \in (Fields \ Files) \ {"forked", "forks"} : r[f] = s[f]
               /\ SameRest(refreshUsage(r), t)
  BY ForksGoes
<1> HIDE DEF t
<1> DEFINE u == refreshUsage(r)
<1>2. Computed(u) /\ SameSource(r, u) /\ SameNews(r, u)
  BY <1>1, RefreshComputes
<1>3. SameSource(u, t) /\ SameFigures(u, t) /\ SameNews(u, t)
  BY <1>1, RestRail
<1> HIDE DEF u
<1>4. Computed(t)
  BY <1>2, <1>3, ComputedAlike
<1>5. SameNews(s, r) /\ r.usage = s.usage /\ r.ctxLimit = s.ctxLimit
  BY <1>1 DEF SameNews, Fields, Files
<1>6. SameNews(s, t) /\ t.usage = s.usage /\ t.ctxLimit = s.ctxLimit
      /\ t.forked = TRUE /\ t.forks = e.forks
  BY <1>1, <1>2, <1>3, <1>5 DEF SameNews, SameSource
<1> QED
  BY <1>4, <1>6 DEF t

\* News of the rail that is not of its usage: two states that agree on the rail's
\* news still do, and the figures, where they are not computed anew, stay.
LEMMA NewsDoes ==
  ASSUME NEW s, Good(s), NEW r, Good(r), NEW e \in Event, e.kind \in RailKinds,
         e.kind # "UsageUpdated", SameNews(s, r)
  PROVE  LET t == Apply(s, e)
             q == Apply(r, e)
         IN  /\ SameNews(t, q) /\ t.usage = s.usage /\ t.ctxLimit = s.ctxLimit
             /\ q.usage = r.usage /\ q.ctxLimit = r.ctxLimit
             /\ (s.forked = r.forked /\ s.forks = r.forks => t.forked = q.forked /\ t.forks = q.forks)
             /\ (Computed(s) => Computed(t))
<1> DEFINE t == Apply(s, e)
           q == Apply(r, e)
<1>1. ASSUME SameNews(t, q), SameSource(s, t), SameFigures(s, t), SameSource(r, q)
      PROVE  /\ SameNews(t, q) /\ t.usage = s.usage /\ t.ctxLimit = s.ctxLimit
             /\ q.usage = r.usage /\ q.ctxLimit = r.ctxLimit
             /\ (s.forked = r.forked /\ s.forks = r.forks => t.forked = q.forked /\ t.forks = q.forks)
             /\ (Computed(s) => Computed(t))
  <2> HIDE DEF t, q
  <2>1. Computed(s) => Computed(t)
    BY <1>1, ComputedAlike
  <2> QED
    BY <1>1, <2>1 DEF SameSource
<1>2. SameNews(r, s)
  BY DEF SameNews
<1>3. CASE e.kind = "GoalsUpdated"
  <2>1. t = applyGoals(s, e) /\ q = applyGoals(r, e)
    BY <1>3 DEF Apply
  <2>2. SameNews(t, q) /\ SameSource(s, t) /\ SameFigures(s, t) /\ SameSource(r, q)
    BY <1>2, <2>1, GoalsDoes
  <2> QED
    BY <1>1, <2>2
<1>4. CASE e.kind = "LSPUpdated"
  <2>1. t = applyLSP(s, e) /\ q = applyLSP(r, e)
    BY <1>4 DEF Apply
  <2>2. SameNews(t, q) /\ SameSource(s, t) /\ SameFigures(s, t) /\ SameSource(r, q)
    BY <1>2, <2>1, LSPDoes
  <2> QED
    BY <1>1, <2>2
<1>5. CASE e.kind = "SandboxUpdated"
  <2>1. t = applySandbox(s, e) /\ q = applySandbox(r, e)
    BY <1>5 DEF Apply
  <2>2. SameNews(t, q) /\ SameSource(s, t) /\ SameFigures(s, t) /\ SameSource(r, q)
    BY <1>2, <2>1, SandboxDoes
  <2> QED
    BY <1>1, <2>2
<1>6. CASE e.kind = "OfinScope"
  <2>1. t = applyOfinScope(s, e) /\ q = applyOfinScope(r, e) /\ e \in OfinScope
    BY <1>6, KindOf DEF Apply
  <2>2. SameNews(t, q) /\ SameSource(s, t) /\ SameFigures(s, t) /\ SameSource(r, q)
    BY <1>2, <2>1, OfinScopeDoes
  <2> QED
    BY <1>1, <2>2
<1>7. CASE e.kind = "ForksUpdated"
  <2>1. t = applyForks(s, e) /\ q = applyForks(r, e) /\ e \in ForksUpdated
    BY <1>7, KindOf DEF Apply
  <2> DEFINE v == applyForks(s, e)
             w == applyForks(r, e)
  <2>2. /\ SameNews(s, v) /\ Computed(v) /\ v.usage = s.usage /\ v.ctxLimit = s.ctxLimit
        /\ v.forked = TRUE /\ v.forks = e.forks
    BY <2>1, ForksDoes
  <2>3. /\ SameNews(r, w) /\ w.usage = r.usage /\ w.ctxLimit = r.ctxLimit
        /\ w.forked = TRUE /\ w.forks = e.forks
    BY <2>1, ForksDoes
  <2> HIDE DEF v, w
  <2>4. SameNews(v, w)
    BY <2>2, <2>3 DEF SameNews
  <2>5. /\ SameNews(v, w) /\ v.usage = s.usage /\ v.ctxLimit = s.ctxLimit
        /\ w.usage = r.usage /\ w.ctxLimit = r.ctxLimit
        /\ v.forked = w.forked /\ v.forks = w.forks /\ Computed(v)
    BY <2>2, <2>3, <2>4
  <2>6. t = v /\ q = w
    BY <2>1 DEF v, w
  <2> HIDE DEF t, q
  <2>7. /\ SameNews(t, q) /\ t.usage = s.usage /\ t.ctxLimit = s.ctxLimit
        /\ q.usage = r.usage /\ q.ctxLimit = r.ctxLimit
        /\ t.forked = q.forked /\ t.forks = q.forks /\ Computed(t)
    BY <2>5, <2>6
  <2> QED
    BY <2>7 DEF t, q
<1> QED
  BY <1>3, <1>4, <1>5, <1>6, <1>7 DEF RailKinds

LEMMA RailEitherWay ==
  ASSUME NEW s, Good(s), NEW e \in Event, e.kind = "UsageUpdated",
         NEW f \in Event, f.kind \in RailKinds, f.kind # "UsageUpdated"
  PROVE  RailOf(Apply(Apply(s, e), f)) = RailOf(Apply(Apply(s, f), e))
<1> DEFINE usage == [x \in DOMAIN NoUsage |-> e[x]]
           s1 == Apply(s, e)
           a == Apply(s1, f)
           t == Apply(s, f)
           b == Apply(t, e)
<1>1. Good(s1) /\ Good(t)
  BY ApplyGoes
<1>2. s1 = applyUsage(s, e) /\ b = applyUsage(t, e)
  <2> HIDE DEF t
  <2> QED
    BY DEF Apply
<1>3. /\ Computed(s1) /\ SameNews(s, s1) /\ s1.usage = usage
      /\ s1.ctxLimit = s.ctxLimit /\ s1.forked = s.forked /\ s1.forks = s.forks
  BY <1>2, UsageDoes
<1>4. /\ Computed(b) /\ SameNews(t, b) /\ b.usage = usage
      /\ b.ctxLimit = t.ctxLimit /\ b.forked = t.forked /\ b.forks = t.forks
  <2> HIDE DEF t, b
  <2> QED
    BY <1>1, <1>2, UsageDoes
<1> HIDE DEF usage, s1, b
<1>5. SameNews(s1, s)
  BY <1>3 DEF SameNews
<1>6. /\ SameNews(a, t) /\ a.usage = s1.usage /\ a.ctxLimit = s1.ctxLimit
      /\ t.usage = s.usage /\ t.ctxLimit = s.ctxLimit
      /\ (s1.forked = s.forked /\ s1.forks = s.forks => a.forked = t.forked /\ a.forks = t.forks)
      /\ (Computed(s1) => Computed(a))
  BY <1>1, <1>5, NewsDoes
<1> HIDE DEF a, t
<1>7. SameSource(a, b) /\ Computed(a)
  BY <1>3, <1>4, <1>6 DEF SameSource
<1>8. SameFigures(a, b)
  BY <1>4, <1>7, ComputedAlike
<1>9. SameNews(a, b)
  BY <1>4, <1>6 DEF SameNews
<1>10. RailOf(a) = RailOf(b)
  BY <1>8, <1>9 DEF RailOf, SameFigures, SameNews
<1> QED
  BY <1>10 DEF a, b, s1, t

-----------------------------------------------------------------------------
(* Chunks *)

LEMMA AppendIs ==
  ASSUME NEW S, NEW q \in Seq(S), NEW x \in S
  PROVE  Append(q, x) = [i \in 1..(Len(q) + 1) |-> IF i = Len(q) + 1 THEN x ELSE q[i]]
<1> DEFINE r == Append(q, x)
           n == Len(q)
           v(i) == IF i = n + 1 THEN x ELSE q[i]
<1>1. /\ n \in Nat /\ r \in Seq(S) /\ Len(r) = n + 1 /\ r[n + 1] = x
      /\ \A i \in 1..n : r[i] = q[i]
  OBVIOUS
<1>2. r = [i \in 1..(n + 1) |-> r[i]]
  <2> HIDE DEF r
  <2>1. IsSeq(r)
    BY <1>1 DEF IsSeq
  <2> QED
    BY <1>1, <2>1, SeqIs
<1> HIDE DEF r, n
<1>3. \A i \in 1..(n + 1) : r[i] = v(i)
  BY <1>1
<1> HIDE DEF v
<1>4. r = [i \in 1..(n + 1) |-> v(i)]
  BY <1>2, <1>3
<1> QED
  BY <1>4 DEF r, n, v

LEMMA JoinedAppend ==
  ASSUME NEW S, Newline \in S, NEW lines \in Seq(Seq(S)), NEW line \in Seq(S)
  PROVE  Joined(Append(lines, line))
         = Joined(lines) \o ((IF lines = <<>> THEN <<>> ELSE <<Newline>>) \o line)
<1> DEFINE w(q, i) == (IF i = 1 THEN <<>> ELSE <<Newline>>) \o q[i]
           more == Append(lines, line)
           n == Len(lines)
           r == [i \in DOMAIN lines |-> w(lines, i)]
           u == [i \in DOMAIN more |-> w(more, i)]
           x == (IF lines = <<>> THEN <<>> ELSE <<Newline>>) \o line
<1>1. /\ n \in Nat /\ DOMAIN lines = 1..n /\ DOMAIN more = 1..(n + 1)
      /\ more[n + 1] = line /\ \A i \in 1..n : more[i] = lines[i] /\ lines[i] \in Seq(S)
  OBVIOUS
<1>2. n = 0 <=> lines = <<>>
  BY EmptySeq
<1>3. Joined(lines) = FlattenSeq(r) /\ Joined(more) = FlattenSeq(u)
  BY DEF Joined
<1> HIDE DEF more, n
<1>4. ASSUME NEW i \in 1..n PROVE w(lines, i) \in Seq(S) /\ w(more, i) = w(lines, i)
  <2> DEFINE sep == IF i = 1 THEN <<>> ELSE <<Newline>>
             l == lines[i]
  <2>1. sep \in Seq(S) /\ l \in Seq(S) /\ more[i] = l
    BY <1>1
  <2> HIDE DEF sep, l
  <2>2. sep \o l \in Seq(S)
    BY <2>1
  <2> QED
    BY <2>1, <2>2 DEF sep, l
<1>5. x \in Seq(S)
  OBVIOUS
<1>6. w(more, n + 1) = x
  BY <1>1, <1>2
<1> HIDE DEF w, x
<1>7. r \in [1..n -> Seq(S)]
  BY <1>1, <1>4
<1>8. r \in Seq(Seq(S)) /\ Len(r) = n
  BY <1>1, <1>7
<1>9. u = Append(r, x)
  <2>1. \A i \in 1..(n + 1) : i \in 1..n \/ i = n + 1
    BY <1>1
  <2>2. \A i \in 1..n : r[i] = w(more, i)
    BY <1>1, <1>4
  <2>3. Append(r, x) = [i \in 1..(n + 1) |-> IF i = n + 1 THEN x ELSE r[i]]
    BY <1>1, <1>5, <1>8
  <2> HIDE DEF r
  <2>4. \A i \in 1..(n + 1) : w(more, i) = IF i = n + 1 THEN x ELSE r[i]
    BY <1>6, <2>1, <2>2
  <2> QED
    BY <1>1, <2>3, <2>4
<1> HIDE DEF r, u
<1>10. FlattenSeq(u) = FlattenSeq(r) \o x
  BY <1>5, <1>8, <1>9, FlattenIs, Joining!FlattenAppend
<1> QED
  BY <1>3, <1>10 DEF more, x

LEMMA JoinedAddWord ==
  ASSUME NEW S, Newline \in S, NEW lines \in Seq(Seq(S)), lines # <<>>, NEW word \in S
  PROVE  Joined(AddWord(lines, word)) = Append(Joined(lines), word)
<1>1. Joined(lines) \in Seq(S)
  BY JoinedType
<1>2. \A a, b \in Seq(S) : a \o Append(b, word) = Append(a \o b, word)
  OBVIOUS
<1>3. CASE word = Newline
  <2>1. <<>> \in Seq(S) /\ <<Newline>> \o <<>> = <<word>>
    BY <1>3
  <2> DEFINE none == <<>>
             sep == IF lines = <<>> THEN <<>> ELSE <<Newline>>
  <2>1a. none \in Seq(S) /\ sep \o none = <<word>>
    BY <2>1
  <2>1b. Append(lines, <<>>) = Append(lines, none)
    OBVIOUS
  <2>1c. Joined(Append(lines, none)) = Joined(lines) \o (sep \o none)
    <3> HIDE DEF none
    <3> QED
      BY <2>1a, JoinedAppend
  <2>2. Joined(Append(lines, <<>>)) = Joined(lines) \o <<word>>
    BY <2>1a, <2>1b, <2>1c, Zenon
  <2>3. Joined(lines) \o <<word>> = Append(Joined(lines), word)
    BY <1>1
  <2> QED
    BY <1>3, <2>2, <2>3 DEF AddWord
<1>4. CASE word # Newline
  <2>1. PICK rest \in Seq(Seq(S)), line \in Seq(S) : lines = Append(rest, line)
    BY SequenceEmptyOrAppend
  <2> DEFINE more == Append(line, word)
             sep == IF rest = <<>> THEN <<>> ELSE <<Newline>>
  <2>2. more \in Seq(S) /\ sep \in Seq(S)
    OBVIOUS
  <2>3. AddWord(lines, word) = Append(rest, more)
    <3> DEFINE n == Len(rest)
    <3>1. /\ n \in Nat /\ Len(lines) = n + 1 /\ lines[n + 1] = line
          /\ lines = [i \in 1..(n + 1) |-> IF i = n + 1 THEN line ELSE rest[i]]
      <4> DEFINE L == Seq(S)
      <4>1. rest \in Seq(L) /\ line \in L
        OBVIOUS
      <4> HIDE DEF L
      <4> QED
        BY <2>1, <4>1, AppendIs
    <3>2. AddWord(lines, word) = [lines EXCEPT ![n + 1] = more]
      BY <1>4, <3>1 DEF AddWord
    <3>3. Append(rest, more) = [i \in 1..(n + 1) |-> IF i = n + 1 THEN more ELSE rest[i]]
      <4> DEFINE L == Seq(S)
      <4>1. rest \in Seq(L) /\ more \in L
        BY <2>2
      <4> HIDE DEF L, more
      <4> QED
        BY <4>1, AppendIs
    <3> HIDE DEF n, more
    <3>4. [lines EXCEPT ![n + 1] = more] = [i \in 1..(n + 1) |-> IF i = n + 1 THEN more ELSE rest[i]]
      BY <3>1
    <3> QED
      BY <3>2, <3>3, <3>4 DEF n
  <2>4. Joined(lines) = Joined(rest) \o (sep \o line)
    BY <2>1, JoinedAppend
  <2>5. Joined(Append(rest, more)) = Joined(rest) \o (sep \o more)
    BY <2>2, JoinedAppend
  <2>6. Joined(rest) \in Seq(S) /\ sep \o line \in Seq(S)
    BY <2>2, JoinedType
  <2> HIDE DEF sep
  <2>7. sep \o more = Append(sep \o line, word)
    BY <1>2, <2>2
  <2>8. Joined(rest) \o Append(sep \o line, word) = Append(Joined(rest) \o (sep \o line), word)
    BY <1>2, <2>6
  <2> QED
    BY <2>3, <2>4, <2>5, <2>7, <2>8
<1> QED
  BY <1>3, <1>4

\* The paragraphs of a text, joined, are the text.
LEMMA ParagraphsJoin ==
  ASSUME NEW S, Newline \in S, NEW text \in Seq(S)
  PROVE  Joined(paragraphs(text)) = text
<1> DEFINE T == {q \in Seq(S) : Joined(paragraphs(q)) = q}
           one == <<<<>>>>
<1>1. <<>> \in T
  <2>1. paragraphs(<<>>) = one
    BY ParagraphsIs, Joining!FoldEmpty
  <2>2. <<>> \in Seq(Seq(S)) /\ <<>> \in Seq(S) /\ one = Append(<<>>, <<>>)
    OBVIOUS
  <2>3. Joined(Append(<<>>, <<>>)) = Joined(<<>>) \o (<<>> \o <<>>)
    BY <2>2, JoinedAppend
  <2>4. Joined(<<>>) = <<>>
    <3>1. DOMAIN <<>> = {}
      OBVIOUS
    <3>2. [i \in DOMAIN <<>> |-> (IF i = 1 THEN <<>> ELSE <<Newline>>) \o <<>>[i]] = <<>>
      BY <3>1
    <3> QED
      BY <3>2, FlattenIs, Joining!FlattenEmpty DEF Joined
  <2>5. <<>> \o (<<>> \o <<>>) = <<>>
    OBVIOUS
  <2> QED
    BY <2>1, <2>2, <2>3, <2>4, <2>5
<1>2. ASSUME NEW q \in Seq(S), NEW word \in S, q \in T PROVE Append(q, word) \in T
  <2>1. paragraphs(Append(q, word)) = AddWord(paragraphs(q), word)
    BY ParagraphsIs, Joining!FoldAppend
  <2>2. paragraphs(q) \in Seq(Seq(S)) /\ paragraphs(q) # <<>>
    BY ParagraphsType
  <2>3. Joined(AddWord(paragraphs(q), word)) = Append(Joined(paragraphs(q)), word)
    BY <2>2, JoinedAddWord
  <2> QED
    BY <1>2, <2>1, <2>3
<1> HIDE DEF T
<1>3. Seq(S) \subseteq T
  BY <1>1, <1>2, Joining!SeqSetInduction
<1> QED
  BY <1>3 DEF T

\* A text continued by two chunks is the text continued by both at once.
LEMMA ContinuedTwice ==
  ASSUME NEW lines, IsLines(lines), NEW a \in Seq(STRING), NEW b \in Seq(STRING)
  PROVE  Continued(Continued(lines, a), b) = Continued(lines, a \o b)
<1>1. PICK S : lines \in Seq(Seq(S))
  BY LinesAre
<1> DEFINE T == S \cup STRING \cup {Newline}
<1>2. Newline \in T /\ a \in Seq(T) /\ b \in Seq(T)
  OBVIOUS
<1>3. lines \in Seq(Seq(T))
  <2>1. Seq(S) \subseteq Seq(T)
    OBVIOUS
  <2> HIDE DEF T
  <2>2. lines \in [1..Len(lines) -> Seq(T)]
    BY <1>1, <2>1
  <2>3. Len(lines) \in Nat
    BY <1>1
  <2> QED
    BY <2>2, <2>3
<1> HIDE DEF T
<1> DEFINE text == Joined(lines)
<1>4. text \in Seq(T)
  BY <1>2, <1>3, JoinedType
<1> HIDE DEF text
<1>5. text \o a \in Seq(T)
  BY <1>2, <1>4
<1>6. Joined(paragraphs(text \o a)) = text \o a
  BY <1>2, <1>5, ParagraphsJoin
<1>7. (text \o a) \o b = text \o (a \o b)
  <2>1. \A x, y, z \in Seq(T) : (x \o y) \o z = x \o (y \o z)
    BY ConcatAssociative
  <2> QED
    BY <1>2, <1>4, <2>1, Zenon
<1> QED
  BY <1>6, <1>7 DEF Continued, text

\* A chunk continues the text that stands in its block.
LEMMA DeltaDoes ==
  ASSUME NEW s, Good(s), NEW e \in AgentDelta
  PROVE  LET t == block(s, e.block, "AGENT", "agent", <<>>)
             v == applyAgentDelta(s, e)
         IN  /\ BlockOf(v, e.block).lines = Continued(BlockOf(t, e.block).lines, e.text)
             /\ e.block \in DOMAIN v.order
             /\ IsLines(BlockOf(t, e.block).lines)
<1> DEFINE t == block(s, e.block, "AGENT", "agent", <<>>)
           lines == Continued(BlockOf(t, e.block).lines, e.text)
           v == Rewrite(t, e.block, lines)
<1>1. /\ Steps(s, t) /\ SameRest(s, t) /\ e.block \in DOMAIN t.order /\ Edited(t, t, e.block)
  BY OpenedKeeps DEF Good
<1>2. applyAgentDelta(s, e) = v
  BY DEF applyAgentDelta
<1>3. IsLines(BlockOf(t, e.block).lines)
  <2> HIDE DEF t
  <2> QED
    BY <1>1, BlockLines DEF Steps
<1> HIDE DEF t
<1>4. IsLines(lines)
  <2>1. e.text \in Seq(STRING)
    BY DEF AgentDelta, Prose
  <2> QED
    BY <1>3, <2>1, ContinuedLines
<1> HIDE DEF lines
<1>5. v.order = t.order /\ BlockOf(v, e.block).lines = lines
  BY <1>1, <1>4, OpenedRewritten DEF Good
<1> HIDE DEF v
<1> QED
  BY <1>1, <1>2, <1>3, <1>5 DEF t, lines

LEMMA OneChunk ==
  ASSUME NEW s, Good(s), NEW e \in AgentDelta, NEW f \in AgentDelta, e.block = f.block
  PROVE  BlockOf(Apply(Apply(s, e), f), e.block).lines
         = BlockOf(Apply(s, [e EXCEPT !.text = @ \o f.text]), e.block).lines
<1> DEFINE ref == e.block
           t == block(s, ref, "AGENT", "agent", <<>>)
           L == BlockOf(t, ref).lines
           v == applyAgentDelta(s, e)
           g == [e EXCEPT !.text = @ \o f.text]
<1>1. /\ e.kind = "AgentDelta" /\ f.kind = "AgentDelta" /\ e.text \in Seq(STRING)
      /\ f.text \in Seq(STRING)
      /\ g \in AgentDelta /\ g.kind = "AgentDelta" /\ g.block = ref /\ g.text = e.text \o f.text
  <2>1. /\ e = [kind |-> "AgentDelta", block |-> e.block, text |-> e.text] /\ e.block \in Ref
        /\ e.text \in Seq(STRING) /\ f.text \in Seq(STRING) /\ f.kind = "AgentDelta"
    BY DEF AgentDelta, Prose
  <2> DEFINE both == e.text \o f.text
  <2>2. both \in Seq(STRING)
    BY <2>1
  <2>3. g = [e EXCEPT !.text = both]
    BY <2>1
  <2> HIDE DEF both, g
  <2>4. g = [kind |-> "AgentDelta", block |-> e.block, text |-> both]
    BY <2>1, <2>3
  <2>5. g \in AgentDelta
    BY <2>1, <2>2, <2>4 DEF AgentDelta, Prose
  <2> QED
    BY <2>1, <2>4, <2>5 DEF both
<1>2. Apply(s, e) = v /\ Apply(v, f) = applyAgentDelta(v, f) /\ Apply(s, g) = applyAgentDelta(s, g)
  <2> HIDE DEF g, v
  <2>1. Apply(s, e) = applyAgentDelta(s, e)
    BY <1>1 DEF Apply
  <2>2. Apply(v, f) = applyAgentDelta(v, f) /\ Apply(s, g) = applyAgentDelta(s, g)
    BY <1>1 DEF Apply
  <2> QED
    BY <2>1, <2>2 DEF v
<1>3. BlockOf(v, ref).lines = Continued(L, e.text) /\ ref \in DOMAIN v.order /\ IsLines(L)
  BY DeltaDoes
<1>4. Good(v)
  <2>1. e \in Event
    BY DEF Event
  <2> QED
    BY <1>2, <2>1, ApplyGoes
<1> HIDE DEF v
<1>5. block(v, ref, "AGENT", "agent", <<>>) = v
  BY <1>3 DEF block
<1>6. BlockOf(applyAgentDelta(v, f), ref).lines = Continued(BlockOf(v, ref).lines, f.text)
  <2>1. BlockOf(applyAgentDelta(v, f), f.block).lines
        = Continued(BlockOf(block(v, f.block, "AGENT", "agent", <<>>), f.block).lines, f.text)
    BY <1>4, DeltaDoes
  <2>2. f.block = ref
    OBVIOUS
  <2> QED
    BY <1>5, <2>1, <2>2
<1>7. BlockOf(applyAgentDelta(s, g), ref).lines = Continued(L, e.text \o f.text)
  <2> HIDE DEF g
  <2>1. BlockOf(applyAgentDelta(s, g), g.block).lines
        = Continued(BlockOf(block(s, g.block, "AGENT", "agent", <<>>), g.block).lines, g.text)
    BY <1>1, DeltaDoes
  <2> QED
    BY <1>1, <2>1
<1> HIDE DEF L
<1>8. Continued(Continued(L, e.text), f.text) = Continued(L, e.text \o f.text)
  BY <1>1, <1>3, ContinuedTwice
<1> HIDE DEF g
<1>9. BlockOf(Apply(Apply(s, e), f), ref).lines = BlockOf(Apply(s, g), ref).lines
  BY <1>2, <1>3, <1>6, <1>7, <1>8
<1> QED
  BY <1>9 DEF g

\* How the same news arrives does not show: neither the order of the rail's
\* events nor where a message was cut into chunks (apply.go:132-159,490-509).
THEOREM ArrivalMakesNoDifference == Spec => []ArrivalDoesNotShow
<1>1. IInv => RailOrderFree
  <2>1. ASSUME IInv, NEW e \in Events, NEW f \in Events, e.kind = "UsageUpdated",
               f.kind \in RailKinds, f.kind # "UsageUpdated"
        PROVE  RailOf(Apply(Apply(session, e), f)) = RailOf(Apply(Apply(session, f), e))
    BY <2>1, RailEitherWay, ClientAssumption DEF IInv
  <2> QED
    BY <2>1 DEF RailOrderFree
<1>2. IInv => ChunksJoin
  <2>1. ASSUME IInv, NEW e \in Events, NEW f \in Events, e.kind = "AgentDelta",
               f.kind = "AgentDelta", e.block = f.block
        PROVE  BlockOf(Apply(Apply(session, e), f), e.block).lines
               = BlockOf(Apply(session, [e EXCEPT !.text = @ \o f.text]), e.block).lines
    <3>1. e \in AgentDelta /\ f \in AgentDelta
      BY <2>1, KindOf, ClientAssumption
    <3> QED
      BY <2>1, <3>1, OneChunk DEF IInv
  <2> QED
    BY <2>1 DEF ChunksJoin
<1>3. IInv => ArrivalDoesNotShow
  BY <1>1, <1>2 DEF ArrivalDoesNotShow
<1> QED
  BY <1>3, SpecIInv, PTL

-----------------------------------------------------------------------------
(* The pane's rows *)

Taking == INSTANCE Folding WITH Op <- Pane!Take

LEMMA WalkIsFold ==
  ASSUME NEW base, NEW q
  PROVE  Pane!FoldLeft(Pane!Take, base, q) = Taking!Fold(base, q)
BY DEF Taking!Fold, Taking!FoldLeft, Pane!FoldLeft, Taking!MapThenFoldSet,
       Pane!MapThenFoldSet, Taking!Max, Pane!Max

LEMMA FlatIs ==
  ASSUME NEW q
  PROVE  Pane!FlattenSeq(q) = Taking!FlattenSeq(q)
BY DEF Pane!FlattenSeq, Taking!FlattenSeq

LEMMA MadeOf ==
  ASSUME NEW S, NEW n \in Nat, NEW q, q = [i \in 1..n |-> q[i]],
         \A i \in 1..n : q[i] \in S
  PROVE  q \in Seq(S) /\ Len(q) = n
<1>1. q \in [1..n -> S]
  OBVIOUS
<1> QED
  BY <1>1

LEMMA ReverseIs ==
  ASSUME NEW S, NEW q \in Seq(S), NEW n, n = Len(q)
  PROVE  /\ n \in Nat /\ Pane!Reverse(q) \in Seq(S) /\ Len(Pane!Reverse(q)) = n
         /\ \A i \in 1..n : Pane!Reverse(q)[i] = q[n - i + 1]
<1> DEFINE r == Pane!Reverse(q)
<1>1. n \in Nat /\ \A i \in 1..n : n - i + 1 \in 1..n /\ q[i] \in S
  OBVIOUS
<1>2. r = [i \in 1..n |-> q[n - i + 1]]
  BY DEF Pane!Reverse
<1> HIDE DEF r
<1>3. \A i \in 1..n : r[i] = q[n - i + 1] /\ r[i] \in S
  BY <1>1, <1>2
<1>4. r = [i \in 1..n |-> r[i]]
  BY <1>2
<1>5. r \in Seq(S) /\ Len(r) = n
  BY <1>1, <1>3, <1>4, MadeOf
<1> QED
  BY <1>1, <1>3, <1>5 DEF r

LEMMA JoinIs ==
  ASSUME NEW S, NEW a \in Seq(S), NEW b \in Seq(S), NEW m, m = Len(a), NEW n, n = Len(b)
  PROVE  /\ m \in Nat /\ n \in Nat /\ a \o b \in Seq(S) /\ Len(a \o b) = m + n
         /\ \A i \in 1..m : (a \o b)[i] = a[i]
         /\ \A i \in 1..n : (a \o b)[m + i] = b[i]
OBVIOUS

LEMMA ReverseJoin ==
  ASSUME NEW S, NEW a \in Seq(S), NEW b \in Seq(S)
  PROVE  Pane!Reverse(a \o b) = Pane!Reverse(b) \o Pane!Reverse(a)
<1>0. PICK m, n : m = Len(a) /\ n = Len(b)
  OBVIOUS
<1> DEFINE c == a \o b
           ra == Pane!Reverse(a)
           rb == Pane!Reverse(b)
           left == Pane!Reverse(c)
           right == rb \o ra
           k == m + n
<1>1. /\ m \in Nat /\ n \in Nat /\ c \in Seq(S) /\ k = Len(c)
      /\ \A i \in 1..m : c[i] = a[i]
      /\ \A i \in 1..n : c[m + i] = b[i]
  BY <1>0, JoinIs
<1>2. /\ ra \in Seq(S) /\ m = Len(ra) /\ \A i \in 1..m : ra[i] = a[m - i + 1]
      /\ rb \in Seq(S) /\ n = Len(rb) /\ \A i \in 1..n : rb[i] = b[n - i + 1]
  BY <1>0, ReverseIs
<1> HIDE DEF c, k
<1>3. left \in Seq(S) /\ Len(left) = k /\ \A i \in 1..k : left[i] = c[k - i + 1]
  BY <1>1, ReverseIs
<1> HIDE DEF ra, rb
<1>4. /\ right \in Seq(S) /\ Len(right) = n + m
      /\ \A i \in 1..n : right[i] = rb[i]
      /\ \A i \in 1..m : right[n + i] = ra[i]
  BY <1>2, JoinIs
<1> HIDE DEF left, right
<1>5. ASSUME NEW i \in 1..k PROVE left[i] = right[i]
  <2>1. CASE i <= n
    <3>1. i \in 1..n /\ n - i + 1 \in 1..n /\ m + (n - i + 1) = k - i + 1
      BY <1>1, <2>1 DEF k
    <3>2. left[i] = c[m + (n - i + 1)]
      BY <1>3, <3>1
    <3>3. c[m + (n - i + 1)] = b[n - i + 1]
      BY <1>1, <3>1, Zenon
    <3>4. right[i] = b[n - i + 1]
      BY <1>2, <1>4, <3>1
    <3> QED
      BY <3>2, <3>3, <3>4
  <2>2. CASE ~(i <= n)
    <3> DEFINE j == i - n
    <3>1. j \in 1..m /\ n + j = i /\ m - j + 1 \in 1..m /\ m - j + 1 = k - i + 1
      BY <1>1, <2>2 DEF k
    <3> HIDE DEF j
    <3>2. left[i] = c[m - j + 1]
      BY <1>3, <3>1
    <3>3. c[m - j + 1] = a[m - j + 1]
      BY <1>1, <3>1, Zenon
    <3>4. right[n + j] = ra[j] /\ ra[j] = a[m - j + 1]
      BY <1>2, <1>4, <3>1, Zenon
    <3> QED
      BY <3>1, <3>2, <3>3, <3>4
  <2> QED
    BY <2>1, <2>2
<1>6. k = n + m
  BY <1>1 DEF k
<1>7. left = right
  BY <1>3, <1>4, <1>5, <1>6, SeqEqual
<1> QED
  BY <1>7 DEF left, right, c, ra, rb

\* Sequences turned around, one by one and as a whole.
Back(q) == [k \in 1..Len(q) |-> Pane!Reverse(q[Len(q) + 1 - k])]

LEMMA BackType ==
  ASSUME NEW S, NEW q \in Seq(Seq(S))
  PROVE  Back(q) \in Seq(Seq(S)) /\ Len(Back(q)) = Len(q)
<1> DEFINE n == Len(q)
           r == Back(q)
<1>1. n \in Nat /\ \A k \in 1..n : n + 1 - k \in 1..n
  OBVIOUS
<1>2. \A k \in 1..n : q[k] \in Seq(S)
  OBVIOUS
<1>3. r = [k \in 1..n |-> Pane!Reverse(q[n + 1 - k])]
  BY DEF Back
<1> HIDE DEF r, n
<1>4. \A k \in 1..n : Pane!Reverse(q[n + 1 - k]) \in Seq(S)
  BY <1>1, <1>2, ReverseIs
<1>5. r = [k \in 1..n |-> r[k]] /\ \A k \in 1..n : r[k] \in Seq(S)
  BY <1>3, <1>4
<1>6. r \in Seq(Seq(S)) /\ Len(r) = n
  BY <1>1, <1>5, MadeOf
<1> QED
  BY <1>6 DEF r, n

LEMMA BackAppend ==
  ASSUME NEW S, NEW q \in Seq(Seq(S)), NEW x \in Seq(S)
  PROVE  Back(Append(q, x)) = <<Pane!Reverse(x)>> \o Back(q)
<1> DEFINE L == Seq(S)
           n == Len(q)
           r == Append(q, x)
           rx == Pane!Reverse(x)
           left == Back(r)
           one == <<rx>>
           right == one \o Back(q)
<1>1. q \in Seq(L) /\ x \in L /\ rx \in L /\ r \in Seq(L)
  BY ReverseIs
<1>2. left \in Seq(L) /\ Len(left) = Len(r) /\ Back(q) \in Seq(L) /\ Len(Back(q)) = n
  <2> HIDE DEF r
  <2> QED
    BY <1>1, BackType
<1> HIDE DEF L, rx
<1>3. /\ n \in Nat /\ Len(r) = n + 1 /\ r[n + 1] = x /\ \A i \in 1..n : r[i] = q[i]
  BY <1>1
<1>4. one \in Seq(L) /\ Len(one) = 1 /\ one[1] = rx
  BY <1>1
<1> HIDE DEF one
<1>5. /\ right \in Seq(L) /\ Len(right) = n + 1 /\ right[1] = rx
      /\ \A i \in 1..n : right[1 + i] = Back(q)[i]
  <2>1. PICK u : u = Back(q)
    OBVIOUS
  <2>2. u \in Seq(L) /\ n = Len(u)
    BY <1>2, <2>1
  <2>2a. PICK d : d = 1
    OBVIOUS
  <2>2b. one \in Seq(L) /\ d = Len(one)
    BY <1>4, <2>2a
  <2> HIDE DEF n
  <2>3. /\ one \o u \in Seq(L) /\ Len(one \o u) = d + n
        /\ \A i \in 1..d : (one \o u)[i] = one[i]
        /\ \A i \in 1..n : (one \o u)[d + i] = u[i]
    BY <2>2, <2>2b, JoinIs
  <2>4. 1 \in 1..d /\ d + n = n + 1
    BY <1>3, <2>2a
  <2> QED
    BY <1>4, <2>1, <2>2a, <2>3, <2>4
<1>6. left = [k \in 1..(n + 1) |-> Pane!Reverse(r[n + 2 - k])]
  <2>1. \A k \in 1..(n + 1) : (n + 1) + 1 - k = n + 2 - k
    BY <1>3
  <2> QED
    BY <1>3, <2>1 DEF Back
<1>7. Back(q) = [k \in 1..n |-> Pane!Reverse(q[n + 1 - k])]
  BY DEF Back
<1> HIDE DEF left, right, r, n
<1>8. ASSUME NEW i \in 1..(n + 1) PROVE left[i] = right[i]
  <2>1. CASE i = 1
    <3>1. n + 2 - i = n + 1
      BY <1>3, <2>1
    <3> QED
      BY <1>3, <1>5, <1>6, <2>1, <3>1 DEF rx
  <2>2. CASE i # 1
    <3> DEFINE j == i - 1
    <3>1. j \in 1..n /\ 1 + j = i /\ n + 1 - j \in 1..n /\ n + 1 - j = n + 2 - i
      BY <1>3, <2>2
    <3> HIDE DEF j
    <3>2. right[1 + j] = Back(q)[j] /\ Back(q)[j] = Pane!Reverse(q[n + 1 - j])
      BY <1>5, <1>7, <3>1
    <3>3. left[i] = Pane!Reverse(r[n + 1 - j])
      BY <1>6, <3>1
    <3>4. r[n + 1 - j] = q[n + 1 - j]
      BY <1>3, <3>1, Zenon
    <3> QED
      BY <3>1, <3>2, <3>3, <3>4
  <2> QED
    BY <2>1, <2>2
<1>9. left = right
  BY <1>2, <1>3, <1>5, <1>8, SeqEqual
<1> QED
  BY <1>9 DEF left, right, one, rx, r

\* The pieces turned around one by one, newest first, are the whole turned
\* around.
LEMMA FlattenBack ==
  ASSUME NEW S, NEW q \in Seq(Seq(S))
  PROVE  Taking!FlattenSeq(Back(q)) = Pane!Reverse(Taking!FlattenSeq(q))
<1> DEFINE T == {r \in Seq(Seq(S)) :
                   Taking!FlattenSeq(Back(r)) = Pane!Reverse(Taking!FlattenSeq(r))}
<1>1. <<>> \in T
  <2>1. <<>> \in Seq(Seq(S)) /\ Len(<<>>) = 0 /\ 1..0 = {}
    OBVIOUS
  <2>2. Back(<<>>) = <<>>
    BY <2>1 DEF Back
  <2>3. Pane!Reverse(<<>>) = <<>>
    BY <2>1 DEF Pane!Reverse
  <2> QED
    BY <2>1, <2>2, <2>3, Taking!FlattenEmpty
<1>2. ASSUME NEW r \in Seq(Seq(S)), NEW x \in Seq(S), r \in T PROVE Append(r, x) \in T
  <2> DEFINE rx == Pane!Reverse(x)
             flat == Taking!FlattenSeq(r)
  <2>1. rx \in Seq(S) /\ flat \in Seq(S)
    BY ReverseIs, Taking!FlattenType
  <2>2. Taking!FlattenSeq(Append(r, x)) = flat \o x
    BY Taking!FlattenAppend
  <2>3. Pane!Reverse(flat \o x) = rx \o Pane!Reverse(flat)
    <3> HIDE DEF flat
    <3> QED
      BY <2>1, ReverseJoin
  <2> HIDE DEF rx
  <2>4. Taking!FlattenSeq(<<rx>>) = rx
    <3>1. <<>> \in Seq(Seq(S)) /\ <<rx>> = Append(<<>>, rx)
      OBVIOUS
    <3>2. Taking!FlattenSeq(Append(<<>>, rx)) = Taking!FlattenSeq(<<>>) \o rx
      BY <2>1, <3>1, Taking!FlattenAppend
    <3> QED
      BY <2>1, <3>1, <3>2, Taking!FlattenEmpty, ConcatEmptySeq
  <2>5. <<rx>> \in Seq(Seq(S)) /\ Back(r) \in Seq(Seq(S))
    BY <2>1, BackType
  <2>6. Taking!FlattenSeq(<<rx>> \o Back(r))
        = Taking!FlattenSeq(<<rx>>) \o Taking!FlattenSeq(Back(r))
    BY <2>5, Taking!FlattenConcat
  <2>7. Back(Append(r, x)) = <<rx>> \o Back(r)
    BY BackAppend DEF rx
  <2>8. Taking!FlattenSeq(Back(r)) = Pane!Reverse(flat)
    BY <1>2
  <2> HIDE DEF flat
  <2>9. Taking!FlattenSeq(Back(Append(r, x))) = Pane!Reverse(Taking!FlattenSeq(Append(r, x)))
    BY <2>2, <2>3, <2>4, <2>6, <2>7, <2>8
  <2>10. Append(r, x) \in Seq(Seq(S))
    OBVIOUS
  <2> QED
    BY <2>9, <2>10
<1> HIDE DEF T
<1>3. Seq(Seq(S)) \subseteq T
  BY <1>1, <1>2, Taking!SeqSetInduction
<1> QED
  BY <1>3 DEF T

\* The first n rows there are.
First(q, n) == SubSeq(q, 1, Pane!Smaller(Len(q), n))

LEMMA FirstIs ==
  ASSUME NEW S, NEW q \in Seq(S), NEW n \in Nat, NEW m, m = Pane!Smaller(Len(q), n)
  PROVE  /\ m \in 0..Len(q) /\ m <= n /\ First(q, n) \in Seq(S) /\ Len(First(q, n)) = m
         /\ \A i \in 1..m : First(q, n)[i] = q[i]
<1>1. m \in 0..Len(q) /\ m <= n
  BY DEF Pane!Smaller
<1>2. First(q, n) = SubSeq(q, 1, m)
  BY DEF First
<1>3. SubSeq(q, 1, m) \in Seq(S) /\ Len(SubSeq(q, 1, m)) = m
      /\ \A i \in 1..m : SubSeq(q, 1, m)[i] = q[i]
  BY <1>1
<1> QED
  BY <1>1, <1>2, <1>3

LEMMA FirstJoin ==
  ASSUME NEW S, NEW a \in Seq(S), NEW b \in Seq(S), NEW n \in Nat
  PROVE  First(a \o b, n) = First(a, n) \o First(b, n - Len(First(a, n)))
         /\ n - Len(First(a, n)) \in Nat
<1>0. PICK la, lb, k, l, m :
        /\ la = Len(a) /\ lb = Len(b) /\ k = Pane!Smaller(la, n)
        /\ l = Pane!Smaller(lb, n - k) /\ m = Pane!Smaller(la + lb, n)
  OBVIOUS
<1> DEFINE c == a \o b
           fa == First(a, n)
           fb == First(b, n - k)
           left == First(c, n)
           right == fa \o fb
<1>1. /\ la \in Nat /\ lb \in Nat /\ c \in Seq(S) /\ Len(c) = la + lb
      /\ \A i \in 1..la : c[i] = a[i]
      /\ \A i \in 1..lb : c[la + i] = b[i]
  BY <1>0, JoinIs
<1>2. /\ k \in 0..la /\ k <= n /\ fa \in Seq(S) /\ k = Len(fa)
      /\ \A i \in 1..k : fa[i] = a[i]
  BY <1>0, FirstIs
<1>3. n - k \in Nat
  BY <1>1, <1>2
<1>4. /\ l \in 0..lb /\ l <= n - k /\ fb \in Seq(S) /\ l = Len(fb)
      /\ \A i \in 1..l : fb[i] = b[i]
  <2>1. PICK d : d = n - k
    OBVIOUS
  <2>2. d \in Nat /\ l = Pane!Smaller(Len(b), d)
    BY <1>0, <1>3, <2>1
  <2> DEFINE g == First(b, d)
  <2>3. /\ l \in 0..Len(b) /\ l <= d /\ g \in Seq(S) /\ Len(g) = l
        /\ \A i \in 1..l : g[i] = b[i]
    BY <2>2, FirstIs
  <2>4. fb = g
    BY <2>1
  <2> HIDE DEF g, fb
  <2> QED
    BY <1>0, <2>1, <2>3, <2>4
<1> HIDE DEF c, fa, fb
<1>5. /\ left \in Seq(S) /\ m = Len(left) /\ \A i \in 1..m : left[i] = c[i]
  <2>1. m = Pane!Smaller(Len(c), n) /\ c \in Seq(S)
    BY <1>0, <1>1
  <2> QED
    BY <2>1, FirstIs
<1>6. /\ right \in Seq(S) /\ Len(right) = k + l
      /\ \A i \in 1..k : right[i] = fa[i]
      /\ \A i \in 1..l : right[k + i] = fb[i]
  BY <1>2, <1>4, JoinIs
<1> HIDE DEF left, right
<1>7. m = k + l /\ (l > 0 => k = la) /\ m \in Nat
  <2>1. la \in Nat /\ lb \in Nat /\ k \in Nat /\ l \in Nat
    BY <1>1, <1>2, <1>4
  <2>2. /\ k = (IF la < n THEN la ELSE n)
        /\ l = (IF lb < n - k THEN lb ELSE n - k)
        /\ m = (IF la + lb < n THEN la + lb ELSE n)
    BY <1>0 DEF Pane!Smaller
  <2> QED
    BY <2>1, <2>2
<1>8. ASSUME NEW i \in 1..m PROVE left[i] = right[i]
  <2>1. CASE i <= k
    <3>1. i \in 1..k /\ i \in 1..la
      BY <1>1, <1>2, <1>7, <2>1
    <3> QED
      BY <1>1, <1>2, <1>5, <1>6, <3>1
  <2>2. CASE ~(i <= k)
    <3> DEFINE j == i - k
    <3>1. j \in 1..l /\ j \in 1..lb /\ k + j = i /\ k = la
      BY <1>1, <1>2, <1>4, <1>7, <2>2
    <3> HIDE DEF j
    <3>2. left[i] = c[la + j] /\ c[la + j] = b[j]
      BY <1>1, <1>5, <3>1
    <3>3. right[k + j] = fb[j] /\ fb[j] = b[j]
      BY <1>4, <1>6, <3>1, Zenon
    <3> QED
      BY <3>1, <3>2, <3>3
  <2> QED
    BY <2>1, <2>2
<1>9. left = right
  BY <1>5, <1>6, <1>7, <1>8, SeqEqual
<1> QED
  BY <1>2, <1>3, <1>9 DEF left, right, c, fa, fb

\* The walk takes the first rows of what it walks over.
LEMMA WalkTakes ==
  ASSUME NEW S, NEW q \in Seq(Seq(S)), NEW need \in Nat
  PROVE  Taking!Fold([need |-> need, rows |-> <<>>], q)
         = [need |-> need, rows |-> First(Taking!FlattenSeq(q), need)]
<1> DEFINE start == [need |-> need, rows |-> <<>>]
           Done(r) == [need |-> need, rows |-> First(Taking!FlattenSeq(r), need)]
           T == {r \in Seq(Seq(S)) : Taking!Fold(start, r) = Done(r)}
<1>1. <<>> \in T
  <2>1. <<>> \in Seq(Seq(S)) /\ <<>> \in Seq(S) /\ Len(<<>>) = 0
    OBVIOUS
  <2>2. First(<<>>, need) = <<>>
    <3>1. Pane!Smaller(0, need) = 0
      BY DEF Pane!Smaller
    <3> QED
      BY <2>1, <3>1 DEF First
  <2> QED
    BY <2>1, <2>2, Taking!FoldEmpty, Taking!FlattenEmpty
<1>2. ASSUME NEW r \in Seq(Seq(S)), NEW x \in Seq(S), r \in T PROVE Append(r, x) \in T
  <2> DEFINE flat == Taking!FlattenSeq(r)
             rows == First(flat, need)
  <2>1. flat \in Seq(S)
    BY Taking!FlattenType
  <2>2. Taking!FlattenSeq(Append(r, x)) = flat \o x
    BY Taking!FlattenAppend
  <2>3. Taking!Fold(start, Append(r, x)) = Pane!Take(Taking!Fold(start, r), x)
    <3> HIDE DEF start
    <3> QED
      BY Taking!FoldAppend
  <2>4. Taking!Fold(start, r) = Done(r)
    BY <1>2
  <2> HIDE DEF flat
  <2>5. First(flat \o x, need) = rows \o First(x, need - Len(rows))
    BY <2>1, FirstJoin
  <2>6. Done(r) = [need |-> need, rows |-> rows]
    BY DEF flat
  <2> HIDE DEF rows
  <2>7. Pane!Take([need |-> need, rows |-> rows], x)
        = [need |-> need, rows |-> rows \o First(x, need - Len(rows))]
    <3> DEFINE r0 == [need |-> need, rows |-> rows]
               more == First(x, need - Len(rows))
    <3>1. r0.need = need /\ r0.rows = rows
      OBVIOUS
    <3>2. Pane!Take(r0, x) = [r0 EXCEPT !.rows = r0.rows \o First(x, r0.need - Len(r0.rows))]
      <4> HIDE DEF r0
      <4> QED
        BY DEF Pane!Take, First
    <3>3. Pane!Take(r0, x) = [r0 EXCEPT !.rows = rows \o more]
      <4> HIDE DEF r0
      <4> QED
        BY <3>1, <3>2
    <3> HIDE DEF more
    <3>4. [r0 EXCEPT !.rows = rows \o more] = [need |-> need, rows |-> rows \o more]
      <4> DEFINE all == rows \o more
      <4> HIDE DEF all
      <4>1. [r0 EXCEPT !.rows = all] = [need |-> need, rows |-> all]
        OBVIOUS
      <4> QED
        BY <4>1 DEF all
    <3> QED
      BY <3>3, <3>4 DEF more
  <2>8. Taking!Fold(start, Append(r, x)) = Done(Append(r, x))
    <3> HIDE DEF start
    <3> QED
      BY <2>2, <2>3, <2>4, <2>5, <2>6, <2>7
  <2>9. Append(r, x) \in Seq(Seq(S))
    OBVIOUS
  <2> QED
    BY <2>8, <2>9
<1> HIDE DEF T
<1>3. Seq(Seq(S)) \subseteq T
  BY <1>1, <1>2, Taking!SeqSetInduction
<1> QED
  BY <1>3 DEF T

-----------------------------------------------------------------------------
(* The transcript's rows *)

Cell == Nat \X Nat

\* Block i under the blank rows before it, as Flattened and Upwards have it.
Piece(i, n, gap) == (IF i = 1 THEN <<>> ELSE Pane!Blanks(gap)) \o Pane!Block(i, n)

Pieces(blocks, gap) == [i \in 1..Len(blocks) |-> Piece(i, blocks[i], gap)]

LEMMA BlanksAre ==
  ASSUME NEW n \in Nat
  PROVE  Pane!Blanks(n) \in Seq(Cell) /\ Len(Pane!Blanks(n)) = n
         /\ Pane!Reverse(Pane!Blanks(n)) = Pane!Blanks(n)
<1> DEFINE b == Pane!Blanks(n)
<1>1. b = [i \in 1..n |-> b[i]] /\ \A i \in 1..n : b[i] = <<0, 0>>
  BY DEF Pane!Blanks
<1>2. <<0, 0>> \in Cell
  BY DEF Cell
<1> HIDE DEF b
<1>3. b \in Seq(Cell) /\ Len(b) = n
  BY <1>1, <1>2, MadeOf
<1>4. /\ Pane!Reverse(b) \in Seq(Cell) /\ Len(Pane!Reverse(b)) = n
      /\ \A i \in 1..n : Pane!Reverse(b)[i] = b[n - i + 1]
  BY <1>3, ReverseIs
<1>5. \A i \in 1..n : n - i + 1 \in 1..n
  OBVIOUS
<1>6. Pane!Reverse(b) = b
  BY <1>1, <1>3, <1>4, <1>5, SeqEqual
<1> QED
  BY <1>3, <1>6 DEF b

LEMMA BlockRows ==
  ASSUME NEW i \in Nat, NEW n \in Nat
  PROVE  /\ Pane!Block(i, n) \in Seq(Cell) /\ Len(Pane!Block(i, n)) = n
         /\ Pane!Reverse(Pane!Block(i, n)) = [j \in 1..n |-> <<i, n + 1 - j>>]
<1> DEFINE b == Pane!Block(i, n)
           r == [j \in 1..n |-> <<i, n + 1 - j>>]
<1>1. b = [j \in 1..n |-> b[j]] /\ \A j \in 1..n : b[j] = <<i, j>>
  BY DEF Pane!Block
<1>2. \A j \in 1..n : <<i, j>> \in Cell /\ n - j + 1 = n + 1 - j /\ n + 1 - j \in 1..n
  BY DEF Cell
<1> HIDE DEF b
<1>2a. \A j \in 1..n : b[j] \in Cell
  BY <1>1, <1>2, Zenon
<1>2b. b = [j \in 1..n |-> b[j]]
  BY <1>1
<1>3. b \in Seq(Cell) /\ Len(b) = n
  BY <1>2a, <1>2b, MadeOf
<1>4. Pane!Reverse(b) = [j \in 1..n |-> b[n - j + 1]]
  BY <1>3 DEF Pane!Reverse
<1>5. \A j \in 1..n : b[n - j + 1] = <<i, n + 1 - j>>
  BY <1>1, <1>2
<1>6. Pane!Reverse(b) = r
  BY <1>4, <1>5
<1> QED
  BY <1>3, <1>6 DEF b

LEMMA PieceIs ==
  ASSUME NEW i \in Nat \ {0}, NEW n \in Nat, NEW gap \in Nat
  PROVE  /\ Piece(i, n, gap) \in Seq(Cell)
         /\ Len(Piece(i, n, gap)) = (IF i = 1 THEN 0 ELSE gap) + n
         /\ Pane!Reverse(Piece(i, n, gap)) = Pane!Upwards(i, n, gap)
<1> DEFINE sep == IF i = 1 THEN <<>> ELSE Pane!Blanks(gap)
           k == IF i = 1 THEN 0 ELSE gap
           b == Pane!Block(i, n)
<1>1. k \in Nat
  OBVIOUS
<1>2. sep = Pane!Blanks(k)
  <2>1. Pane!Blanks(0) = <<>>
    <3>1. 1..0 = {}
      OBVIOUS
    <3> QED
      BY <3>1 DEF Pane!Blanks
  <2> QED
    BY <2>1
<1>3. Piece(i, n, gap) = sep \o b /\ Pane!Upwards(i, n, gap) = Pane!Reverse(b) \o Pane!Blanks(k)
  BY BlockRows DEF Piece, Pane!Upwards
<1> HIDE DEF sep, k, b
<1>4. sep \in Seq(Cell) /\ Len(sep) = k /\ Pane!Reverse(sep) = Pane!Blanks(k)
  BY <1>1, <1>2, BlanksAre
<1>5. b \in Seq(Cell) /\ Len(b) = n
  BY BlockRows DEF b
<1>6. sep \o b \in Seq(Cell) /\ Len(sep \o b) = k + n
  BY <1>4, <1>5
<1>7. Pane!Reverse(sep \o b) = Pane!Reverse(b) \o Pane!Reverse(sep)
  BY <1>4, <1>5, ReverseJoin
<1> QED
  BY <1>3, <1>4, <1>6, <1>7 DEF k

LEMMA PiecesType ==
  ASSUME NEW blocks \in Seq(Nat), NEW gap \in Nat
  PROVE  Pieces(blocks, gap) \in Seq(Seq(Cell)) /\ Len(Pieces(blocks, gap)) = Len(blocks)
<1> DEFINE n == Len(blocks)
           r == Pieces(blocks, gap)
<1>1. n \in Nat /\ \A i \in 1..n : blocks[i] \in Nat /\ i \in Nat \ {0}
  OBVIOUS
<1>2. r = [i \in 1..n |-> r[i]] /\ \A i \in 1..n : r[i] = Piece(i, blocks[i], gap)
  BY DEF Pieces
<1> HIDE DEF n, r
<1>3. \A i \in 1..n : r[i] \in Seq(Cell)
  <2>1. TAKE i \in 1..n
  <2>2. PICK b : b = blocks[i]
    OBVIOUS
  <2>3. i \in Nat \ {0} /\ b \in Nat /\ r[i] = Piece(i, b, gap)
    BY <1>1, <1>2, <2>2
  <2>4. Piece(i, b, gap) \in Seq(Cell)
    BY <2>3, PieceIs
  <2> QED
    BY <2>3, <2>4
<1>4. r \in Seq(Seq(Cell)) /\ Len(r) = n
  <2>1. r = [i \in 1..n |-> r[i]]
    BY <1>2
  <2> QED
    BY <1>1, <1>3, <2>1, MadeOf
<1> QED
  BY <1>4 DEF n, r

LEMMA FlattenedIs ==
  ASSUME NEW blocks, NEW gap
  PROVE  Pane!Flattened(blocks, gap) = Taking!FlattenSeq(Pieces(blocks, gap))
BY FlatIs DEF Pane!Flattened, Pieces, Piece

LEMMA PiecesAppend ==
  ASSUME NEW blocks \in Seq(Nat), NEW gap \in Nat, NEW x \in Nat
  PROVE  Pieces(Append(blocks, x), gap)
         = Append(Pieces(blocks, gap), Piece(Len(blocks) + 1, x, gap))
<1> DEFINE n == Len(blocks)
           more == Append(blocks, x)
           old == Pieces(blocks, gap)
           new == Piece(n + 1, x, gap)
           left == Pieces(more, gap)
<1>1. /\ n \in Nat /\ n + 1 \in Nat \ {0} /\ Len(more) = n + 1 /\ more[n + 1] = x
      /\ \A i \in 1..n : more[i] = blocks[i]
  OBVIOUS
<1>2. old \in Seq(Seq(Cell)) /\ n = Len(old) /\ \A i \in 1..n : old[i] = Piece(i, blocks[i], gap)
  BY PiecesType DEF Pieces
<1> HIDE DEF n, more
<1>3. left = [i \in 1..(n + 1) |-> Piece(i, more[i], gap)]
  BY <1>1 DEF Pieces
<1>4. new \in Seq(Cell)
  BY <1>1, PieceIs
<1> HIDE DEF old, new, left
<1> DEFINE L == Seq(Cell)
<1>5. old \in Seq(L) /\ new \in L
  BY <1>2, <1>4
<1> HIDE DEF L
<1>6. Append(old, new) = [i \in 1..(n + 1) |-> IF i = n + 1 THEN new ELSE old[i]]
  BY <1>2, <1>5, AppendIs
<1>7. ASSUME NEW i \in 1..(n + 1)
      PROVE  Piece(i, more[i], gap) = IF i = n + 1 THEN new ELSE old[i]
  <2>1. CASE i = n + 1
    BY <1>1, <2>1 DEF new
  <2>2. CASE i # n + 1
    <3>1. i \in 1..n
      BY <1>1, <2>2
    <3>2. more[i] = blocks[i] /\ old[i] = Piece(i, blocks[i], gap)
      BY <1>1, <1>2, <3>1
    <3> QED
      BY <2>2, <3>2
  <2> QED
    BY <2>1, <2>2
<1>8. left = Append(old, new)
  BY <1>3, <1>6, <1>7
<1> QED
  BY <1>8 DEF left, old, new, more, n

\* There are as many rows as are counted.
LEMMA LinesCount ==
  ASSUME NEW blocks \in Seq(Nat), NEW gap \in Nat
  PROVE  /\ Pane!Flattened(blocks, gap) \in Seq(Cell)
         /\ Len(Pane!Flattened(blocks, gap)) = Pane!Lines(blocks, gap)
<1> DEFINE flat(q) == Taking!FlattenSeq(Pieces(q, gap))
           T == {q \in Seq(Nat) : Len(flat(q)) = Pane!Lines(q, gap)}
<1>1. <<>> \in T
  <2>1. <<>> \in Seq(Nat) /\ Len(<<>>) = 0 /\ 1..0 = {}
    OBVIOUS
  <2>2. Pieces(<<>>, gap) = <<>>
    BY <2>1 DEF Pieces
  <2>3. Pane!Lines(<<>>, gap) = 0
    <3>1. Pane!FoldLeft(Pane!AddRows, 0, <<>>) = 0
      BY TallyIsFold, Tallying!FoldEmpty
    <3> QED
      BY <2>1, <3>1 DEF Pane!Lines
  <2> QED
    BY <2>1, <2>2, <2>3, Taking!FlattenEmpty
<1>2. ASSUME NEW q \in Seq(Nat), NEW x \in Nat, q \in T PROVE Append(q, x) \in T
  <2> DEFINE n == Len(q)
             more == Append(q, x)
             piece == Piece(n + 1, x, gap)
             sum == Pane!FoldLeft(Pane!AddRows, 0, q)
  <2>1. /\ n \in Nat /\ n + 1 \in Nat \ {0} /\ more \in Seq(Nat) /\ Len(more) = n + 1
    OBVIOUS
  <2>2. piece \in Seq(Cell) /\ Len(piece) = (IF n + 1 = 1 THEN 0 ELSE gap) + x
    <3> HIDE DEF n
    <3> QED
      BY <2>1, PieceIs
  <2>3. Pieces(q, gap) \in Seq(Seq(Cell)) /\ Pieces(more, gap) = Append(Pieces(q, gap), piece)
    BY PiecesType, PiecesAppend
  <2> HIDE DEF piece
  <2>4. flat(more) = flat(q) \o piece
    BY <2>2, <2>3, Taking!FlattenAppend
  <2>5. flat(q) \in Seq(Cell)
    BY <2>3, Taking!FlattenType
  <2>6. Pane!FoldLeft(Pane!AddRows, 0, more) = sum + x
    <3>1. Tallying!Fold(0, Append(q, x)) = Pane!AddRows(Tallying!Fold(0, q), x)
      BY Tallying!FoldAppend
    <3> QED
      BY <3>1, TallyIsFold DEF Pane!AddRows
  <2>7. sum \in Nat
    <3>1. 0 \in Nat /\ \A a \in Nat, rows \in Nat : Pane!AddRows(a, rows) \in Nat
      BY DEF Pane!AddRows
    <3>2. Tallying!Fold(0, q) \in Nat
      BY <3>1, Tallying!FoldType
    <3> QED
      BY <3>2, TallyIsFold
  <2>8. Pane!Lines(q, gap) = sum + (IF n > 1 THEN gap * (n - 1) ELSE 0)
    BY DEF Pane!Lines
  <2>9. Pane!Lines(more, gap) = (sum + x) + (IF n + 1 > 1 THEN gap * ((n + 1) - 1) ELSE 0)
    <3> HIDE DEF sum, more, n
    <3> QED
      BY <2>1, <2>6 DEF Pane!Lines
  <2>10. Len(flat(q)) = Pane!Lines(q, gap)
    BY <1>2
  <2> HIDE DEF sum, more, n
  <2>11. Len(flat(more)) = Len(flat(q)) + Len(piece)
    <3>1. PICK u, v : u = flat(q) /\ v = piece
      OBVIOUS
    <3>2. u \in Seq(Cell) /\ v \in Seq(Cell) /\ flat(more) = u \o v
      BY <2>2, <2>4, <2>5, <3>1
    <3>3. Len(u \o v) = Len(u) + Len(v)
      BY <3>2
    <3> QED
      BY <3>1, <3>2, <3>3
  <2>12. Len(flat(more)) = Pane!Lines(more, gap)
    <3>1. gap * n = gap * (n - 1) + gap
      BY <2>1
    <3>2. n = 1 => gap * n = gap
      BY <3>1
    <3> QED
      BY <2>1, <2>2, <2>7, <2>8, <2>9, <2>10, <2>11, <3>1, <3>2
  <2> QED
    BY <2>1, <2>12 DEF more
<1> HIDE DEF T
<1>3. Seq(Nat) \subseteq T
  BY <1>1, <1>2, Taking!SeqSetInduction
<1>4. Len(flat(blocks)) = Pane!Lines(blocks, gap)
  BY <1>3 DEF T
<1>5. flat(blocks) \in Seq(Cell)
  BY PiecesType, Taking!FlattenType
<1> QED
  BY <1>4, <1>5, FlattenedIs

\* The walk collects the transcript's newest rows.
LEMMA CollectedIs ==
  ASSUME NEW blocks \in Seq(Nat), NEW gap \in Nat, NEW need \in Nat
  PROVE  Pane!Collected(blocks, gap, need)
         = First(Pane!Reverse(Pane!Flattened(blocks, gap)), need)
<1> DEFINE n == Len(blocks)
           newest(k) == n + 1 - k
           pieces == Pieces(blocks, gap)
           walk == [k \in 1..n |-> Pane!Upwards(newest(k), blocks[newest(k)], gap)]
<1>1. n \in Nat /\ \A k \in 1..n : newest(k) \in 1..n /\ newest(k) \in Nat \ {0}
                                  /\ blocks[newest(k)] \in Nat
  OBVIOUS
<1>2. pieces \in Seq(Seq(Cell)) /\ Len(pieces) = n
      /\ \A i \in 1..n : pieces[i] = Piece(i, blocks[i], gap)
  BY PiecesType DEF Pieces
<1>3. Pane!Collected(blocks, gap, need)
      = Pane!FoldLeft(Pane!Take, [need |-> need, rows |-> <<>>], walk).rows
  BY DEF Pane!Collected
<1> HIDE DEF n, pieces
<1>4. ASSUME NEW k \in 1..n
      PROVE  Pane!Upwards(newest(k), blocks[newest(k)], gap) = Pane!Reverse(pieces[newest(k)])
  <2>1. PICK i, b : i = newest(k) /\ b = blocks[newest(k)]
    OBVIOUS
  <2>2. i \in Nat \ {0} /\ i \in 1..n /\ b \in Nat /\ b = blocks[i]
    BY <1>1, <2>1
  <2>3. Pane!Reverse(Piece(i, b, gap)) = Pane!Upwards(i, b, gap)
    BY <2>2, PieceIs
  <2>4. pieces[i] = Piece(i, b, gap)
    BY <1>2, <2>2
  <2> HIDE DEF newest
  <2> QED
    BY <2>1, <2>3, <2>4
<1>5. walk = [k \in 1..n |-> Pane!Reverse(pieces[newest(k)])]
  <2> HIDE DEF newest
  <2> QED
    BY <1>4
<1>6. walk = Back(pieces)
  BY <1>2, <1>5 DEF Back
<1> HIDE DEF walk
<1>7. walk \in Seq(Seq(Cell))
  BY <1>2, <1>6, BackType
<1> DEFINE start == [need |-> need, rows |-> <<>>]
           back == Taking!FlattenSeq(walk)
<1>8. Taking!Fold(start, walk) = [need |-> need, rows |-> First(back, need)]
  BY <1>7, WalkTakes
<1>9. back = Pane!Reverse(Taking!FlattenSeq(pieces))
  BY <1>2, <1>6, FlattenBack
<1>10. Pane!Flattened(blocks, gap) = Taking!FlattenSeq(pieces)
  BY FlattenedIs DEF pieces
<1>11. Pane!FoldLeft(Pane!Take, start, walk) = Taking!Fold(start, walk)
  BY WalkIsFold
<1> HIDE DEF start, back
<1>12. Taking!Fold(start, walk).rows = First(back, need)
  BY <1>8
<1> QED
  BY <1>3, <1>9, <1>10, <1>11, <1>12 DEF start

LEMMA SliceIs ==
  ASSUME NEW S, NEW q \in Seq(S), NEW a \in Nat, NEW n \in Nat, a + n <= Len(q)
  PROVE  /\ SubSeq(q, a + 1, a + n) \in Seq(S) /\ Len(SubSeq(q, a + 1, a + n)) = n
         /\ \A i \in 1..n : SubSeq(q, a + 1, a + n)[i] = q[a + i]
<1>1. PICK d, e : d = a + 1 /\ e = a + n
  OBVIOUS
<1>2. d \in Nat /\ e \in Nat /\ d >= 1 /\ e <= Len(q)
  BY <1>1
<1> DEFINE s == SubSeq(q, d, e)
<1>3. s = [i \in 1..(1 + e - d) |-> q[i + d - 1]]
  BY <1>2
<1>4. 1 + e - d = n /\ \A i \in 1..n : i + d - 1 = a + i /\ a + i \in 1..Len(q)
  BY <1>1, <1>2
<1> HIDE DEF s
<1>5. s = [i \in 1..n |-> s[i]] /\ \A i \in 1..n : s[i] = q[a + i]
  BY <1>3, <1>4
<1>6. \A i \in 1..n : s[i] \in S
  BY <1>4, <1>5
<1>7. s = [i \in 1..n |-> s[i]]
  BY <1>5
<1>8. s \in Seq(S) /\ Len(s) = n
  BY <1>6, <1>7, MadeOf
<1> QED
  BY <1>1, <1>5, <1>8 DEF s

LEMMA ScrollIs ==
  ASSUME NEW n \in Nat, NEW height \in Nat \ {0}, NEW wanted \in Int
  PROVE  /\ Pane!Clamp(wanted, n, height) \in Nat
         /\ n < height => Pane!Clamp(wanted, n, height) = 0
         /\ n >= height => Pane!Clamp(wanted, n, height) + height <= n
BY DEF Pane!Clamp, Pane!MaxScroll, Pane!Smaller, Pane!Larger

\* Rows that all fit are shown as they are.
LEMMA ShortPane ==
  ASSUME NEW S, NEW q \in Seq(S), NEW n, n = Len(q), NEW height \in Nat, n <= height
  PROVE  Pane!Reverse(First(Pane!Reverse(q), height)) = q
<1> DEFINE r == Pane!Reverse(q)
           f == First(r, height)
<1>1. n \in Nat /\ r \in Seq(S) /\ Len(r) = n /\ \A i \in 1..n : r[i] = q[n - i + 1]
  BY ReverseIs
<1>2. n = Pane!Smaller(n, height)
  BY <1>1 DEF Pane!Smaller
<1> HIDE DEF r
<1>3. f \in Seq(S) /\ Len(f) = n /\ \A i \in 1..n : f[i] = r[i]
  <2>1. r \in Seq(S) /\ n = Pane!Smaller(Len(r), height)
    BY <1>1, <1>2
  <2> HIDE DEF f
  <2>2. /\ n \in 0..Len(r) /\ n <= height
        /\ First(r, height) \in Seq(S) /\ Len(First(r, height)) = n
        /\ \A i \in 1..n : First(r, height)[i] = r[i]
    BY <2>1, FirstIs
  <2> QED
    BY <2>2 DEF f
<1> HIDE DEF f
<1>4. Pane!Reverse(f) \in Seq(S) /\ Len(Pane!Reverse(f)) = n
      /\ \A i \in 1..n : Pane!Reverse(f)[i] = f[n - i + 1]
  <2>1. n = Len(f)
    BY <1>3
  <2> QED
    BY <1>3, <2>1, ReverseIs
<1>5. \A i \in 1..n : n - i + 1 \in 1..n /\ n - (n - i + 1) + 1 = i
  BY <1>1
<1>6. \A i \in 1..n : Pane!Reverse(f)[i] = q[i]
  BY <1>1, <1>3, <1>4, <1>5
<1>7. Pane!Reverse(f) = q
  BY <1>4, <1>6, SeqEqual
<1> QED
  BY <1>7 DEF f, r

\* Of more rows, those above the ones scrolled away: the newest m = height + at
\* of q's n rows are enough to show height of them.
Enough(q, n, height, at, m) ==
  LET rev == First(Pane!Reverse(q), m)
      shown == SubSeq(rev, at + 1, m)
  IN  /\ Pane!Smaller(at, Len(rev)) = at
      /\ Len(rev) = m
      /\ Len(shown) = height
      /\ Pane!Reverse(shown) = SubSeq(q, (n - at) - height + 1, n - at)
      /\ Pane!Reverse(shown) \in Seq(Cell)

LEMMA LongPane ==
  ASSUME NEW q \in Seq(Cell), NEW n, n = Len(q), NEW height \in Nat, NEW at \in Nat,
         NEW m, m = height + at, m <= n
  PROVE  Enough(q, n, height, at, m)
<1> DEFINE r == Pane!Reverse(q)
           f == First(r, m)
           s == SubSeq(f, at + 1, m)
           t == Pane!Reverse(s)
<1>0. n \in Nat /\ m \in Nat
  OBVIOUS
<1>1. r \in Seq(Cell) /\ Len(r) = n /\ \A i \in 1..n : r[i] = q[n - i + 1]
  BY ReverseIs
<1>2. m = Pane!Smaller(n, m) /\ Pane!Smaller(at, m) = at
  BY <1>0 DEF Pane!Smaller
<1> HIDE DEF r
<1>3. f \in Seq(Cell) /\ Len(f) = m /\ \A i \in 1..m : f[i] = r[i]
  <2>1. m = Pane!Smaller(Len(r), m)
    BY <1>1, <1>2
  <2> QED
    BY <1>0, <1>1, <2>1, FirstIs
<1> HIDE DEF f
<1>4. s \in Seq(Cell) /\ Len(s) = height /\ \A i \in 1..height : s[i] = f[at + i]
  <2>1. at + height = m /\ at + height <= Len(f)
    BY <1>3
  <2>2. /\ SubSeq(f, at + 1, at + height) \in Seq(Cell)
        /\ Len(SubSeq(f, at + 1, at + height)) = height
        /\ \A i \in 1..height : SubSeq(f, at + 1, at + height)[i] = f[at + i]
    BY <1>3, <2>1, SliceIs
  <2> QED
    BY <2>1, <2>2
<1> HIDE DEF s
<1>5. t \in Seq(Cell) /\ Len(t) = height /\ \A i \in 1..height : t[i] = s[height - i + 1]
  <2>1. s \in Seq(Cell) /\ height = Len(s)
    BY <1>4
  <2> QED
    BY <2>1, ReverseIs, Zenon
<1> HIDE DEF t
<1> DEFINE a == n - m
           u == SubSeq(q, a + 1, a + height)
<1>6. a \in Nat /\ a + height <= n /\ a = (n - at) - height /\ a + height = n - at
  BY <1>0
<1> HIDE DEF a
<1>7. u \in Seq(Cell) /\ Len(u) = height /\ \A i \in 1..height : u[i] = q[a + i]
  BY <1>6, SliceIs
<1> HIDE DEF u
<1>8. ASSUME NEW i \in 1..height PROVE t[i] = u[i]
  <2> DEFINE j == height - i + 1
             k == at + j
  <2>1. j \in 1..height /\ k \in 1..m /\ k \in 1..n /\ n - k + 1 = a + i
    BY <1>0 DEF a
  <2>2. t[i] = s[j]
    BY <1>5
  <2> HIDE DEF j
  <2>3. s[j] = f[k]
    BY <1>4, <2>1
  <2> HIDE DEF k
  <2>4. f[k] = r[k] /\ r[k] = q[n - k + 1]
    BY <1>1, <1>3, <2>1
  <2> QED
    BY <1>7, <2>1, <2>2, <2>3, <2>4
<1>9. t = u
  BY <1>5, <1>7, <1>8, SeqEqual
<1>10. u = SubSeq(q, (n - at) - height + 1, n - at)
  BY <1>6 DEF u
<1> QED
  BY <1>2, <1>3, <1>4, <1>7, <1>9, <1>10 DEF t, s, f, r, Enough

\* Walking back from the newest block shows the rows that laying out the whole
\* transcript would.
LEMMA WindowIs ==
  ASSUME NEW blocks \in Seq(Nat), NEW gap \in Nat, NEW height \in Nat, NEW wanted \in Int
  PROVE  Pane!Window(blocks, gap, height, wanted)
         = Pane!Viewport(Pane!Flattened(blocks, gap), height, wanted)
<1>1. CASE height <= 0
  BY <1>1 DEF Pane!Window, Pane!Viewport
<1>2. CASE ~(height <= 0)
  <2> DEFINE q == Pane!Flattened(blocks, gap)
             n == Len(q)
             at == Pane!Clamp(wanted, n, height)
             rev == First(Pane!Reverse(q), height + at)
             shown == SubSeq(rev, Pane!Smaller(at, Len(rev)) + 1, Len(rev))
  <2>1. q \in Seq(Cell) /\ n = Pane!Lines(blocks, gap) /\ n \in Nat
    <3>1. q \in Seq(Cell) /\ n = Pane!Lines(blocks, gap)
      BY LinesCount
    <3> HIDE DEF q
    <3> QED
      BY <3>1
  <2>2. /\ at \in Nat /\ (n < height => at = 0) /\ (n >= height => at + height <= n)
    <3>1. height \in Nat \ {0}
      BY <1>2
    <3> HIDE DEF n
    <3> QED
      BY <2>1, <3>1, ScrollIs, Zenon
  <2>3. Pane!Collected(blocks, gap, Pane!Need(height, at)) = rev
    <3>1. PICK m : m = height + at
      OBVIOUS
    <3>2. m \in Nat /\ Pane!Need(height, at) = m
      BY <2>2, <3>1 DEF Pane!Need
    <3>3. Pane!Collected(blocks, gap, m) = First(Pane!Reverse(q), m)
      BY <3>2, CollectedIs
    <3> QED
      BY <3>1, <3>2, <3>3
  <2>4. Pane!Window(blocks, gap, height, wanted)
        = Pane!Blanks(height - Len(shown)) \o Pane!Reverse(shown)
    <3> DEFINE total == Pane!Lines(blocks, gap)
    <3>1. Pane!Window(blocks, gap, height, wanted)
          = LET a == Pane!Clamp(wanted, total, height)
                v == Pane!Collected(blocks, gap, Pane!Need(height, a))
                w == SubSeq(v, Pane!Smaller(a, Len(v)) + 1, Len(v))
            IN  Pane!Blanks(height - Len(w)) \o Pane!Reverse(w)
      BY <1>2 DEF Pane!Window
    <3>2. Pane!Clamp(wanted, total, height) = at
      BY <2>1
    <3> HIDE DEF total, at, rev
    <3> QED
      BY <2>3, <3>1, <3>2
  <2>5. Pane!Viewport(q, height, wanted)
        = IF n < height THEN Pane!Blanks(height - n) \o q
          ELSE SubSeq(q, (n - at) - height + 1, n - at)
    BY <1>2 DEF Pane!Viewport
  <2>6. CASE n < height
    <3> HIDE DEF q
    <3>1. at = 0
      BY <2>2, <2>6
    <3>2. rev = First(Pane!Reverse(q), height)
      BY <3>1
    <3>3. Pane!Reverse(rev) = q
      <4>1. PICK l : l = Len(q)
        OBVIOUS
      <4>2. l = Len(q) /\ l <= height
        BY <2>1, <2>6, <4>1
      <4> QED
        BY <2>1, <3>2, <4>2, ShortPane
    <3>4. rev \in Seq(Cell) /\ Len(rev) = n
      <4>1. Pane!Reverse(q) \in Seq(Cell) /\ Len(Pane!Reverse(q)) = n
        BY <2>1, ReverseIs
      <4>2. n = Pane!Smaller(Len(Pane!Reverse(q)), height)
        BY <2>1, <2>6, <4>1 DEF Pane!Smaller
      <4>3. PICK v : v = Pane!Reverse(q)
        OBVIOUS
      <4>4. v \in Seq(Cell) /\ n = Pane!Smaller(Len(v), height)
        BY <4>1, <4>2, <4>3
      <4> HIDE DEF n
      <4>5. Len(First(v, height)) = n /\ First(v, height) \in Seq(Cell)
        BY <4>4, FirstIs
      <4> QED
        BY <3>2, <4>3, <4>5
    <3> HIDE DEF rev, at, n
    <3>5. Pane!Smaller(at, Len(rev)) = 0
      BY <2>1, <3>1, <3>4 DEF Pane!Smaller
    <3>6. shown = rev
      <4>1. SubSeq(rev, 1, Len(rev)) = rev
        BY <3>4
      <4> QED
        BY <3>5, <4>1
    <3> HIDE DEF shown
    <3>7. Len(shown) = n /\ Pane!Reverse(shown) = q
      BY <3>3, <3>4, <3>6
    <3> QED
      BY <2>4, <2>5, <2>6, <3>7 DEF q
  <2>7. CASE ~(n < height)
    <3> HIDE DEF q
    <3>1. PICK m, k, a : m = height + at /\ k = n /\ a = at
      OBVIOUS
    <3>2. /\ k = Len(q) /\ a \in Nat /\ m = height + a /\ m <= k
      BY <2>1, <2>2, <2>7, <3>1
    <3> DEFINE f == First(Pane!Reverse(q), m)
               w == SubSeq(f, a + 1, m)
    <3>3. /\ Pane!Smaller(a, Len(f)) = a /\ Len(f) = m /\ Len(w) = height
          /\ Pane!Reverse(w) = SubSeq(q, (k - a) - height + 1, k - a)
          /\ Pane!Reverse(w) \in Seq(Cell)
      <4>1. q \in Seq(Cell)
        BY <2>1
      <4>2. Enough(q, k, height, a, m)
        BY <3>2, <4>1, LongPane, Zenon
      <4> QED
        BY <4>2 DEF Enough
    <3>4. rev = f
      BY <3>1
    <3> HIDE DEF f, rev, at
    <3>5. shown = w
      BY <3>1, <3>3, <3>4
    <3> HIDE DEF shown, w
    <3>6. Len(shown) = height /\ Pane!Reverse(shown) = SubSeq(q, (n - at) - height + 1, n - at)
      BY <3>1, <3>3, <3>5
    <3> DEFINE lines == SubSeq(q, (n - at) - height + 1, n - at)
    <3>7. lines \in Seq(Cell)
      <4>1. lines = SubSeq(q, (k - a) - height + 1, k - a)
        BY <3>1
      <4> QED
        BY <3>3, <4>1
    <3>8. Pane!Blanks(height - Len(shown)) = <<>>
      <4>1. height - Len(shown) = 0 /\ 1..0 = {}
        BY <3>6
      <4> QED
        BY <4>1 DEF Pane!Blanks
    <3> HIDE DEF lines
    <3>9. <<>> \o lines = lines
      BY <3>7
    <3>10. Pane!Window(blocks, gap, height, wanted) = lines
      BY <2>4, <3>6, <3>8, <3>9 DEF lines
    <3> QED
      BY <2>5, <2>7, <3>10 DEF lines, q
  <2> QED
    BY <2>6, <2>7
<1> QED
  BY <1>1, <1>2

\* The pane that the terminal paints from the newest block backwards is the one
\* that laying out its whole transcript would give, in every reachable state.
THEOREM PaneIsTheTranscript == Spec => []ShowsTheWindow
<1>1. ASSUME IInv, size.width # 0 PROVE
        Pane!Window(Sizes(screen), Gap, size.rows, scroll)
        = Pane!Viewport(Pane!Flattened(Sizes(screen), Gap), size.rows, scroll)
  <2>1. Filed(session) /\ screen = Painted(session, size.width)
    BY <1>1 DEF IInv, Good, Shows
  <2>2. Sizes(screen) \in Seq(Nat) /\ TotalLines(screen) \in Nat
    BY <2>1, PaintedSizes
  <2>3. size.rows \in Nat
    BY <1>1, WidthsAre DEF IInv, Typed
  <2>4. scroll \in Int
    <3>1. Pane!MaxScroll(TotalLines(screen), size.rows) \in Nat
      BY <2>2, <2>3, MostType
    <3> QED
      BY <1>1, <3>1 DEF IInv, InRange
  <2>5. Gap \in Nat
    BY ClientAssumption
  <2> QED
    BY <2>2, <2>3, <2>4, <2>5, WindowIs
<1>2. IInv => ShowsTheWindow
  BY <1>1 DEF ShowsTheWindow
<1> QED
  BY <1>2, SpecIInv, PTL
=============================================================================
