------------------------------ MODULE MCLayout ------------------------------
(***************************************************************************)
(* Screens that differ from a plain one in one region at a time: texts     *)
(* that are empty, fit, just do not fit, and are far too long; words of    *)
(* one- and two-cell characters that join, break and fill a row exactly.   *)
(***************************************************************************)
EXTENDS Layout, FiniteSets

Texts == {0, 1, 9, 40, 120}

Sizes == [cols : 1..10 \cup {20, 46, 99, 100, 101}, height : {6, 7, 8, 10, 30}]

Kv(key, value) == [key |-> key, value |-> value]

Line(words, indent, boxed, wrap) ==
  [words |-> words, indent |-> indent, boxed |-> boxed, wrap |-> wrap]

Block(tag, meta, lines) == [tag |-> tag, meta |-> meta, lines |-> lines]

Plain ==
  [session |-> [command |-> 14, state |-> 8, turn |-> 2, hint |-> 13],
   blocks  |-> <<Block(5, 6, <<Line(<< <<1, 1>> >>, 0, FALSE, TRUE)>>)>>,
   rail    |-> [model |-> 15, context |-> 10, percent |-> 34,
                cost |-> <<Kv(9, 6)>>, server |-> 5,
                diagnostics |-> <<[file |-> 20, at |-> 3]>>, goals |-> <<10>>,
                count |-> 10, rules |-> <<[id |-> 3, text |-> 20]>>,
                sandbox |-> <<Kv(2, 8)>>],
   input   |-> [loading |-> 0, prompt |-> 5, cwd |-> 8, branch |-> 4, dirty |-> 0],
   scroll  |-> 0]

Statuses ==
  {[Plain EXCEPT !.session = [command |-> c, state |-> s, turn |-> t, hint |-> h]] :
     c \in {0, 120}, s \in {0, 8, 40}, t \in {0, 2}, h \in {0, 13}}

Composers ==
  {[Plain EXCEPT !.input = [loading |-> p, prompt |-> p, cwd |-> 8,
                            branch |-> b, dirty |-> d]] :
     p \in {0, 1, 120}, b \in Texts, d \in {0, 4}}

RailScreens ==
  {[Plain EXCEPT !.rail.cost = <<Kv(k, v)>>, !.rail.sandbox = <<Kv(v, k)>>,
                 !.rail.percent = v - 9, !.rail.server = v, !.rail.count = k,
                 !.rail.context = v, !.rail.model = k, !.rail.goals = <<k, v>>] :
     k \in Texts, v \in Texts}
  \cup
  {[Plain EXCEPT !.rail.diagnostics = <<[file |-> a, at |-> b]>>,
                 !.rail.rules = <<[id |-> b, text |-> a], [id |-> a, text |-> b]>>] :
     a \in Texts, b \in Texts}

Words == {<<1>>, <<1, 1, 1>>, <<2>>, <<1, 2, 1, 2, 1>>, <<1, 1, 1, 1, 1, 1, 1, 1>>}

Proses == {<<>>} \cup UNION {[1..n -> Words] : n \in 1..3}

Transcripts ==
  {[Plain EXCEPT !.blocks = <<Block(5, 6, <<Line(w, 0, FALSE, TRUE)>>)>>] : w \in Proses}
  \cup
  {[Plain EXCEPT !.blocks = <<Block(t, m, <<Line(<< <<1, 2>>, <<1>> >>, i, x, w)>>),
                              Block(m, t, <<>>)>>,
                 !.scroll = i] :
     t \in {0, 5, 40}, m \in {0, 5, 40}, i \in {0, 2, 5}, x \in BOOLEAN, w \in BOOLEAN}

SomeScreens == Statuses \cup Composers \cup RailScreens \cup Transcripts
=============================================================================
