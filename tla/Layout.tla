------------------------------- MODULE Layout -------------------------------
(***************************************************************************)
(* A frame of the terminal: Frame of internal/ui/layout.go and the parts   *)
(* of rail.go and chrome.go it puts together, as rows of cells.  Every     *)
(* part squeezes its texts into the width it is given, so a row's width is *)
(* arithmetic done in some twenty places that only agree if all are right. *)
(*                                                                         *)
(* A screen is what ui.Screen holds, each text as the cells it takes; the  *)
(* terminal may be resized at any time.                                    *)
(***************************************************************************)
EXTENDS TextBlock

CONSTANTS Screens,  \* the screens a session shows
          Terminals \* the terminals' sizes, [cols, height]

\* Texts, as the cells they take: ui.KV, Diagnostic, Rule, Session, Input, Rail.
Keyed == [key : Nat, value : Nat]

Found == [file : Nat, at : Nat]

Scoped == [id : Nat, text : Nat]

Sessions == [command : Nat, state : Nat, turn : Nat, hint : Nat]

Inputs == [loading : Nat, prompt : Nat, cwd : Nat, branch : Nat, dirty : Nat]

Rails == [model : Nat, context : Nat, percent : Int, cost : Seq(Keyed), server : Nat,
          diagnostics : Seq(Found), goals : Seq(Nat), count : Nat,
          rules : Seq(Scoped), sandbox : Seq(Keyed)]

\* ui.Line: the words of its text, and how it is set.
TextLine == [words : Seq(Seq({1, 2}) \ {<<>>}), indent : Nat, boxed : BOOLEAN, wrap : BOOLEAN]

Screen == [session : Sessions, blocks : Seq([tag : Nat, meta : Nat, lines : Seq(TextLine)]),
           rail : Rails, input : Inputs, scroll : Int]

ASSUME ScreenAssumption == Screens \subseteq Screen

ASSUME TerminalAssumption == Terminals \subseteq [cols : Nat, height : Nat]

VARIABLES screen, \* what Session.View returns
          layout  \* Model.layout

Pane == INSTANCE TranscriptPane

-----------------------------------------------------------------------------
(* Budgets of rows and columns *)

statusRows == 1
ruleRows   == 1
inputRows  == 4
chromeRows == statusRows + ruleRows + ruleRows + inputRows
MinHeight  == chromeRows + 1

TranscriptHeight(height) == IF height < MinHeight THEN 0 ELSE height - chromeRows

RailHideBelow == 100

\* With no width preferred: the default.
RailWidth(total) == IF total < RailHideBelow THEN 0 ELSE 42

TranscriptWidth(total) ==
  IF RailWidth(total) = 0 THEN Larger(total, 0) ELSE total - RailWidth(total) - 1

BlockGap == 1

-----------------------------------------------------------------------------
(* The status bar and the input *)

chipPad == 1

StateChip(label) == label + 2 * chipPad

\* The chip, the turn and the hint; a turn or a hint that is empty takes none.
StatusRight(s) == StateChip(s.state) + (IF s.turn = 0 THEN 0 ELSE 7 + s.turn)
                                     + (IF s.hint = 0 THEN 0 ELSE 5 + s.hint)

statusBar(s, width) ==
  IF StatusRight(s) >= width THEN Row(0, 0, fit(StateChip(s.state), width))
  ELSE Row(fit(s.command, width - StatusRight(s)), 0, StatusRight(s))

hRule(width) == Row(Larger(width, 0), 0, 0)

\* The glyph, the text and the cursor; the text yields to the cursor.
PromptLine(text, width) ==
  IF width <= 0 THEN Row(0, 0, 0)
  ELSE IF width - 3 <= 0 THEN Row(fit(2, width), 0, 0)
  ELSE Row(2, fit(text, width - 3), 1)

Loading(text, width) ==
  IF width <= 0 \/ text = 0 THEN Row(Larger(width, 0), 0, 0)
  ELSE Row(fit(text, width), 0, 0)

\* Directory, branch, and whether the tree is dirty; too narrow for all of it,
\* the branch alone.
FooterLeft(in) == in.cwd + 3

FooterRight(in) == IF in.dirty = 0 THEN 0 ELSE 3 + in.dirty

Footer(in, width) ==
  LET plain == FooterLeft(in) + in.branch + FooterRight(in)
  IN  IF width <= 0 THEN Row(0, 0, 0)
      ELSE IF plain > width THEN Row(0, fit(in.branch, width), 0)
      ELSE Row(FooterLeft(in), in.branch, FooterRight(in) + width - plain)

\* plan, auto and research, and how to choose.
ModeTabs == 24

TabsHint == 21

tabsRow(inner) ==
  IF inner - ModeTabs - TabsHint > 0
  THEN Row(ModeTabs, inner - ModeTabs - TabsHint, TabsHint)
  ELSE Row(fit(ModeTabs, inner), 0, 0)

\* The mode's bar and a space.
ModeBarred(r) == [r EXCEPT !.left = @ + 2]

inputArea(in, width) ==
  LET inner == Larger(width - 2, 0)
  IN  << Loading(in.loading, width),
         ModeBarred(PromptLine(in.prompt, inner)),
         ModeBarred(tabsRow(inner)),
         Footer(in, width) >>

-----------------------------------------------------------------------------
(* The rail *)

Blank(width) == Row(width, 0, 0)

Divider(width) == Row(Larger(width, 0), 0, 0)

SectionHeader(label, aside, width) ==
  IF width <= 0 THEN Row(0, 0, 0)
  ELSE IF aside = 0 \/ label + 1 >= width THEN Row(fit(label, width), 0, 0)
  ELSE Row(label, 0, rightAlign(Truncate(aside, width - label), width - label))

\* The value is the information: the key yields to it.
KeyValue(kv, width) ==
  LET valW == Smaller(kv.value, width)
      keyW == width - valW - 1
  IN  IF width <= 0 THEN Row(0, 0, 0)
      ELSE IF keyW <= 0 THEN Row(0, 0, rightAlign(fit(kv.value, width), width))
      ELSE Row(fit(kv.key, keyW), 1, rightAlign(kv.value, valW))

\* The filled part and the track: any use of the context is visible.
Meter(percent, width) ==
  LET pct == Smaller(Larger(percent, 0), 100)
      filled == IF (pct * width) \div 100 = 0 /\ pct > 0 THEN 1
                ELSE (pct * width) \div 100
  IN  IF width <= 0 THEN Row(0, 0, 0) ELSE Row(filled, width - filled, 0)

badgeWidth == 5

\* The path is the first to be cut.
Diagnostic(d, width) ==
  IF width <= 0 THEN Row(0, 0, 0)
  ELSE IF width <= badgeWidth THEN Row(fit(badgeWidth, width), 0, 0)
  ELSE IF d.at >= width - badgeWidth
       THEN Row(badgeWidth, fit(d.file, width - badgeWidth), 0)
  ELSE Row(badgeWidth, fit(d.file, width - badgeWidth - d.at), d.at)

markWidth == 2

Goal(text, width) ==
  IF width <= 0 THEN Row(0, 0, 0)
  ELSE IF width <= markWidth THEN Row(fit(markWidth, width), 0, 0)
  ELSE Row(markWidth, fit(text, width - markWidth), 0)

Rule(r, width) ==
  IF width <= 0 THEN Row(0, 0, 0)
  ELSE IF r.id + 1 >= width THEN Row(fit(r.id, width), 0, 0)
  ELSE Row(r.id + 1, fit(r.text, width - r.id - 1), 0)

\* The cells of the letterspaced names of the sections.
Label == [model |-> 23, lsp |-> 5, goals |-> 9, rules |-> 7, sandbox |-> 13]

Section(width) == <<Blank(width), Divider(width), Blank(width)>>

RailRows(rail, width) ==
  << SectionHeader(Label.model, 0, width), Row(fit(rail.model, width), 0, 0),
     KeyValue([key |-> 7, value |-> rail.context], width), Meter(rail.percent, width) >>
  \o [i \in DOMAIN rail.cost |-> KeyValue(rail.cost[i], width)]
  \o Section(width) \o <<SectionHeader(Label.lsp, rail.server, width)>>
  \o [i \in DOMAIN rail.diagnostics |-> Diagnostic(rail.diagnostics[i], width)]
  \o Section(width) \o <<SectionHeader(Label.goals, 0, width)>>
  \o [i \in DOMAIN rail.goals |-> Goal(rail.goals[i], width)]
  \o Section(width) \o <<SectionHeader(Label.rules, rail.count, width)>>
  \o [i \in DOMAIN rail.rules |-> Rule(rail.rules[i], width)]
  \o Section(width) \o <<SectionHeader(Label.sandbox, 0, width)>>
  \o [i \in DOMAIN rail.sandbox |-> KeyValue(rail.sandbox[i], width)]

\* Squared off to height: what is nearest the top is kept.
railColumn(rail, width, height) ==
  LET rows == RailRows(rail, width)
  IN  [i \in 1..height |-> IF i <= Len(rows) THEN rows[i] ELSE Blank(width)]

-----------------------------------------------------------------------------
(* The frame *)

\* The rows of the blocks that the pane shows, and the blank ones between.
Picked(rendered, shown, width) ==
  [i \in DOMAIN shown |-> IF shown[i] = <<0, 0>> THEN Blank(Larger(width, 0))
                          ELSE rendered[shown[i][1]][shown[i][2]]]

Shown(rendered, s, width, height) ==
  Picked(rendered, Pane!Window([i \in DOMAIN rendered |-> Len(rendered[i])],
                               BlockGap, height, s.scroll), width)

\* The rows of the transcript that the pane shows.
Transcript(s, width, height) ==
  Shown([i \in DOMAIN s.blocks |-> Render(s.blocks[i], width)], s, width, height)

leftColumn(s, width, height) ==
  Transcript(s, width, height - ruleRows - inputRows)
  \o <<hRule(width)>> \o inputArea(s.input, width)

\* The transcript's row, the divider, and the rail's row.
Beside(left, right) == Row(Cells(left), 1, Cells(right))

\* Both columns, or the left one where there is no rail.
Columns(left, rail, railW, height) ==
  IF railW = 0 THEN left ELSE [i \in 1..height |-> Beside(left[i], rail[i])]

\* No text of the transcript keeps its rendering from returning.
Finishes(s, l) ==
  \A i \in DOMAIN s.blocks : Renders(s.blocks[i], TranscriptWidth(l.cols))

Frame(s, l) ==
  IF l.cols <= 0 \/ l.height < MinHeight THEN <<>>
  ELSE LET bodyH == l.height - statusRows - ruleRows
           railW == RailWidth(l.cols)
       IN  <<statusBar(s.session, l.cols), hRule(l.cols)>>
           \o Columns(leftColumn(s, TranscriptWidth(l.cols), bodyH),
                      railColumn(s.rail, railW, bodyH), railW, bodyH)

-----------------------------------------------------------------------------
\* A terminal that has not reported its size has none.
Init == screen \in Screens /\ layout = [cols |-> 0, height |-> 0]

Resize == layout' \in Terminals /\ UNCHANGED screen

Next == Resize

Spec == Init /\ [][Next]_<<screen, layout>>

-----------------------------------------------------------------------------
(* Properties *)

Fills(frame, l) == /\ Len(frame) = l.height
                   /\ \A i \in DOMAIN frame : Cells(frame[i]) = l.cols

\* A frame is exactly as many rows as the terminal has, each exactly as wide,
\* whatever the texts; and none where there is no room for a transcript.  The
\* pane in it has the height that scrolling is clamped to (layout.go:28-36,
\* 107-162, tui.go:247-262).  A terminal of one column is left out: there the
\* input's bar alone is wider.
FrameIsTheTerminal ==
  IF layout.height < MinHeight THEN Frame(screen, layout) = <<>>
  ELSE layout.cols >= 2 /\ Finishes(screen, layout) =>
         /\ Fills(Frame(screen, layout), layout)
         /\ Len(Transcript(screen, TranscriptWidth(layout.cols),
                           layout.height - chromeRows))
            = TranscriptHeight(layout.height)

\* Wrapping loses, repeats and reorders no character, fills no row over its
\* width, and breaks inside a word only where the word is wider than a row.  It
\* ends unless a character is wider than a row: then it never does
\* (block.go:151-215).
WrapKeepsTheText ==
  \A b \in ToSet(screen.blocks) : \A l \in ToSet(b.lines) :
    LET avail   == TranscriptWidth(layout.cols) - Gutter
        wrapped == wrapText(l.words, avail)
    IN  avail > 0 =>
          /\ wrapped.ends <=> \A c \in ToSet(AllOf(l.words)) : c[3] <= avail
          /\ wrapped.ends =>
               /\ FlattenSeq(wrapped.rows) = AllOf(l.words)
               /\ \A r \in ToSet(wrapped.rows) : r # <<>> =>
                    /\ LineCells(r) <= avail
                    /\ Head(r)[2] > 1 =>
                         TextCells(Word(l.words, Head(r)[1])) > avail
=============================================================================
