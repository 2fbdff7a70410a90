------------------------------- MODULE Client -------------------------------
(***************************************************************************)
(* One terminal on a session: internal/tui's Update over the folded state, *)
(* the render cache of internal/ui/cache.go and the scroll position.       *)
(* Bubble Tea runs Update and View on one goroutine; what is concurrent is *)
(* the order in which events, keys and resizes reach it.                   *)
(*                                                                         *)
(* A rendered block is kept as the block it was rendered from, the width,  *)
(* and how many rows it takes.                                             *)
(***************************************************************************)
EXTENDS SessionFold

CONSTANTS Events,    \* the events a log may hold
          MaxEvents, \* bound on the events of the log
          Keys,      \* the keys pressed: see Press
          Scenes,    \* the built-in sessions, as sequences of events
          Widths,    \* transcript widths a terminal may have
          Rows,      \* transcript heights it may have
          Gap        \* Density.BlockGap

ASSUME ClientAssumption == /\ MaxEvents \in Nat /\ Gap \in Nat
                           /\ Widths \subseteq Nat \ {0} /\ Rows \subseteq Nat
                           /\ Events \subseteq Event /\ Scenes \subseteq Seq(Event)

Pane == INSTANCE TranscriptPane

VARIABLES session, \* Model.session
          fed,     \* Model.events # nil
          cache,   \* Cache.width and Cache.entries
          screen,  \* what the last Lines returned
          size,    \* Model.layout, as the transcript's width and rows
          scroll,  \* Local.Scroll
          count,   \* events delivered so far
          quit,    \* Update returned tea.Quit
          record   \* history: the fold of the log alone, while it feeds the client

vars == <<session, fed, cache, screen, size, scroll, count, quit, record>>

-----------------------------------------------------------------------------
(* The render cache *)

Render(b, width) == [of |-> b, width |-> width,
                     rows |-> (1 + Len(b.lines)) * (IF width = 1 THEN 2 ELSE 1)]

\* Lines drops everything when the width changed.
Usable(c, width) == IF c.width = width THEN c.entries ELSE <<>>

Serves(entries, b) == b.id \in DOMAIN entries /\ entries[b.id].of.rev = b.rev

Lines(c, blocks, width) ==
  [i \in DOMAIN blocks |->
     IF Serves(Usable(c, width), blocks[i]) THEN Usable(c, width)[blocks[i].id]
     ELSE Render(blocks[i], width)]

LaidOut(c, blocks, width) ==
  {blocks[i].id : i \in {j \in DOMAIN blocks :
                            width # 0 /\ ~Serves(Usable(c, width), blocks[j])}}

\* evict keeps the entries of the blocks Lines has just walked.
MutEvictServed(c, blocks, out) ==
  LET laidOut == {i \in DOMAIN blocks : ~Serves(c.entries, blocks[i])}
  IN  [id \in {blocks[i].id : i \in laidOut} |->
         out[CHOOSE i \in laidOut : blocks[i].id = id]]

Evict(c, blocks, out) ==
  [id \in {blocks[i].id : i \in DOMAIN blocks} |->
     out[CHOOSE i \in DOMAIN blocks : blocks[i].id = id]]

Sizes(out) == [i \in DOMAIN out |-> out[i].rows]

TotalLines(out) == Pane!Lines(Sizes(out), Gap)

Clamp(n, most) == IF n < 0 THEN 0 ELSE IF n > most THEN most ELSE n

\* Every message ends in a View, which lays the blocks out at width sz.width,
\* and with the scroll in range.  A terminal that has not reported its size
\* lays nothing out.
Redraw(c, blocks, sz, wanted) ==
  LET out == Lines(c, blocks, sz.width)
      all == IF sz.width = 0 THEN <<>> ELSE out
  IN  /\ screen' = all
      /\ cache' = IF sz.width = 0 THEN c
                  ELSE [width |-> sz.width, entries |-> Evict(c, blocks, out)]
      /\ scroll' = Clamp(wanted, IF sz.width = 0 THEN 0
                                 ELSE Pane!MaxScroll(TotalLines(all), sz.rows))

-----------------------------------------------------------------------------
(* Update *)

Resize ==
  /\ ~quit
  /\ \E w \in Widths, r \in Rows : size' = [width |-> w, rows |-> r]
  /\ size' # size
  /\ Redraw(cache, session.blocks, size', scroll)
  /\ UNCHANGED <<session, fed, count, quit, record>>

\* tea.Quit: the program ends, and with it what it held.
NoCache == [width |-> 0, entries |-> <<>>]

Quits ==
  /\ quit' = TRUE
  /\ session' = New /\ record' = New
  /\ cache' = NoCache /\ screen' = <<>> /\ scroll' = 0
  /\ size' = [width |-> 0, rows |-> 0]

\* A stream.Msg: an event the fold refuses quits.
Folded(e) ==
  /\ ~Refuses(e)
  /\ session' = Apply(session, e)
  /\ record' = Apply(record, e)
  /\ Redraw(cache, session'.blocks, size, scroll)
  /\ UNCHANGED <<size, quit>>

Contradiction(e) == Refuses(e) /\ Quits

Deliver ==
  /\ ~quit /\ fed /\ count < MaxEvents
  /\ count' = count + 1
  /\ \E e \in Events : Folded(e) \/ Contradiction(e)
  /\ UNCHANGED fed

\* streamEndedMsg.
StreamEnds ==
  /\ ~quit /\ fed
  /\ fed' = FALSE /\ record' = New
  /\ Redraw(cache, session.blocks, size, scroll)
  /\ UNCHANGED <<session, size, count, quit>>

\* The keys a suspended turn gives to the approval; "w" shows what is shown.
resolveApproval(state, tone) ==
  session' = [session EXCEPT !.state = state, !.tone = tone,
                             !.approval = <<>>, !.loading = ""]

Decide ==
  /\ Asks(session)
  /\ \/ "approve" \in Keys /\ resolveApproval("EXECUTING", "ok")
     \/ "refuse" \in Keys /\ resolveApproval("PLANNING", "agent")
  /\ Redraw(cache, session.blocks, size, scroll)
  /\ UNCHANGED quit

CtrlC == "quit" \in Keys /\ Quits

Following(mode) == CASE mode = "plan"     -> "auto"
                     [] mode = "auto"     -> "research"
                     [] mode = "research" -> "plan"

Mode ==
  /\ "mode" \in Keys
  /\ session' = [session EXCEPT !.mode = Following(@)]
  /\ Redraw(cache, session.blocks, size, scroll)
  /\ UNCHANGED quit

Page == IF size.rows > 1 THEN size.rows ELSE 1

\* Up, down, page up and down, home and end.
Scroll ==
  /\ "scroll" \in Keys
  /\ LET most == Pane!MaxScroll(TotalLines(screen), size.rows)
     IN  \E wanted \in {Clamp(n, most) : n \in {scroll + 1, scroll - 1, scroll + Page,
                                               scroll - Page, 0, most}} :
           Redraw(cache, session.blocks, size, wanted)
  /\ UNCHANGED <<session, quit>>

\* A session that is fed shows its log, and nothing else.
MutDetachedAlways == TRUE

Detached == ~fed

\* Every block changed, so nothing cached survives.
Reset(c) == [c EXCEPT !.entries = <<>>]

switchScene ==
  /\ "scene" \in Keys /\ Detached
  /\ session' \in {Fold(scene) : scene \in Scenes}
  /\ Redraw(Reset(cache), session'.blocks, size, scroll)
  /\ UNCHANGED quit

Press ==
  /\ ~quit
  /\ \/ CtrlC
     \/ (Decide \/ Mode \/ Scroll \/ switchScene) /\ UNCHANGED <<size, record>>
  /\ UNCHANGED <<fed, count>>

-----------------------------------------------------------------------------
Init ==
  /\ session = New /\ record = New
  /\ fed = TRUE /\ count = 0 /\ quit = FALSE
  /\ cache = NoCache /\ screen = <<>>
  /\ size = [width |-> 0, rows |-> 0] /\ scroll = 0

Next == Resize \/ Deliver \/ StreamEnds \/ Press

Spec == Init /\ [][Next]_vars

-----------------------------------------------------------------------------
(* Properties *)

\* Types; one rule at most is marked as the one that fired; the scroll position
\* is one the transcript has, also after a resize or a trim shortened it
\* (apply.go:345-350, tui.go:247-262).
TypeOK ==
  /\ session.mode \in Modes /\ session.turn \in Nat
  /\ \A r, q \in ToSet(session.rules) : r.hot /\ q.hot => r = q
  /\ session.approval \in Seq([proposal : Ref, rule : STRING, options : Seq(STRING)])
  /\ size.width \in Widths \cup {0} /\ size.rows \in Rows \cup {0}
  /\ count \in 0..MaxEvents /\ fed \in BOOLEAN /\ quit \in BOOLEAN
  /\ scroll \in 0..Pane!MaxScroll(TotalLines(screen), size.rows)

\* Every event finds the block it belongs to, however many were dropped; the
\* blocks stay in the order they arrived, and none takes the identity of one
\* that was dropped (session.go:47-48,244-261).
BlocksIndexed ==
  /\ Indexed(session)
  /\ \A i \in 1..(Len(session.blocks) - 1) :
       session.blocks[i].id < session.blocks[i+1].id
  /\ \A i \in DOMAIN session.blocks : session.blocks[i].id <= session.nextID
  /\ session.nextID = session.dropped + Len(session.blocks)

\* A client left open on a long session holds no more than its limit, in the
\* fold and in the cache (session.go:239-261, cache.go:84-110).
MemoryBounded ==
  /\ Bounded(session)
  /\ size.width # 0 =>
       DOMAIN cache.entries = {session.blocks[i].id : i \in DOMAIN session.blocks}

\* What holds of a client after any history: its types, an index that finds
\* every block after any number of trims, and memory that stays bounded.
ClientInv == TypeOK /\ BlocksIndexed /\ MemoryBounded

\* What is on the screen is what the blocks would render to now, at this
\* width: the cache is never stale (cache.go:48-82).
Fresh ==
  size.width # 0 =>
    screen = [i \in DOMAIN session.blocks |-> Render(session.blocks[i], size.width)]

\* A frame costs what changed: while a log feeds the client a block is laid
\* out again only if it or the width changed (cache.go:5-14,84-110).
CostsWhatChanged ==
  [][fed /\ size'.width = cache.width =>
       \A id \in LaidOut(cache, session'.blocks, size'.width) : \E b \in ToSet(session'.blocks) :
         b.id = id /\ b \notin ToSet(session.blocks)]_vars

\* What a key changes of the folded session.
Decided == {"state", "tone", "approval", "loading", "mode"}

\* While a log feeds the client, what a person decides or chooses in this
\* terminal changes nothing else of what the log says: the transcript, the rail
\* and the turn are the fold of the log, on every client alike
\* (session.go:181-192, tui.go:174-245).
TranscriptIsTheLog ==
  fed => \A f \in DOMAIN session \ Decided : session[f] = record[f]

RailKinds == {"GoalsUpdated", "LSPUpdated", "UsageUpdated", "SandboxUpdated",
              "ForksUpdated", "OfinScope"}

\* Whatever happened before, usage and other news of the rail leave the same
\* rail in either order (apply.go:485-509,560-563).
RailOrderFree ==
  LET usage == {e \in Events : e.kind = "UsageUpdated"}
      other == {e \in Events : e.kind \in RailKinds} \ usage
  IN  \A e \in usage, f \in other :
        RailOf(Apply(Apply(session, e), f)) = RailOf(Apply(Apply(session, f), e))

\* Whatever stands in its block, a text in two chunks reads as it does in one
\* (apply.go:132-159).
ChunksJoin ==
  LET chunks == {e \in Events : e.kind = "AgentDelta"}
  IN  \A e, f \in chunks :
        e.block = f.block =>
          BlockOf(Apply(Apply(session, e), f), e.block).lines
          = BlockOf(Apply(session, [e EXCEPT !.text = @ \o f.text]), e.block).lines

\* How the same news arrives does not show: neither the order of the rail's
\* events nor where a message was cut into chunks (apply.go:132-159,490-509).
ArrivalDoesNotShow == RailOrderFree /\ ChunksJoin

\* The rows of the pane, found by walking back from the newest block, are those
\* that laying out the whole transcript first would give (viewport.go:32-74).
ShowsTheWindow ==
  size.width # 0 =>
    Pane!Window(Sizes(screen), Gap, size.rows, scroll)
    = Pane!Viewport(Pane!Flattened(Sizes(screen), Gap), size.rows, scroll)
=============================================================================
