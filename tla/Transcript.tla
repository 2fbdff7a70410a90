----------------------------- MODULE Transcript -----------------------------
(***************************************************************************)
(* A client attached to a running agent: AgentLoop writes the event log,   *)
(* the session fold reads it one event behind or many.  The pipe between   *)
(* them is EventStream's; here it is the log itself and a reader's         *)
(* position in it.                                                         *)
(***************************************************************************)
EXTENDS AgentLoop

VARIABLES session, \* what the client folded so far
          read     \* the log lines it has folded

Client == INSTANCE SessionFold WITH MaxBlocks <- 0, TrimSlack <- 0

-----------------------------------------------------------------------------
(* The payloads the observer writes (eventlog.go): one tool block and one  *)
(* verdict block to a turn.  The rules of OfinScope are left out.          *)

blockRef(kind, t) == kind \o "-" \o ToString(t)

\* No two blocks share a name: the agent's, the tools' and the verdicts' of the
\* turns, and the one of the rules in scope.
BlockKinds == {"agent", "tool", "verdict"}

ASSUME NamesDiffer ==
  /\ \A kind, other \in BlockKinds, t, u \in 0..MaxTurns :
       blockRef(kind, t) = blockRef(other, u) => kind = other /\ t = u
  /\ \A kind \in BlockKinds, t \in 0..MaxTurns : blockRef(kind, t) # "ofin"

RuleRef(n) == IF n = 0 THEN "" ELSE ToString(n)

StartedLine == [kind |-> "SessionStarted", sandbox |-> "", cwd |-> "workspace",
                branch |-> "", model |-> "model", ctxLimit |-> 1000000]

ScopeLine == [kind |-> "OfinScope", block |-> "ofin", scope |-> "scope", total |-> 0,
              rules |-> <<>>]

StateLine(e) ==
  [kind |-> "TurnState", state |-> e.what, turn |-> e.turn, mode |-> "", dirty |-> "",
   detail |-> IF e.what \in {"EXECUTING", "AWAITING_APPROVAL"} THEN "" ELSE "detail"]

TextLine(e) == [kind |-> "AgentMessage", block |-> blockRef("agent", e.turn),
                text |-> <<"text">>, meta |-> ""]

ProposedLine(e) ==
  [kind |-> "ToolProposed", block |-> blockRef("tool", e.turn),
   calls |-> [i \in 1..e.n |-> [tool |-> "bash", args |-> "args", detail |-> ""]]]

VerdictLine(e) ==
  [kind |-> "OfinVerdict", block |-> blockRef("verdict", e.turn),
   proposal |-> blockRef("tool", e.turn), verdict |-> e.what, rule |-> RuleRef(e.n),
   version |-> "", micros |-> 0, headline |-> "",
   rationale |-> IF e.n = 0 THEN "" ELSE "rationale", terms |-> <<>>, options |-> <<>>]

OutputLine(e) == [kind |-> "ToolOutput", block |-> blockRef("tool", e.turn),
                  lines |-> <<[text |-> "summary", status |-> e.what]>>]

CompletedLine(e) == [kind |-> "ToolCompleted", block |-> blockRef("tool", e.turn),
                     status |-> e.what, duration |-> 0, changes |-> <<>>]

Written(e) ==
  CASE e.kind = "SessionStarted" -> StartedLine
    [] e.kind = "OfinScope"      -> ScopeLine
    [] e.kind = "TurnState"      -> StateLine(e)
    [] e.kind = "AgentMessage"   -> TextLine(e)
    [] e.kind = "ToolProposed"   -> ProposedLine(e)
    [] e.kind = "OfinVerdict"    -> VerdictLine(e)
    [] e.kind = "ToolOutput"     -> OutputLine(e)
    [] e.kind = "ToolCompleted"  -> CompletedLine(e)

Deliver ==
  /\ read < Len(log)
  /\ read' = read + 1
  /\ session' = Client!Apply(session, Written(log[read'].event))
  /\ UNCHANGED vars

Attached == Init /\ session = Client!New /\ read = 0

Run == Next /\ UNCHANGED <<session, read>>

AttachedNext == Run \/ Deliver

AttachedSpec == Attached /\ [][AttachedNext]_<<vars, session, read>>

-----------------------------------------------------------------------------
(* Properties *)

CaughtUp == pc = "exited" /\ read = Len(log) /\ log # <<>> /\ ~logErr

Shown(ref) == IF ref \in DOMAIN session.order THEN Client!BlockOf(session, ref).tag
              ELSE "nothing"

Decisions(t, verdict) == {i \in DOMAIN trail : trail[i].turn = t
                                               /\ trail[i].verdict = verdict}

\* The output a turn's tool block is left with: that of its last allowed call,
\* for each allowed call clears the block, and none if that call's tool is
\* unknown.  A call that ran and failed shows until a later one ran.
ToolBlockOf(t) ==
  LET allowed == Decisions(t, "allow")
      ran     == {i \in allowed : trail[i].ran}
      shown   == Client!BlockOf(session, blockRef("tool", t))
  IN  /\ allowed # {} =>
           shown.lines = IF trail[Max(allowed)].ran THEN <<<<"summary">>>> ELSE <<>>
      /\ ran # {} => shown.tone = IF trail[Max(ran)].isError THEN "deny" ELSE "ok"

\* A client that has read the whole log of a run shows how the run ended,
\* asks for a decision exactly when the run is waiting for one, shows a turn's
\* proposal as running exactly when a call of it was allowed, with what the
\* last of them gave, and a refusal exactly when one was refused
\* (eventlog.go:84-143, apply.go:259-326,352-428).
AgreesWithRun ==
  CaughtUp =>
    /\ session.state = StopState(out.stop)
    /\ Client!Asks(session) <=> out.stop = "awaiting_approval"
    /\ \A t \in 1..MaxTurns :
         /\ Shown(blockRef("tool", t)) = "TOOL" <=> Decisions(t, "allow") # {}
         /\ ToolBlockOf(t)
         /\ Decisions(t, "deny") # {} => Shown(blockRef("verdict", t)) = "DENIED"

\* However far behind it is, a client never shows a decision the gate has not
\* taken: what it shows of a turn is a prefix of what happened in it
\* (eventlog.go:95-114).
NeverAhead ==
  /\ Client!Asks(session) =>
       trail # <<>> /\ Last(trail).verdict = "require_human"
  /\ \A t \in 1..MaxTurns :
       /\ Shown(blockRef("tool", t)) = "TOOL" => Decisions(t, "allow") # {}
       /\ Shown(blockRef("verdict", t)) = "DENIED" => Decisions(t, "deny") # {}
       /\ Shown(blockRef("verdict", t)) = "APPROVAL" =>
            Decisions(t, "require_human") # {}
=============================================================================
