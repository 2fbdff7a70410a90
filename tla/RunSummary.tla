----------------------------- MODULE RunSummary -----------------------------
(***************************************************************************)
(* What the experiment makes of a run: readSummary                         *)
(* (internal/experiment/summary.go) folds the event log the agent wrote to *)
(* its standard output.  The host has all of it when the agent exited, and *)
(* any part of it, cut at a line or inside one, when the agent or its      *)
(* connection was killed.                                                  *)
(***************************************************************************)
EXTENDS AgentLoop

Blank == [turns |-> 0, denials |-> 0, first |-> 0, stalled |-> FALSE,
          completed |-> FALSE, costed |-> FALSE]

Later(a, b) == IF a > b THEN a ELSE b

\* The state an event closes a run with, and the StopKind its detail then
\* names beside the cost (the line Finished writes, if the log came so far).
Closing == {"DONE", "FAILED", "AWAITING_APPROVAL"}

Detail(i) == IF i = Len(log) /\ pc \in {"finished", "exited"} /\ ~logErr
             THEN <<out.stop>> ELSE <<>>

\* The first n lines as the host has them.
Lines(n) == [i \in 1..n |-> [event |-> log[i].event, detail |-> Detail(i)]]

parseDetail(s, detail) ==
  [s EXCEPT !.costed = @ \/ detail # <<>>,
            !.stalled = @ \/ detail \in {<<"turn_limit">>, <<"error">>}]

MutFirstDenialLast(s, turns) == turns

FirstDenial(s, turns) == IF s.first = 0 THEN turns ELSE s.first

MutCompletedOnFailed(state) == state \in {"DONE", "FAILED"}

Completes(state) == state = "DONE"

Summed(s, line) ==
  LET e == line.event
      t == [s EXCEPT !.turns = Later(@, e.turn)]
  IN  IF e.kind = "OfinVerdict" /\ e.what # "allow"
      THEN [s EXCEPT !.denials = @ + 1, !.first = FirstDenial(s, s.turns)]
      ELSE IF e.kind # "TurnState" THEN s
      ELSE IF e.what \in Closing
      THEN parseDetail([t EXCEPT !.completed = @ \/ Completes(e.what)], line.detail)
      ELSE t

\* The summary of the first n lines; torn is a decoding error after them.
readSummary(n, torn) ==
  FoldLeft(Summed, [Blank EXCEPT !.stalled = torn], Lines(n))

turnsToRecover(s) == IF s.first > 0 /\ s.turns > s.first THEN s.turns - s.first ELSE 0

-----------------------------------------------------------------------------
(* Properties *)

Blocked == {i \in DOMAIN trail : trail[i].verdict # "allow"}

\* The row of a run that ended with its log intact says what happened in it:
\* its turns, every call the gate stopped, whether it completed or stalled,
\* and how many turns it went on for after the gate first stopped it
\* (summary.go:23-66).
SummaryAgrees ==
  pc = "exited" /\ ~logErr /\ log # <<>> =>
    LET s == readSummary(Len(log), FALSE)
    IN  /\ s.turns = LastTurn
        /\ s.denials = Cardinality(Blocked)
        /\ s.completed <=> out.stop = "done"
        /\ s.stalled <=> out.stop \in {"turn_limit", "error"}
        /\ s.costed
        /\ turnsToRecover(s) =
             (IF Blocked = {} THEN 0 ELSE LastTurn - trail[Min(Blocked)].turn)

\* Whatever part of the log the host has, the row does not claim more than
\* happened: no completion that was not one, no verdict that was not given, no
\* turn that did not start.
NeverOverstates ==
  \A n \in 0..Len(log) :
    LET s == readSummary(n, FALSE)
    IN  /\ s.completed => out.stop = "done" /\ pc \in {"finished", "exited"}
        /\ s.denials <= Cardinality(Blocked)
        /\ s.turns <= LastTurn
        /\ s.costed => pc \in {"finished", "exited"}
        /\ turnsToRecover(s) < LastTurn
=============================================================================
