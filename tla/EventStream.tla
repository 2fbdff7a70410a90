---------------------------- MODULE EventStream -----------------------------
(***************************************************************************)
(* From the log to the client: event.Encoder writes numbered lines to a    *)
(* file or a pipe, stream.Read's goroutine decodes them and sends them on  *)
(* a bounded channel, and the client's pump (internal/tui) takes one at a  *)
(* time and folds it.  The reader, the writer and the client are separate  *)
(* processes.                                                              *)
(*                                                                         *)
(* A log may reach the reader damaged: a line lost, repeated, cut short by *)
(* a kill, of a kind this build does not know, or with a payload that does *)
(* not decode.                                                             *)
(***************************************************************************)
EXTENDS Integers, SequencesExt

CONSTANTS MaxLines, \* bound on the lines of the log
          Buffer,   \* stream.buffer, the capacity of the event channel
          Damage,   \* what may happen to a log on its way
          Paced     \* Options.Speed > 0: the reader waits between events

Damages == {"lost", "repeated", "torn", "unknown", "malformed", "refused"}

ASSUME StreamAssumption == /\ MaxLines \in Nat \ {0}
                           /\ Buffer \in Nat \ {0}
                           /\ Damage \subseteq Damages
                           /\ Paced \in BOOLEAN

\* "refused" is an event that decodes and that session.Apply refuses.
Line == [seq : 1..MaxLines, kind : {"known", "unknown", "malformed", "refused"}]

VARIABLES log,       \* the lines written so far
          encSeq,    \* Encoder.seq
          ended,     \* how the log ends: "open", "eof" or "torn"
          pos,       \* lines the decoder has consumed
          lastSeq,   \* Decoder.lastSeq
          reader,    \* where the reader's goroutine is
          cur,       \* the event it is about to send, or <<>>
          chan,      \* Reader.events
          closed,    \* Reader.events is closed
          done,      \* what Reader.done ever received
          cancelled, \* ctx is done
          pump,      \* the client's next(): "waiting", "delivered", "idle"
          msg,       \* the message the pump brings to Update
          folded,    \* history: the events Update applied
          client     \* "attached", "ended" (streamEndedMsg) or "quit"

writerVars == <<log, encSeq, ended>>
readerVars == <<pos, lastSeq, reader, cur, done>>
clientVars == <<pump, msg, folded, client, cancelled>>
vars == <<writerVars, readerVars, chan, closed, clientVars>>

-----------------------------------------------------------------------------
(* The writer *)

\* Encoder.Append takes the next number whatever becomes of the line.
AppendLine ==
  /\ ended = "open" /\ encSeq < MaxLines
  /\ encSeq' = encSeq + 1
  /\ \/ \E kind \in {"known"} \cup (Damage \cap {"unknown", "malformed", "refused"}) :
          log' = Append(log, [seq |-> encSeq + 1, kind |-> kind])
     \/ /\ "lost" \in Damage
        /\ log' = log
     \/ /\ "repeated" \in Damage /\ encSeq > 0
        /\ log' = Append(log, [seq |-> encSeq, kind |-> "known"])
  /\ UNCHANGED <<ended, readerVars, chan, closed, clientVars>>

\* The agent exits, or is killed in the middle of a line.
EndLog ==
  /\ ended = "open"
  /\ ended' \in {"eof"} \cup (Damage \cap {"torn"})
  /\ UNCHANGED <<log, encSeq, readerVars, chan, closed, clientVars>>

-----------------------------------------------------------------------------
(* The reader *)

\* s.done <- ErrMsg{err}; the deferred close follows in a step of its own.
Report(err) == /\ done' = Append(done, err)
               /\ reader' = "closing"

checkSeq(seq) == seq = lastSeq + 1

MutEndOfLogTorn == ended # "open"

EndOfLog == ended = "eof"

\* Decoder.Next at the end of what was written: it blocks while the log may
\* grow, and tells the end of the log from a line cut short.
DecodeEnd ==
  /\ reader = "decode" /\ pos = Len(log) /\ ended # "open"
  /\ Report(IF EndOfLog THEN "nil" ELSE "malformed")
  /\ UNCHANGED <<writerVars, pos, lastSeq, cur, chan, closed, clientVars>>

\* Decoder.Next on a line: out of sequence, of an unknown kind, malformed, or
\* an event to deliver.  A payload that does not decode is looked at after the
\* number; a line that is no JSON fails before it, so that after a lost line the
\* code names that one malformed where the model says out of sequence: the same
\* end, under another name.
DecodeLine ==
  /\ reader = "decode" /\ pos < Len(log)
  /\ LET line == log[pos + 1]
     IN  /\ pos' = pos + 1
         /\ \/ /\ ~checkSeq(line.seq)
               /\ Report("sequence")
               /\ UNCHANGED <<lastSeq, cur>>
            \/ /\ checkSeq(line.seq)
               /\ lastSeq' = line.seq
               /\ \/ /\ line.kind = "unknown"
                     /\ UNCHANGED <<reader, cur, done>>
                  \/ /\ line.kind = "malformed"
                     /\ Report("malformed")
                     /\ UNCHANGED cur
                  \/ /\ line.kind \in {"known", "refused"}
                     /\ cur' = <<line>>
                     /\ reader' = IF Paced THEN "pace" ELSE "send"
                     /\ UNCHANGED done
  /\ UNCHANGED <<writerVars, chan, closed, clientVars>>

PaceOver ==
  /\ reader = "pace"
  /\ reader' = "send"
  /\ UNCHANGED <<writerVars, pos, lastSeq, cur, done, chan, closed, clientVars>>

MutHasRoomForOneMore == Len(chan) <= Buffer

HasRoom == Len(chan) < Buffer

\* The select takes a ready send and a done context in either order.
Send ==
  /\ reader = "send" /\ HasRoom
  /\ chan' = chan \o cur
  /\ cur' = <<>>
  /\ reader' = "decode"
  /\ UNCHANGED <<writerVars, pos, lastSeq, done, closed, clientVars>>

MutStopWaiting == {"pace"}

Waiting == {"pace", "send"}

StopOnCancel ==
  /\ reader \in Waiting /\ cancelled
  /\ Report("cancelled")
  /\ UNCHANGED <<writerVars, pos, lastSeq, cur, chan, closed, clientVars>>

Close ==
  /\ reader = "closing"
  /\ closed' = TRUE
  /\ reader' = "stopped"
  /\ UNCHANGED <<writerVars, pos, lastSeq, cur, done, chan, clientVars>>

-----------------------------------------------------------------------------
(* The client *)

\* next() takes one event, or sees the channel closed and drained.
Receive ==
  /\ pump = "waiting" /\ chan # <<>>
  /\ msg' = <<Head(chan)>>
  /\ chan' = Tail(chan)
  /\ pump' = "delivered"
  /\ UNCHANGED <<writerVars, readerVars, closed, folded, client, cancelled>>

ReceiveClosed ==
  /\ pump = "waiting" /\ chan = <<>> /\ closed
  /\ msg' = <<>>
  /\ pump' = "delivered"
  /\ UNCHANGED <<writerVars, readerVars, chan, closed, folded, client, cancelled>>

\* Update: fold the event and wait for the next one; an event the fold
\* refuses quits, and the end of the stream only detaches the pump.
MutRearmNever == "idle"

Rearm == "waiting"

Update ==
  /\ pump = "delivered" /\ client = "attached"
  /\ \/ /\ msg = <<>>
        /\ client' = "ended" /\ pump' = "idle"
        /\ UNCHANGED folded
     \/ /\ msg # <<>> /\ msg[1].kind = "refused"
        /\ client' = "quit" /\ pump' = "idle"
        /\ UNCHANGED folded
     \/ /\ msg # <<>> /\ msg[1].kind # "refused"
        /\ folded' = Append(folded, msg[1])
        /\ pump' = Rearm
        /\ UNCHANGED client
  /\ msg' = <<>>
  /\ UNCHANGED <<writerVars, readerVars, chan, closed, cancelled>>

\* ctrl-c: the program returns without taking what the pump still holds.
Quit ==
  /\ client # "quit"
  /\ client' = "quit"
  /\ pump' = "idle"
  /\ msg' = <<>>
  /\ UNCHANGED <<writerVars, readerVars, chan, closed, folded, cancelled>>

\* main returns once the program has: the deferred cancel.
CancelReader ==
  /\ client = "quit" /\ ~cancelled
  /\ cancelled' = TRUE
  /\ UNCHANGED <<writerVars, readerVars, chan, closed, pump, msg, folded, client>>

-----------------------------------------------------------------------------
Init ==
  /\ log = <<>> /\ encSeq = 0 /\ ended = "open"
  /\ pos = 0 /\ lastSeq = 0 /\ reader = "decode" /\ cur = <<>>
  /\ chan = <<>> /\ closed = FALSE /\ done = <<>>
  /\ cancelled = FALSE
  /\ pump = "waiting" /\ msg = <<>> /\ folded = <<>> /\ client = "attached"

Reader == DecodeEnd \/ DecodeLine \/ PaceOver \/ Send \/ StopOnCancel \/ Close

Client == Receive \/ ReceiveClosed \/ Update \/ CancelReader

Next == AppendLine \/ EndLog \/ Reader \/ Client \/ Quit

Spec == Init /\ [][Next]_vars

(***************************************************************************)
(* The goroutine runs, its timer fires, and Bubble Tea runs every command  *)
(* and every Update; nothing makes a writer write, end its log or a person *)
(* quit.                                                                   *)
(***************************************************************************)
FairSpec == Spec /\ WF_vars(Reader) /\ WF_vars(Client)

-----------------------------------------------------------------------------
(* Properties *)

\* Types; the reader waits to send only with an event in hand, the channel
\* holds no more than its capacity, and the pump no more than one event
\* (stream.go:47,64,81-98).
TypeOK ==
  /\ log \in Seq(Line) /\ encSeq \in 0..MaxLines
  /\ ended \in {"open", "eof", "torn"}
  /\ pos \in 0..Len(log) /\ lastSeq \in 0..MaxLines
  /\ reader \in {"decode", "pace", "send", "closing", "stopped"}
  /\ cur \in BoundedSeq(Line, 1)
  /\ reader \in {"pace", "send"} => cur # <<>>
  /\ chan \in BoundedSeq(Line, Buffer) /\ closed \in BOOLEAN
  /\ done \in Seq({"nil", "malformed", "sequence", "cancelled"})
  /\ cancelled \in BOOLEAN
  /\ pump \in {"waiting", "delivered", "idle"} /\ msg \in BoundedSeq(Line, 1)
  /\ folded \in Seq(Line)
  /\ client \in {"attached", "ended", "quit"}

IsEvent(line) == line.kind \in {"known", "refused"}

\* The events of the first n lines.
Deliverable(n) == {log[i] : i \in {j \in 1..n : IsEvent(log[j])}}

InOrder(events) ==
  \A i, j \in DOMAIN events : i < j => events[i].seq < events[j].seq

Numbered(n) == \A i \in 1..n : log[i].seq = i

\* No event comes before one of these and is not among them.
NothingSkipped(events) ==
  \A e \in ToSet(events) : Deliverable(e.seq) \subseteq ToSet(events)

\* What reached the client, what is on its way, and what the reader holds are
\* the log's own events: in order, none twice, none that follows damage, and
\* none missing but what a client that quit did not take
\* (stream.go:66-100, event.go:109-143).
DeliveredInOrder ==
  LET sent == folded \o msg \o chan \o cur
  IN  /\ Numbered(lastSeq)
      /\ InOrder(sent) /\ ToSet(sent) \subseteq Deliverable(lastSeq)
      /\ NothingSkipped(folded)
      /\ client # "quit" => ToSet(sent) = Deliverable(lastSeq)

\* What holds of the stream between any two steps.
ReaderInv == TypeOK /\ DeliveredInOrder

LogFeed == INSTANCE Feed WITH shown <- folded, reason <- done

\* The goroutine, its channel and the pump are, for the one who watches, the
\* log itself: every event in order and none after damage, a reason that is
\* true of the log (a nil error only for a log read to its end), the end only
\* after the last event, and nothing withheld for ever from a client that stays
\* (stream.go:54-100, event.go:109-143, tui.go:109-166).
ImplementsFeed == LogFeed!Spec

\* A client that keeps reading a log that ended sees all of it, then its end,
\* unless someone quits (tui.go:109-124,155-166).
EverythingIsShown ==
  ended = "eof" ~> \/ client = "quit"
                   \/ client = "ended" /\ (done = <<"nil">> =>
                                             ToSet(folded) = Deliverable(Len(log)))

\* A reader stuck behind a full channel or a pause ends once its context is
\* cancelled (stream.go:81-98).
CancelEndsAWait ==
  cancelled /\ reader \in {"pace", "send"} ~> reader \in {"decode", "stopped"}
=============================================================================
