------------------------- MODULE EventStreamProofs --------------------------
(***************************************************************************)
(* The event stream for every length of log, capacity of the channel and   *)
(* kind of damage: what is delivered is the log's own events in order, and *)
(* every step of writer, reader and client is one that Feed allows or is   *)
(* invisible to the one who watches.                                       *)
(***************************************************************************)
EXTENDS EventStream, SequenceTheorems, TLAPS

\* What the client has folded, the pump brings, the channel holds and the
\* reader is about to send, in that order.
Sent == folded \o msg \o chan \o cur

Reasons == {"nil", "malformed", "sequence", "cancelled"}

\* Who waits for whom.
Control ==
  /\ cur # <<>> => reader \in {"pace", "send"} \/ done = <<"cancelled">>
  /\ done = <<>> <=> reader \in {"decode", "pace", "send"}
  /\ done = <<>> \/ \E r \in Reasons : done = <<r>>
  /\ closed <=> reader = "stopped"
  /\ cancelled \/ done = <<"cancelled">> => client = "quit"
  /\ pump = "idle" <=> client # "attached"
  /\ msg # <<>> => pump = "delivered"
  /\ pump = "delivered" /\ msg = <<>> => closed /\ chan = <<>>

\* The decoder is at the line of its number, unless that one was out of
\* sequence, and has read on after no malformed one.
Position ==
  /\ lastSeq <= Len(log)
  /\ pos = lastSeq \/ (pos = lastSeq + 1 /\ done = <<"sequence">>)
  /\ \A i \in 1..lastSeq :
       log[i].kind = "malformed" => i = lastSeq /\ done = <<"malformed">>

Whole(n) == \A i \in 1..n : log[i].seq = i /\ log[i].kind # "malformed"

\* A reader that was not cancelled has read all that can be read.
AtTheEnd ==
  done \notin {<<>>, <<"cancelled">>} =>
    \/ ended # "open" /\ lastSeq = Len(log)
    \/ lastSeq < Len(log) /\ ~Whole(lastSeq + 1)
    \/ ~Whole(lastSeq)

HasEnd == \E n \in 0..Len(log) : Whole(n) /\ (n < Len(log) => ~Whole(n + 1))

StreamInv == TypeOK /\ Control /\ Position /\ AtTheEnd /\ HasEnd /\ DeliveredInOrder

-----------------------------------------------------------------------------
(* Sequences *)

LEMMA Bounded ==
  ASSUME NEW S, NEW n \in Nat, NEW s
  PROVE  s \in BoundedSeq(S, n) <=> s \in Seq(S) /\ Len(s) <= n
<1>1. ASSUME s \in BoundedSeq(S, n) PROVE s \in Seq(S) /\ Len(s) <= n
  <2>1. PICK m \in 0..n : s \in [1..m -> S]
    BY <1>1 DEF BoundedSeq, SeqOf
  <2> QED BY <2>1
<1>2. ASSUME s \in Seq(S), Len(s) <= n PROVE s \in BoundedSeq(S, n)
  <2>1. Len(s) \in 0..n /\ s \in [1..Len(s) -> S]
    BY <1>2, LenProperties
  <2> QED BY <2>1 DEF BoundedSeq, SeqOf
<1> QED BY <1>1, <1>2

LEMMA OneAtMost ==
  ASSUME NEW S, NEW s \in BoundedSeq(S, 1)
  PROVE  s = <<>> \/ (s = <<s[1]>> /\ s[1] \in S)
<1>1. s \in Seq(S) /\ Len(s) <= 1
  BY Bounded
<1>2. CASE Len(s) = 0
  BY <1>1, <1>2, EmptySeq
<1>3. CASE Len(s) = 1
  <2>1. s[1] \in S /\ <<s[1]>> \in Seq(S) /\ Len(<<s[1]>>) = 1
    BY <1>1, <1>3, ElementOfSeq
  <2>2. \A i \in 1..1 : s[i] = <<s[1]>>[i]
    OBVIOUS
  <2>3. s = <<s[1]>>
    BY <1>1, <1>3, <2>1, <2>2, SeqEqual
  <2> QED BY <2>1, <2>3
<1>4. Len(s) = 0 \/ Len(s) = 1
  <2>1. Len(s) \in Nat
    BY <1>1, LenProperties
  <2>2. \A n \in Nat : n <= 1 => n = 0 \/ n = 1
    OBVIOUS
  <2> QED BY <1>1, <2>1, <2>2
<1> QED BY <1>2, <1>3, <1>4

LEMMA OneIsBounded ==
  ASSUME NEW S, NEW x \in S
  PROVE  <<x>> \in BoundedSeq(S, 1)
<1>1. <<x>> \in Seq(S) /\ Len(<<x>>) <= 1
  OBVIOUS
<1> QED BY <1>1, Bounded

LEMMA NoneIsBounded ==
  ASSUME NEW S, NEW n \in Nat
  PROVE  <<>> \in BoundedSeq(S, n)
<1>1. <<>> \in Seq(S) /\ Len(<<>>) <= n
  OBVIOUS
<1> QED BY <1>1, Bounded

LEMMA SentParts ==
  ASSUME TypeOK
  PROVE  /\ Sent \in Seq(Line)
         /\ folded \in Seq(Line) /\ msg \in Seq(Line)
         /\ chan \in Seq(Line) /\ cur \in Seq(Line)
         /\ Len(msg) <= 1 /\ Len(cur) <= 1 /\ Len(chan) <= Buffer
<1>1. /\ folded \in Seq(Line) /\ msg \in Seq(Line)
      /\ chan \in Seq(Line) /\ cur \in Seq(Line)
      /\ Len(msg) <= 1 /\ Len(cur) <= 1 /\ Len(chan) <= Buffer
  BY Bounded, StreamAssumption DEF TypeOK
<1>2. Sent \in Seq(Line)
  BY <1>1, ConcatProperties DEF Sent
<1> QED BY <1>1, <1>2

-----------------------------------------------------------------------------
(* Types *)

LEMMA InitTyped == Init => TypeOK
<1> SUFFICES ASSUME Init PROVE TypeOK
  OBVIOUS
<1>1. <<>> \in BoundedSeq(Line, 1) /\ <<>> \in BoundedSeq(Line, Buffer)
  BY NoneIsBounded, StreamAssumption
<1>2. /\ <<>> \in Seq(Line) /\ Len(<<>>) = 0
      /\ <<>> \in Seq({"nil", "malformed", "sequence", "cancelled"})
  OBVIOUS
<1>3. 0 \in 0..MaxLines /\ 0 \in 0..0
  BY StreamAssumption
<1> QED BY <1>1, <1>2, <1>3 DEF Init, TypeOK

LEMMA WriterTyped ==
  ASSUME TypeOK, AppendLine \/ EndLog
  PROVE  TypeOK'
<1>1. CASE AppendLine
  <2>1. log' \in Seq(Line) /\ Len(log) <= Len(log')
    <3>1. CASE log' = log
      BY <3>1 DEF TypeOK
    <3>2. CASE \E line \in Line : log' = Append(log, line)
      BY <3>2 DEF TypeOK
    <3>3. log' = log \/ \E line \in Line : log' = Append(log, line)
      <4>1. encSeq + 1 \in 1..MaxLines /\ (encSeq > 0 => encSeq \in 1..MaxLines)
        BY <1>1, StreamAssumption DEF AppendLine, TypeOK
      <4> QED BY <1>1, <4>1 DEF AppendLine, Line
    <3> QED BY <3>1, <3>2, <3>3
  <2>2. encSeq' \in 0..MaxLines
    BY <1>1, StreamAssumption DEF AppendLine, TypeOK
  <2>3. pos \in 0..Len(log')
    BY <2>1 DEF TypeOK
  <2> QED BY <1>1, <2>1, <2>2, <2>3 DEF AppendLine, TypeOK, readerVars, clientVars
<1>2. CASE EndLog
  BY <1>2 DEF EndLog, TypeOK, readerVars, clientVars, Damages
<1> QED BY <1>1, <1>2

\* What becomes of the line that is read.
Rejects  == /\ log[pos + 1].seq # lastSeq + 1
            /\ Report("sequence") /\ UNCHANGED <<lastSeq, cur>>
PassesBy == /\ log[pos + 1].kind = "unknown"
            /\ lastSeq' = lastSeq + 1 /\ UNCHANGED <<reader, cur, done>>
Breaks   == /\ log[pos + 1].kind = "malformed"
            /\ lastSeq' = lastSeq + 1 /\ Report("malformed") /\ UNCHANGED cur
Keeps    == /\ IsEvent(log[pos + 1])
            /\ lastSeq' = lastSeq + 1 /\ cur' = <<log[pos + 1]>>
            /\ reader' \in {"pace", "send"} /\ UNCHANGED done

LEMMA Decoding ==
  ASSUME DecodeLine
  PROVE  /\ reader = "decode" /\ pos < Len(log) /\ pos' = pos + 1
         /\ UNCHANGED <<log, encSeq, ended, chan, closed, pump, msg, folded, client,
                       cancelled>>
         /\ Rejects \/ (log[pos + 1].seq = lastSeq + 1 /\ (PassesBy \/ Breaks \/ Keeps))
BY DEF DecodeLine, checkSeq, writerVars, clientVars, IsEvent, Rejects, PassesBy,
       Breaks, Keeps

LEMMA ReaderTyped ==
  ASSUME TypeOK, Reader
  PROVE  TypeOK'
<1> USE DEF writerVars, clientVars
<1>1. CASE DecodeEnd
  BY <1>1 DEF DecodeEnd, Report, EndOfLog, TypeOK
<1>2. CASE DecodeLine
  <2>1. log[pos + 1] \in Line /\ pos + 1 \in 0..Len(log)
    BY <1>2 DEF DecodeLine, TypeOK
  <2>2. log[pos + 1].seq \in 0..MaxLines
    BY <2>1, StreamAssumption DEF Line
  <2>3. log[pos + 1].seq = lastSeq + 1 => lastSeq + 1 \in 0..MaxLines
    BY <2>2
  <2>4. <<log[pos + 1]>> \in BoundedSeq(Line, 1) /\ <<log[pos + 1]>> # <<>>
    BY <2>1, OneIsBounded
  <2>5. CASE Rejects
    BY <1>2, <2>1, <2>5, Decoding DEF Rejects, Report, TypeOK
  <2>6. CASE log[pos + 1].seq = lastSeq + 1 /\ PassesBy
    BY <1>2, <2>1, <2>3, <2>6, Decoding DEF PassesBy, TypeOK
  <2>7. CASE log[pos + 1].seq = lastSeq + 1 /\ Breaks
    BY <1>2, <2>1, <2>3, <2>7, Decoding DEF Breaks, Report, TypeOK
  <2>8. CASE log[pos + 1].seq = lastSeq + 1 /\ Keeps
    BY <1>2, <2>1, <2>3, <2>4, <2>8, Decoding DEF Keeps, TypeOK
  <2> QED BY <1>2, <2>5, <2>6, <2>7, <2>8, Decoding
<1>3. CASE PaceOver
  BY <1>3 DEF PaceOver, TypeOK
<1>4. CASE Send
  <2>1. chan \o cur \in Seq(Line) /\ Len(chan \o cur) <= Buffer
    BY <1>4, SentParts, ConcatProperties, StreamAssumption DEF Send, HasRoom
  <2>2. chan' \in BoundedSeq(Line, Buffer) /\ cur' \in BoundedSeq(Line, 1)
    BY <1>4, <2>1, Bounded, NoneIsBounded, StreamAssumption DEF Send
  <2> QED BY <1>4, <2>2 DEF Send, TypeOK
<1>5. CASE StopOnCancel
  BY <1>5 DEF StopOnCancel, Report, TypeOK
<1>6. CASE Close
  BY <1>6 DEF Close, TypeOK
<1> QED BY <1>1, <1>2, <1>3, <1>4, <1>5, <1>6 DEF Reader

LEMMA ClientTyped ==
  ASSUME TypeOK, Client \/ Quit
  PROVE  TypeOK'
<1> USE DEF writerVars, readerVars
<1>0. <<>> \in BoundedSeq(Line, 1)
  BY NoneIsBounded
<1>1. CASE Receive
  <2>1. Head(chan) \in Line /\ Tail(chan) \in Seq(Line) /\ Len(Tail(chan)) <= Buffer
    BY <1>1, SentParts, HeadTailProperties, LenProperties, StreamAssumption DEF Receive
  <2>2. msg' \in BoundedSeq(Line, 1) /\ chan' \in BoundedSeq(Line, Buffer)
    BY <1>1, <2>1, OneIsBounded, Bounded, StreamAssumption DEF Receive
  <2> QED BY <1>1, <2>2 DEF Receive, TypeOK
<1>2. CASE ReceiveClosed
  BY <1>0, <1>2 DEF ReceiveClosed, TypeOK
<1>3. CASE Update
  <2>1. folded' \in Seq(Line)
    <3>1. folded' = folded \/ (msg # <<>> /\ folded' = Append(folded, msg[1]))
      BY <1>3 DEF Update
    <3>2. folded \in Seq(Line) /\ (msg # <<>> => msg[1] \in Line)
      BY OneAtMost DEF TypeOK
    <3> QED BY <3>1, <3>2
  <2> QED BY <1>0, <1>3, <2>1 DEF Update, Rearm, TypeOK
<1>4. CASE CancelReader
  BY <1>4 DEF CancelReader, TypeOK
<1>5. CASE Quit
  BY <1>0, <1>5 DEF Quit, TypeOK
<1> QED BY <1>1, <1>2, <1>3, <1>4, <1>5 DEF Client

LEMMA StepTyped ==
  ASSUME TypeOK, [Next]_vars
  PROVE  TypeOK'
<1>1. CASE UNCHANGED vars
  BY <1>1 DEF vars, writerVars, readerVars, clientVars, TypeOK
<1> QED BY <1>1, WriterTyped, ReaderTyped, ClientTyped DEF Next

-----------------------------------------------------------------------------
(* Who waits for whom, and how far the log can be read *)

LEMMA ControlHolds ==
  /\ Init => Control
  /\ TypeOK /\ Control /\ [Next]_vars => Control'
<1>1. Init => Control
  BY DEF Init, Control
<1>2. ASSUME TypeOK, Control, [Next]_vars PROVE Control'
  <2>0. done = <<>> => \A r \in Reasons : Append(done, r) = <<r>> /\ <<r>> # <<>>
    OBVIOUS
  <2>1. CASE AppendLine \/ EndLog \/ UNCHANGED vars
    BY <1>2, <2>1 DEF AppendLine, EndLog, Control, vars, writerVars, readerVars, clientVars
  <2>2. CASE DecodeEnd
    BY <1>2, <2>0, <2>2 DEF DecodeEnd, Report, EndOfLog, Control, Reasons, writerVars, clientVars
  <2>3. CASE DecodeLine
    <3>1. CASE Rejects
      BY <1>2, <2>0, <2>3, <3>1, Decoding DEF Rejects, Report, Control, Reasons
    <3>2. CASE PassesBy
      BY <1>2, <2>3, <3>2, Decoding DEF PassesBy, Control
    <3>3. CASE Breaks
      BY <1>2, <2>0, <2>3, <3>3, Decoding DEF Breaks, Report, Control, Reasons
    <3>4. CASE Keeps
      BY <1>2, <2>3, <3>4, Decoding DEF Keeps, Control
    <3> QED BY <2>3, <3>1, <3>2, <3>3, <3>4, Decoding
  <2>4. CASE PaceOver
    BY <1>2, <2>4 DEF PaceOver, Control, writerVars, clientVars
  <2>5. CASE Send
    BY <1>2, <2>5 DEF Send, Control, writerVars, clientVars
  <2>6. CASE StopOnCancel
    BY <1>2, <2>0, <2>6 DEF StopOnCancel, Waiting, Report, Control, Reasons, writerVars, clientVars
  <2>7. CASE Close
    BY <1>2, <2>7 DEF Close, Control, writerVars, clientVars
  <2>8. CASE Receive \/ ReceiveClosed
    BY <1>2, <2>8 DEF Receive, ReceiveClosed, Control, writerVars, readerVars
  <2>9. CASE Update
    BY <1>2, <2>9 DEF Update, Rearm, Control, writerVars, readerVars
  <2>10. CASE CancelReader \/ Quit
    BY <1>2, <2>10 DEF CancelReader, Quit, Control, writerVars, readerVars
  <2> QED BY <1>2, <2>1, <2>2, <2>3, <2>4, <2>5, <2>6, <2>7, <2>8, <2>9, <2>10
          DEF Next, Reader, Client
<1> QED BY <1>1, <1>2

\* A log only grows, and only while it is open.
LEMMA LogGrows ==
  ASSUME TypeOK, [Next]_vars
  PROVE  /\ Len(log') \in Nat /\ Len(log) <= Len(log') /\ Len(log') <= Len(log) + 1
         /\ \A i \in 1..Len(log) : log'[i] = log[i]
         /\ ended # "open" => log' = log /\ ended' = ended
<1>1. log \in Seq(Line) /\ Len(log) \in Nat
  BY DEF TypeOK
<1>2. CASE log' = log /\ (ended # "open" => ended' = ended)
  BY <1>1, <1>2
<1>3. CASE \E x : log' = Append(log, x) /\ ended = "open"
  <2>1. PICK x : log' = Append(log, x) /\ ended = "open"
    BY <1>3
  <2>2. log' \in Seq(Line \cup {x}) /\ log \in Seq(Line \cup {x})
    BY <1>1, <2>1, SeqMonotonic
  <2>3. Len(log') = Len(log) + 1 /\ \A i \in 1..Len(log) : log'[i] = log[i]
    BY <1>1, <2>1, <2>2
  <2> QED BY <1>1, <2>1, <2>3
<1>4. CASE AppendLine
  BY <1>2, <1>3, <1>4 DEF AppendLine
<1>5. ~AppendLine => log' = log /\ (ended # "open" => ended' = ended)
  BY DEF Next, EndLog, Reader, DecodeEnd, DecodeLine, PaceOver, Send, StopOnCancel,
         Close, Client, Receive, ReceiveClosed, Update, CancelReader, Quit, vars, writerVars
<1> QED BY <1>2, <1>4, <1>5

LEMMA WholeKept ==
  ASSUME TypeOK, [Next]_vars, NEW n \in 0..Len(log)
  PROVE  Whole(n)' <=> Whole(n)
<1>1. \A i \in 1..n : log'[i] = log[i]
  BY LogGrows DEF TypeOK
<1> QED BY <1>1 DEF Whole

\* What is not whole up to a line is not whole beyond it.
LEMMA WholeDown ==
  ASSUME NEW n \in Nat, NEW m \in 0..n, Whole(n)
  PROVE  Whole(m)
BY DEF Whole

LEMMA HasEndHolds ==
  /\ Init => HasEnd
  /\ TypeOK /\ HasEnd /\ [Next]_vars => HasEnd'
<1>1. Init => HasEnd
  <2>1. log = <<>> => Len(log) = 0
    OBVIOUS
  <2> QED BY <2>1 DEF Init, HasEnd, Whole
<1>2. ASSUME TypeOK, HasEnd, [Next]_vars PROVE HasEnd'
  <2>1. PICK n \in 0..Len(log) : Whole(n) /\ (n < Len(log) => ~Whole(n + 1))
    BY <1>2 DEF HasEnd
  <2>2. /\ n \in 0..Len(log') /\ Whole(n)' /\ Len(log) \in Nat
        /\ Len(log') \in Nat /\ Len(log') <= Len(log) + 1
    BY <1>2, <2>1, LogGrows, WholeKept DEF TypeOK
  <2>3. CASE n < Len(log)
    <3>1. ~Whole(n + 1)'
      BY <1>2, <2>1, <2>2, <2>3, WholeKept
    <3> QED BY <2>2, <3>1 DEF HasEnd
  <2>4. CASE n = Len(log) /\ n < Len(log') /\ Whole(n + 1)'
    <3>1. n + 1 = Len(log')
      BY <2>2, <2>4
    <3>2. n + 1 \in 0..Len(log') /\ ~(n + 1 < Len(log'))
      BY <2>2, <3>1
    <3> QED BY <2>4, <3>2 DEF HasEnd
  <2>5. CASE n = Len(log) /\ (n < Len(log') => ~Whole(n + 1)')
    BY <2>2, <2>5 DEF HasEnd
  <2> QED BY <2>1, <2>2, <2>3, <2>4, <2>5
<1> QED BY <1>1, <1>2

\* The line that is read is the one after the last.
LEMMA ReadsNext ==
  ASSUME TypeOK, Control, Position, reader = "decode"
  PROVE  /\ pos = lastSeq /\ cur = <<>> /\ done = <<>>
         /\ \A i \in 1..lastSeq : log[i].kind # "malformed"
<1>1. done = <<>> /\ cur = <<>>
  BY DEF Control
<1>2. <<"sequence">> # <<>> /\ <<"malformed">> # <<>> /\ <<"cancelled">> # <<>>
  OBVIOUS
<1> QED BY <1>1, <1>2 DEF Position, Control

LEMMA PositionHolds ==
  /\ Init => Position
  /\ TypeOK /\ Control /\ Position /\ [Next]_vars => Position'
<1>1. Init => Position
  BY DEF Init, Position
<1>2. ASSUME TypeOK, Control, Position, [Next]_vars PROVE Position'
  <2>0. /\ Len(log) \in Nat /\ lastSeq \in Nat /\ pos \in Nat /\ lastSeq <= Len(log)
        /\ lastSeq <= Len(log')
        /\ \A i \in 1..lastSeq : log'[i] = log[i]
    BY <1>2, LogGrows DEF TypeOK, Position
  <2>1. CASE UNCHANGED <<pos, lastSeq, done>>
    BY <1>2, <2>0, <2>1 DEF Position
  <2>2. CASE DecodeEnd \/ StopOnCancel
    <3>1. done = <<>>
      BY <1>2, <2>2 DEF DecodeEnd, StopOnCancel, Waiting, Control
    <3>2. pos = lastSeq /\ \A i \in 1..lastSeq : log[i].kind # "malformed"
      BY <1>2, <3>1 DEF Position
    <3>3. UNCHANGED <<pos, lastSeq, log>>
      BY <2>2 DEF DecodeEnd, StopOnCancel, writerVars
    <3> QED BY <2>0, <3>2, <3>3 DEF Position
  <2>3. CASE DecodeLine
    <3>1. /\ pos = lastSeq /\ lastSeq < Len(log) /\ pos' = lastSeq + 1 /\ log' = log
          /\ done = <<>> /\ \A i \in 1..lastSeq : log[i].kind # "malformed"
      BY <1>2, <2>3, Decoding, ReadsNext
    <3>2. CASE Rejects
      BY <2>0, <3>1, <3>2 DEF Rejects, Report, Position
    <3>3. CASE PassesBy \/ Keeps
      BY <2>0, <3>1, <3>3 DEF PassesBy, Keeps, IsEvent, Position
    <3>4. CASE Breaks
      BY <2>0, <3>1, <3>4 DEF Breaks, Report, Position
    <3> QED BY <2>3, <3>2, <3>3, <3>4, Decoding
  <2> QED BY <1>2, <2>1, <2>2, <2>3 DEF Next, Reader, Client, AppendLine, EndLog, PaceOver,
             Send, Close, Receive, ReceiveClosed, Update, CancelReader, Quit, vars, readerVars
<1> QED BY <1>1, <1>2

LEMMA AtTheEndHolds ==
  /\ Init => AtTheEnd
  /\ TypeOK /\ Control /\ Position /\ AtTheEnd /\ [Next]_vars => AtTheEnd'
<1>1. Init => AtTheEnd
  BY DEF Init, AtTheEnd
<1>2. ASSUME TypeOK, Control, Position, AtTheEnd, [Next]_vars PROVE AtTheEnd'
  <2>0. /\ Len(log) \in Nat /\ lastSeq \in Nat /\ lastSeq <= Len(log)
        /\ Len(log') \in Nat /\ Len(log) <= Len(log')
        /\ ended # "open" => log' = log /\ ended' = ended
    BY <1>2, LogGrows DEF TypeOK, Position
  <2>1. CASE UNCHANGED <<lastSeq, done>>
    <3>1. Whole(lastSeq)' <=> Whole(lastSeq)
      BY <1>2, <2>0, <2>1, WholeKept DEF Whole
    <3>2. lastSeq < Len(log) => (Whole(lastSeq + 1)' <=> Whole(lastSeq + 1))
      BY <1>2, <2>0, <2>1, WholeKept DEF Whole
    <3> QED BY <1>2, <2>0, <2>1, <3>1, <3>2 DEF AtTheEnd
  <2>2. CASE DecodeEnd
    <3>1. pos = lastSeq
      BY <1>2, <2>2, ReadsNext DEF DecodeEnd
    <3> QED BY <2>2, <3>1 DEF DecodeEnd, AtTheEnd, writerVars
  <2>3. CASE StopOnCancel
    <3>1. done' = <<"cancelled">>
      <4>1. done = <<>> /\ Append(<<>>, "cancelled") = <<"cancelled">>
        BY <1>2, <2>3 DEF StopOnCancel, Waiting, Control
      <4> QED BY <2>3, <4>1 DEF StopOnCancel, Report
    <3> QED BY <3>1 DEF AtTheEnd
  <2>4. CASE DecodeLine
    <3>1. pos = lastSeq /\ lastSeq < Len(log) /\ log' = log /\ done = <<>>
      BY <1>2, <2>4, Decoding, ReadsNext
    <3>2. CASE Rejects
      <4>1. ~Whole(lastSeq + 1)' /\ lastSeq' = lastSeq
        BY <2>0, <3>1, <3>2 DEF Rejects, Whole
      <4> QED BY <2>0, <3>1, <4>1 DEF AtTheEnd
    <3>3. CASE PassesBy \/ Keeps
      BY <3>1, <3>3 DEF PassesBy, Keeps, AtTheEnd
    <3>4. CASE Breaks
      <4>1. ~Whole(lastSeq)'
        BY <2>0, <3>1, <3>4 DEF Breaks, Whole
      <4> QED BY <4>1 DEF AtTheEnd
    <3> QED BY <2>4, <3>2, <3>3, <3>4, Decoding
  <2> QED BY <1>2, <2>1, <2>2, <2>3, <2>4 DEF Next, Reader, Client, AppendLine, EndLog,
             PaceOver, Send, Close, Receive, ReceiveClosed, Update, CancelReader, Quit,
             vars, readerVars
<1> QED BY <1>1, <1>2

-----------------------------------------------------------------------------
(* Delivery *)

LEMMA FourParts ==
  ASSUME NEW S, NEW f \in Seq(S), NEW m \in Seq(S), NEW c \in Seq(S), NEW u \in Seq(S)
  PROVE  /\ f \o m \o c \o u \in Seq(S)
         /\ Len(f \o m \o c \o u) = Len(f) + Len(m) + Len(c) + Len(u)
         /\ \A i \in 1..(Len(f) + Len(m) + Len(c) + Len(u)) : (f \o m \o c \o u)[i] =
              IF i <= Len(f) THEN f[i]
              ELSE IF i <= Len(f) + Len(m) THEN m[i - Len(f)]
              ELSE IF i <= Len(f) + Len(m) + Len(c) THEN c[i - Len(f) - Len(m)]
              ELSE u[i - Len(f) - Len(m) - Len(c)]
<1> DEFINE fm == f \o m
           fmc == fm \o c
<1>0. Len(f) \in Nat /\ Len(m) \in Nat /\ Len(c) \in Nat /\ Len(u) \in Nat
  BY LenProperties
<1>f. fm \in Seq(S)
  BY ConcatProperties
<1>1. /\ Len(fm) = Len(f) + Len(m)
      /\ \A i \in 1..(Len(f) + Len(m)) :
           fm[i] = IF i <= Len(f) THEN f[i] ELSE m[i - Len(f)]
  BY ConcatProperties
<1> HIDE DEF fm
<1>c. fmc \in Seq(S)
  BY <1>f, ConcatProperties
<1>2. /\ Len(fmc) = Len(fm) + Len(c)
      /\ \A i \in 1..(Len(fm) + Len(c)) :
           fmc[i] = IF i <= Len(fm) THEN fm[i] ELSE c[i - Len(fm)]
  BY <1>f, ConcatProperties
<1> HIDE DEF fmc
<1>3. /\ fmc \o u \in Seq(S) /\ Len(fmc \o u) = Len(fmc) + Len(u)
      /\ \A i \in 1..(Len(fmc) + Len(u)) :
           (fmc \o u)[i] = IF i <= Len(fmc) THEN fmc[i] ELSE u[i - Len(fmc)]
  BY <1>c, ConcatProperties
<1>4. f \o m \o c \o u = fmc \o u
  BY DEF fm, fmc
<1>5. \A i \in 1..(Len(f) + Len(m) + Len(c) + Len(u)) : (fmc \o u)[i] =
              IF i <= Len(f) THEN f[i]
              ELSE IF i <= Len(f) + Len(m) THEN m[i - Len(f)]
              ELSE IF i <= Len(f) + Len(m) + Len(c) THEN c[i - Len(f) - Len(m)]
              ELSE u[i - Len(f) - Len(m) - Len(c)]
  BY <1>0, <1>1, <1>2, <1>3
<1> QED BY <1>0, <1>1, <1>2, <1>3, <1>4, <1>5

\* What was folded, what the pump handed over, what the channel holds and what
\* the reader holds, one after the other: Sent by another name.
Joined(f, m, c, u) == f \o m \o c \o u

LEMMA SentIsJoined == /\ Sent = Joined(folded, msg, chan, cur)
                      /\ Sent' = Joined(folded', msg', chan', cur')
BY DEF Sent, Joined

\* A reader that sends what it holds changes no order.
LEMMA ReaderSends ==
  ASSUME NEW S, NEW f \in Seq(S), NEW m \in Seq(S), NEW c \in Seq(S), NEW u \in Seq(S)
  PROVE  Joined(f, m, c \o u, <<>>) = Joined(f, m, c, u)
<1>1. f \o m \in Seq(S) /\ c \o u \in Seq(S) /\ f \o m \o (c \o u) \in Seq(S)
  BY ConcatProperties
<1>2. f \o m \o (c \o u) \o <<>> = f \o m \o (c \o u)
  BY <1>1, ConcatEmptySeq
<1>3. f \o m \o (c \o u) = f \o m \o c \o u
  <2> DEFINE fm == f \o m
  <2>1. fm \in Seq(S)
    BY <1>1
  <2> HIDE DEF fm
  <2>2. (fm \o c) \o u = fm \o (c \o u)
    BY <2>1, ConcatAssociative
  <2> QED BY <2>2 DEF fm
<1> QED BY <1>2, <1>3 DEF Joined

\* Nor does a pump that takes the first event the channel holds.
LEMMA PumpTakes ==
  ASSUME NEW S, NEW f \in Seq(S), NEW c \in Seq(S), NEW u \in Seq(S)
  PROVE  c # <<>> => Joined(f, <<Head(c)>>, Tail(c), u) = Joined(f, <<>>, c, u)
<1> HAVE c # <<>>
<1>1. Head(c) \in S /\ Tail(c) \in Seq(S) /\ <<Head(c)>> \in Seq(S)
  BY HeadTailProperties
<1>2. c = <<Head(c)>> \o Tail(c)
  <2>1. <<Head(c)>> \o Tail(c) \in Seq(S)
    BY <1>1, ConcatProperties
  <2>2. Len(<<Head(c)>> \o Tail(c)) = Len(c)
    BY <1>1, ConcatProperties, HeadTailProperties, LenProperties
  <2>3. \A i \in 1..Len(c) : c[i] = (<<Head(c)>> \o Tail(c))[i]
    BY <1>1, ConcatProperties, HeadTailProperties, LenProperties
  <2> QED BY <2>1, <2>2, <2>3, SeqEqual
<1>3. f \o <<Head(c)>> \o Tail(c) = f \o (<<Head(c)>> \o Tail(c))
  BY <1>1, ConcatAssociative
<1>4. f \o <<>> = f
  BY ConcatEmptySeq
<1> QED BY <1>2, <1>3, <1>4 DEF Joined

\* Nor does an Update that folds the event it was handed.
LEMMA UpdateFolds ==
  ASSUME NEW S, NEW f \in Seq(S), NEW c \in Seq(S), NEW u \in Seq(S), NEW x \in S
  PROVE  Joined(Append(f, x), <<>>, c, u) = Joined(f, <<x>>, c, u)
<1>1. Append(f, x) = f \o <<x>> /\ Append(f, x) \in Seq(S)
  BY AppendIsConcat, AppendProperties
<1>2. Append(f, x) \o <<>> = Append(f, x)
  BY <1>1, ConcatEmptySeq
<1> QED BY <1>1, <1>2 DEF Joined

\* An event of the first n lines has the number of its line.
LEMMA DeliverableAt ==
  ASSUME NEW n \in Nat, Numbered(n), NEW e
  PROVE  e \in Deliverable(n) <=> e.seq \in 1..n /\ e = log[e.seq] /\ IsEvent(e)
BY DEF Deliverable, Numbered

LEMMA OneLineMore ==
  ASSUME NEW n \in Nat
  PROVE  Deliverable(n + 1) = Deliverable(n) \cup
           (IF IsEvent(log[n + 1]) THEN {log[n + 1]} ELSE {})
<1>1. 1..(n + 1) = 1..n \cup {n + 1}
  OBVIOUS
<1> QED BY <1>1 DEF Deliverable

LEMMA SameLines ==
  ASSUME NEW l, NEW k, NEW n \in Nat, \A i \in 1..n : k[i] = l[i]
  PROVE  /\ {k[i] : i \in {j \in 1..n : IsEvent(k[j])}} =
            {l[i] : i \in {j \in 1..n : IsEvent(l[j])}}
         /\ (\A i \in 1..n : k[i].seq = i) <=> (\A i \in 1..n : l[i].seq = i)
<1>1. {j \in 1..n : IsEvent(k[j])} = {j \in 1..n : IsEvent(l[j])}
  OBVIOUS
<1> QED BY <1>1

LEMMA LogKept ==
  ASSUME TypeOK, [Next]_vars, NEW n \in 0..Len(log)
  PROVE  /\ {log'[i] : i \in {j \in 1..n : IsEvent(log'[j])}} = Deliverable(n)
         /\ (\A i \in 1..n : log'[i].seq = i) <=> Numbered(n)
<1>1. n \in Nat /\ \A i \in 1..n : log'[i] = log[i]
  BY LogGrows DEF TypeOK
<1> QED BY <1>1, SameLines DEF Deliverable, Numbered

\* Where an event is between the reader and the screen.
LEMMA SentAt ==
  ASSUME TypeOK
  PROVE  /\ Len(folded) \in Nat /\ Len(msg) \in Nat /\ Len(Sent) \in Nat
         /\ DOMAIN folded = 1..Len(folded) /\ DOMAIN Sent = 1..Len(Sent)
         /\ Len(folded) + Len(msg) <= Len(Sent)
         /\ \A i \in 1..Len(folded) : Sent[i] = folded[i]
         /\ msg # <<>> => Len(msg) = 1 /\ Sent[Len(folded) + 1] = msg[1]
<1>1. /\ folded \in Seq(Line) /\ msg \in Seq(Line) /\ chan \in Seq(Line)
      /\ cur \in Seq(Line) /\ Sent \in Seq(Line) /\ Len(msg) <= 1
  BY SentParts
<1>2. /\ Len(folded) \in Nat /\ Len(msg) \in Nat /\ Len(chan) \in Nat /\ Len(cur) \in Nat
      /\ Len(Sent) \in Nat
      /\ DOMAIN folded = 1..Len(folded) /\ DOMAIN Sent = 1..Len(Sent)
  BY <1>1, LenProperties
<1>3. msg # <<>> => Len(msg) = 1
  <2>1. \A n \in Nat : n <= 1 => n = 0 \/ n = 1
    OBVIOUS
  <2> QED BY <1>1, <1>2, <2>1, EmptySeq
<1>4. /\ Len(Sent) = Len(folded) + Len(msg) + Len(chan) + Len(cur)
      /\ \A i \in 1..Len(Sent) : Sent[i] =
           IF i <= Len(folded) THEN folded[i]
           ELSE IF i <= Len(folded) + Len(msg) THEN msg[i - Len(folded)]
           ELSE IF i <= Len(folded) + Len(msg) + Len(chan)
                THEN chan[i - Len(folded) - Len(msg)]
           ELSE cur[i - Len(folded) - Len(msg) - Len(chan)]
  BY <1>1, FourParts DEF Sent
<1>5. Len(folded) + Len(msg) <= Len(Sent) /\ \A i \in 1..Len(folded) : Sent[i] = folded[i]
  BY <1>2, <1>4
<1>6. ASSUME msg # <<>> PROVE Sent[Len(folded) + 1] = msg[1]
  <2>1. Len(folded) + 1 \in 1..Len(Sent) /\ Len(folded) + 1 - Len(folded) = 1
    BY <1>2, <1>3, <1>5, <1>6
  <2> QED BY <1>2, <1>3, <1>4, <1>6, <2>1
<1> QED BY <1>2, <1>3, <1>5, <1>6

LEMMA FoldedAreRead ==
  ASSUME TypeOK, Position, DeliveredInOrder, NEW e \in ToSet(folded)
  PROVE  e \in ToSet(Sent) /\ e.seq \in 1..lastSeq /\ e.seq \in 0..Len(log)
<1>1. e \in ToSet(Sent)
  BY SentAt DEF ToSet
<1>2. e \in Deliverable(lastSeq) /\ Numbered(lastSeq)
  BY <1>1 DEF DeliveredInOrder, Sent
<1>3. lastSeq \in Nat /\ Len(log) \in Nat /\ lastSeq <= Len(log)
  BY DEF TypeOK, Position
<1>4. e.seq \in 1..lastSeq
  BY <1>2, <1>3, DeliverableAt
<1> QED BY <1>1, <1>3, <1>4

\* A step that reads no line, folds nothing and drops nothing.
LEMMA StillDelivered ==
  ASSUME TypeOK, Position, DeliveredInOrder, [Next]_vars,
         Sent' = Sent, lastSeq' = lastSeq, folded' = folded,
         client' # "quit" => client # "quit"
  PROVE  DeliveredInOrder'
<1>1. lastSeq \in 0..Len(log)
  BY DEF TypeOK, Position
<1>2. Deliverable(lastSeq)' = Deliverable(lastSeq) /\ (Numbered(lastSeq)' <=> Numbered(lastSeq))
  BY <1>1, LogKept DEF Deliverable, Numbered
<1>3. NothingSkipped(folded)'
  <2>1. ASSUME NEW e \in ToSet(folded)
        PROVE  {log'[i] : i \in {j \in 1..e.seq : IsEvent(log'[j])}} \subseteq ToSet(folded)
    <3>1. Deliverable(e.seq) \subseteq ToSet(folded)
      BY DEF NothingSkipped, DeliveredInOrder
    <3>2. e.seq \in 0..Len(log)
      BY FoldedAreRead
    <3> QED BY <3>1, <3>2, LogKept
  <2> QED BY <2>1 DEF NothingSkipped, Deliverable
<1> QED BY <1>2, <1>3 DEF DeliveredInOrder, Sent, InOrder

\* The events of one line more.
LEMMA LineIsRead ==
  ASSUME TypeOK, Control, Position, DeliveredInOrder, [Next]_vars, DecodeLine
  PROVE  DeliveredInOrder'
<1> DEFINE line == log[lastSeq + 1]
<1>1. /\ pos = lastSeq /\ cur = <<>> /\ lastSeq < Len(log) /\ log' = log
      /\ UNCHANGED <<msg, folded, chan, client>>
  BY Decoding, ReadsNext
<1>2. lastSeq \in Nat /\ Len(log) \in Nat /\ line \in Line
  BY <1>1, ElementOfSeq DEF TypeOK
<1>3. CASE Rejects
  BY <1>1, <1>3, StillDelivered DEF Rejects, Sent
<1>4. CASE line.seq = lastSeq + 1 /\ lastSeq' = lastSeq + 1
  <2>1. Numbered(lastSeq + 1)
    BY <1>2, <1>4 DEF Numbered, DeliveredInOrder
  <2>2. Deliverable(lastSeq + 1) = Deliverable(lastSeq) \cup
          (IF IsEvent(line) THEN {line} ELSE {})
    BY <1>2, OneLineMore
  <2>3. /\ Deliverable(lastSeq)' = Deliverable(lastSeq + 1)
        /\ Numbered(lastSeq)' /\ NothingSkipped(folded)'
    BY <1>1, <1>4, <2>1 DEF Deliverable, Numbered, NothingSkipped, DeliveredInOrder
  <2>4. CASE cur' = <<>> /\ ~IsEvent(line)
    BY <1>1, <2>2, <2>3, <2>4 DEF DeliveredInOrder, InOrder
  <2>5. CASE cur' = <<line>> /\ IsEvent(line)
    <3>1. Sent \in Seq(Line) /\ DOMAIN Sent = 1..Len(Sent) /\ Len(Sent) \in Nat
      BY SentParts, LenProperties
    <3>2. Sent' = Append(Sent, line)
      <4> DEFINE before == folded \o msg \o chan
      <4>1. before \in Seq(Line)
        BY SentParts, ConcatProperties
      <4> HIDE DEF before
      <4>2. before \o <<>> = before /\ before \o <<line>> = Append(before, line)
        BY <1>2, <4>1, ConcatEmptySeq, AppendIsConcat
      <4> QED BY <1>1, <2>5, <4>2 DEF before, Sent
    <3>3. /\ Len(Sent') = Len(Sent) + 1 /\ DOMAIN Sent' = 1..(Len(Sent) + 1)
          /\ \A i \in 1..Len(Sent) : Sent'[i] = Sent[i]
          /\ Sent'[Len(Sent) + 1] = line
      BY <1>2, <3>1, <3>2, AppendProperties
    <3>4. ToSet(Sent') = ToSet(Sent) \cup {line}
      BY <3>1, <3>3 DEF ToSet
    <3>5. \A i \in 1..Len(Sent) : Sent[i].seq \in 1..lastSeq
      <4>1. \A i \in 1..Len(Sent) : Sent[i] \in Deliverable(lastSeq)
        BY <3>1 DEF DeliveredInOrder, ToSet, Sent
      <4>2. Numbered(lastSeq)
        BY DEF DeliveredInOrder
      <4> QED BY <1>2, <4>1, <4>2, DeliverableAt
    <3>6. InOrder(Sent')
      <4>1. \A i, j \in 1..Len(Sent) : i < j => Sent[i].seq < Sent[j].seq
        BY <3>1 DEF DeliveredInOrder, InOrder, Sent
      <4>2. ASSUME NEW i \in 1..(Len(Sent) + 1), NEW j \in 1..(Len(Sent) + 1), i < j
            PROVE  Sent'[i].seq < Sent'[j].seq
        <5>1. CASE j = Len(Sent) + 1
          BY <1>2, <1>4, <3>1, <3>3, <3>5, <4>2, <5>1
        <5>2. CASE j # Len(Sent) + 1
          BY <3>1, <3>3, <4>1, <4>2, <5>2
        <5> QED BY <5>1, <5>2
      <4> QED BY <3>3, <4>2 DEF InOrder
    <3> QED BY <1>1, <2>2, <2>3, <2>5, <3>4, <3>6 DEF DeliveredInOrder, Sent
  <2>6. (cur' = <<>> /\ ~IsEvent(line)) \/ (cur' = <<line>> /\ IsEvent(line))
    <3>1. CASE PassesBy \/ Breaks
      BY <1>1, <3>1 DEF PassesBy, Breaks, IsEvent
    <3>2. CASE Keeps
      BY <1>1, <3>2 DEF Keeps
    <3>3. ~Rejects
      BY <1>1, <1>4 DEF Rejects
    <3> QED BY <3>1, <3>2, <3>3, Decoding
  <2> QED BY <2>4, <2>5, <2>6
<1>5. Rejects \/ (line.seq = lastSeq + 1 /\ lastSeq' = lastSeq + 1)
  BY <1>1, Decoding DEF PassesBy, Breaks, Keeps
<1> QED BY <1>3, <1>4, <1>5

LEMMA OneDropped ==
  ASSUME NEW S, NEW f \in Seq(S), NEW x \in S, NEW c \in Seq(S), NEW u \in Seq(S),
         NEW s, s = f \o <<x>> \o c \o u, NEW r, r = f \o <<>> \o c \o u
  PROVE  /\ DOMAIN r = 1..Len(r) /\ DOMAIN s = 1..Len(s)
         /\ Len(r) \in Nat /\ Len(s) = Len(r) + 1 /\ Len(f) \in Nat
         /\ \A i \in 1..Len(r) : i <= Len(f) => r[i] = s[i]
         /\ \A i \in 1..Len(r) : Len(f) < i => r[i] = s[i + 1]
<1> DEFINE g == Append(f, x)
           t == c \o u
<1>1. /\ f \o <<x>> = g /\ f \o <<>> = f /\ g \in Seq(S) /\ t \in Seq(S)
      /\ Len(f) \in Nat /\ Len(g) = Len(f) + 1
      /\ \A i \in 1..Len(f) : g[i] = f[i]
  BY AppendIsConcat, ConcatEmptySeq, AppendProperties, ConcatProperties, LenProperties
<1>2. g \o c \o u = g \o t
  <2>1. \A h \in Seq(S) : h \o c \o u = h \o (c \o u)
    BY ConcatAssociative
  <2> QED BY <1>1, <2>1
<1>3. f \o c \o u = f \o t
  BY ConcatAssociative
<1> HIDE DEF g, t
<1>4. s = g \o t /\ r = f \o t
  BY <1>1, <1>2, <1>3 DEF g, t
<1>5. /\ g \o t \in Seq(S) /\ Len(g \o t) = Len(g) + Len(t) /\ Len(t) \in Nat
      /\ DOMAIN (g \o t) = 1..Len(g \o t)
      /\ \A i \in 1..(Len(g) + Len(t)) :
           (g \o t)[i] = IF i <= Len(g) THEN g[i] ELSE t[i - Len(g)]
  BY <1>1, ConcatProperties, LenProperties
<1>6. /\ f \o t \in Seq(S) /\ Len(f \o t) = Len(f) + Len(t)
      /\ DOMAIN (f \o t) = 1..Len(f \o t)
      /\ \A i \in 1..(Len(f) + Len(t)) :
           (f \o t)[i] = IF i <= Len(f) THEN f[i] ELSE t[i - Len(f)]
  BY <1>1, ConcatProperties, LenProperties
<1>7. \A i \in 1..Len(r) : i <= Len(f) => r[i] = s[i]
  BY <1>1, <1>4, <1>5, <1>6
<1>8. ASSUME NEW i \in 1..Len(r), Len(f) < i PROVE r[i] = s[i + 1]
  <2>1. /\ i + 1 \in 1..(Len(g) + Len(t)) /\ ~(i + 1 <= Len(g)) /\ ~(i <= Len(f))
        /\ i + 1 - Len(g) = i - Len(f)
    BY <1>1, <1>4, <1>5, <1>6, <1>8
  <2> QED BY <1>4, <1>5, <1>6, <1>8, <2>1
<1>9. Len(r) \in Nat /\ Len(s) = Len(r) + 1
  BY <1>1, <1>4, <1>5, <1>6
<1> QED BY <1>1, <1>4, <1>5, <1>6, <1>7, <1>8, <1>9

\* What is folded next is the next event there is.
LEMMA Folding ==
  ASSUME TypeOK, Control, Position, DeliveredInOrder, msg # <<>>, client # "quit"
  PROVE  /\ msg[1] \in Line /\ msg[1] \in Deliverable(lastSeq)
         /\ msg[1].seq \in 1..lastSeq /\ msg[1] = log[msg[1].seq] /\ IsEvent(msg[1])
         /\ \A e \in ToSet(folded) : e.seq < msg[1].seq
         /\ \A e \in Deliverable(lastSeq) :
              e.seq <= msg[1].seq => e \in ToSet(folded) \cup {msg[1]}
<1> DEFINE n == Len(folded) + 1
<1>1. /\ n \in 1..Len(Sent) /\ Sent[n] = msg[1] /\ DOMAIN Sent = 1..Len(Sent)
      /\ DOMAIN folded = 1..Len(folded) /\ \A i \in 1..Len(folded) : Sent[i] = folded[i]
      /\ Len(folded) \in Nat /\ Len(Sent) \in Nat
  BY SentAt
<1>2. /\ \A i, j \in 1..Len(Sent) : i < j => Sent[i].seq < Sent[j].seq
      /\ ToSet(Sent) = Deliverable(lastSeq) /\ Numbered(lastSeq) /\ lastSeq \in Nat
  <2>1. InOrder(Sent) /\ ToSet(Sent) = Deliverable(lastSeq) /\ Numbered(lastSeq)
    BY DEF DeliveredInOrder, Sent
  <2>2. lastSeq \in Nat
    BY DEF TypeOK
  <2>3. \A i, j \in 1..Len(Sent) : i < j => Sent[i].seq < Sent[j].seq
    BY <1>1, <2>1 DEF InOrder
  <2> QED BY <2>1, <2>2, <2>3
<1> HIDE DEF n
<1>3. msg[1] \in Deliverable(lastSeq)
  BY <1>1, <1>2 DEF ToSet
<1>4. msg[1].seq \in 1..lastSeq /\ msg[1] = log[msg[1].seq] /\ IsEvent(msg[1])
  BY <1>2, <1>3, DeliverableAt
<1>5. msg[1] \in Line
  BY OneAtMost DEF TypeOK
<1>6. \A e \in ToSet(folded) : e.seq < msg[1].seq
  <2>1. \A i \in 1..Len(folded) : i < n /\ i \in 1..Len(Sent)
    BY <1>1 DEF n
  <2> QED BY <1>1, <1>2, <2>1 DEF ToSet
<1>7. ASSUME NEW e \in Deliverable(lastSeq), e.seq <= msg[1].seq
      PROVE  e \in ToSet(folded) \cup {msg[1]}
  <2>1. PICK k \in 1..Len(Sent) : e = Sent[k]
    BY <1>1, <1>2, <1>7 DEF ToSet
  <2>2. e.seq \in 1..lastSeq
    BY <1>2, <1>7, DeliverableAt
  <2>3. ~(n < k)
    <3>1. n < k => msg[1].seq < e.seq
      BY <1>1, <1>2, <2>1
    <3> QED BY <1>4, <1>7, <2>2, <3>1
  <2>4. k = n \/ k \in 1..Len(folded)
    BY <1>1, <2>1, <2>3 DEF n
  <2> QED BY <1>1, <2>1, <2>4 DEF ToSet
<1> QED BY <1>3, <1>4, <1>5, <1>6, <1>7

LEMMA EventIsFolded ==
  ASSUME TypeOK, Control, Position, DeliveredInOrder, [Next]_vars,
         msg # <<>>, msg' = <<>>, folded' = Append(folded, msg[1]),
         client = "attached", client' = "attached",
         UNCHANGED <<log, lastSeq, chan, cur>>
  PROVE  DeliveredInOrder'
<1>1. Sent' = Sent
  <2>1. msg = <<msg[1]>> /\ msg[1] \in Line
    BY OneAtMost DEF TypeOK
  <2> DEFINE x == msg[1]
  <2>2. Joined(Append(folded, x), <<>>, chan, cur) = Joined(folded, <<x>>, chan, cur)
    BY <2>1, SentParts, UpdateFolds
  <2> QED BY <2>1, <2>2, SentIsJoined
<1>2. lastSeq \in Nat /\ Numbered(lastSeq) /\ client # "quit"
  BY DEF TypeOK, DeliveredInOrder
<1>3. NothingSkipped(folded)'
  <2>1. ToSet(folded') = ToSet(folded) \cup {msg[1]}
    <3>1. folded \in Seq(Line) /\ msg[1] \in Line
      BY <1>2, SentParts, Folding
    <3>2. /\ DOMAIN folded = 1..Len(folded) /\ Len(folded) \in Nat
          /\ DOMAIN folded' = 1..(Len(folded) + 1)
          /\ \A i \in 1..Len(folded) : folded'[i] = folded[i]
          /\ folded'[Len(folded) + 1] = msg[1]
      BY <3>1, AppendProperties, LenProperties
    <3> QED BY <3>2 DEF ToSet
  <2>2. Deliverable(msg[1].seq) \subseteq ToSet(folded')
    <3>1. msg[1].seq \in 1..lastSeq
      BY <1>2, Folding
    <3>2. ASSUME NEW e \in Deliverable(msg[1].seq) PROVE e \in ToSet(folded')
      <4>1. Numbered(msg[1].seq)
        BY <1>2, <3>1 DEF Numbered
      <4>2. e.seq \in 1..msg[1].seq /\ e = log[e.seq] /\ IsEvent(e)
        BY <3>1, <3>2, <4>1, DeliverableAt
      <4>3. e.seq \in 1..lastSeq /\ e.seq <= msg[1].seq
        BY <1>2, <3>1, <4>2
      <4>4. e \in Deliverable(lastSeq)
        BY <1>2, <4>2, <4>3, DeliverableAt
      <4> QED BY <1>2, <2>1, <4>3, <4>4, Folding
    <3> QED BY <3>2
  <2>3. \A e \in ToSet(folded) : Deliverable(e.seq) \subseteq ToSet(folded')
    BY <2>1 DEF DeliveredInOrder, NothingSkipped
  <2>4. \A e \in ToSet(folded') : Deliverable(e.seq) \subseteq ToSet(folded')
    BY <2>1, <2>2, <2>3
  <2> QED BY <2>4 DEF NothingSkipped, Deliverable
<1>4. Deliverable(lastSeq)' = Deliverable(lastSeq) /\ Numbered(lastSeq)'
  BY <1>2 DEF Deliverable, Numbered
<1> QED BY <1>1, <1>3, <1>4 DEF DeliveredInOrder, Sent, InOrder

\* A client that quits leaves what the pump held.
LEMMA EventIsDropped ==
  ASSUME TypeOK, Position, DeliveredInOrder, [Next]_vars,
         msg' = <<>>, client' = "quit", UNCHANGED <<log, lastSeq, folded, chan, cur>>
  PROVE  DeliveredInOrder'
<1>1. CASE msg = <<>>
  BY <1>1, StillDelivered DEF Sent
<1>2. CASE msg # <<>>
  <2> DEFINE n == Len(folded)
  <2>0. PICK rest : rest = folded \o <<>> \o chan \o cur
    OBVIOUS
  <2>1. /\ folded \in Seq(Line) /\ chan \in Seq(Line) /\ cur \in Seq(Line)
        /\ msg = <<msg[1]>> /\ msg[1] \in Line
    BY <1>2, SentParts, OneAtMost DEF TypeOK
  <2>2. Sent = folded \o <<msg[1]>> \o chan \o cur
    BY <2>1 DEF Sent
  <2>5. /\ DOMAIN rest = 1..Len(rest) /\ DOMAIN Sent = 1..Len(Sent)
        /\ Len(rest) \in Nat /\ Len(Sent) = Len(rest) + 1 /\ n \in Nat
    BY <2>0, <2>1, <2>2, OneDropped
  <2>3. \A i \in 1..Len(rest) : i <= n => rest[i] = Sent[i]
    BY <2>0, <2>1, <2>2, OneDropped
  <2>4. \A i \in 1..Len(rest) : n < i => rest[i] = Sent[i + 1]
    BY <2>0, <2>1, <2>2, OneDropped
  <2>6. \A i \in 1..Len(rest) : rest[i] = IF i <= n THEN Sent[i] ELSE Sent[i + 1]
    BY <2>3, <2>4, <2>5
  <2> HIDE DEF n
  <2>7. ToSet(rest) \subseteq ToSet(Sent)
    BY <2>5, <2>6 DEF ToSet
  <2>8. InOrder(rest)
    <3>1. \A i, j \in 1..Len(Sent) : i < j => Sent[i].seq < Sent[j].seq
      BY <2>5 DEF DeliveredInOrder, InOrder, Sent
    <3>2. ASSUME NEW i \in 1..Len(rest), NEW j \in 1..Len(rest), i < j
          PROVE  rest[i].seq < rest[j].seq
      <4>1. /\ i \in 1..Len(Sent) /\ j \in 1..Len(Sent) /\ i + 1 \in 1..Len(Sent)
            /\ j + 1 \in 1..Len(Sent) /\ i < j + 1 /\ i + 1 < j + 1
        BY <2>5, <3>2
      <4>2. CASE j <= n
        BY <2>5, <2>6, <3>1, <3>2, <4>1, <4>2
      <4>3. CASE n < j /\ i <= n
        BY <2>5, <2>6, <3>1, <3>2, <4>1, <4>3
      <4>4. CASE n < j /\ n < i
        BY <2>5, <2>6, <3>1, <3>2, <4>1, <4>4
      <4> QED BY <2>5, <4>2, <4>3, <4>4
    <3> QED BY <2>5, <3>2 DEF InOrder
  <2>9. Sent' = rest
    BY <2>0 DEF Sent
  <2>10. /\ Deliverable(lastSeq)' = Deliverable(lastSeq) /\ Numbered(lastSeq)'
         /\ NothingSkipped(folded)'
    BY DEF Deliverable, Numbered, NothingSkipped, DeliveredInOrder
  <2>11. ToSet(Sent) \subseteq Deliverable(lastSeq)
    BY DEF DeliveredInOrder, Sent
  <2> QED BY <2>7, <2>8, <2>9, <2>10, <2>11 DEF DeliveredInOrder, Sent
<1> QED BY <1>1, <1>2

LEMMA DeliveredHolds ==
  /\ Init => DeliveredInOrder
  /\ TypeOK /\ Control /\ Position /\ DeliveredInOrder /\ [Next]_vars => DeliveredInOrder'
<1>1. Init => DeliveredInOrder
  <2>1. <<>> \o <<>> \o <<>> \o <<>> = <<>> /\ DOMAIN <<>> = {}
    OBVIOUS
  <2> QED BY <2>1 DEF Init, DeliveredInOrder, InOrder, Numbered, NothingSkipped,
                      Deliverable, ToSet
<1>2. ASSUME TypeOK, Control, Position, DeliveredInOrder, [Next]_vars
      PROVE  DeliveredInOrder'
  <2>1. /\ folded \in Seq(Line) /\ msg \in Seq(Line) /\ chan \in Seq(Line)
        /\ cur \in Seq(Line)
    BY <1>2, SentParts
  <2>2. CASE DecodeLine
    BY <1>2, <2>2, LineIsRead
  <2>3. CASE Send
    <3>1. cur' = <<>> /\ chan' = chan \o cur /\ UNCHANGED <<folded, msg, lastSeq, client>>
      BY <2>3 DEF Send, clientVars
    <3>2. Joined(folded, msg, chan \o cur, <<>>) = Joined(folded, msg, chan, cur)
      BY <2>1, ReaderSends
    <3>3. Sent' = Sent
      BY <3>1, <3>2, SentIsJoined
    <3> QED BY <1>2, <3>1, <3>3, StillDelivered
  <2>4. CASE Receive
    <3>1. /\ chan # <<>> /\ msg = <<>> /\ msg' = <<Head(chan)>> /\ chan' = Tail(chan)
          /\ UNCHANGED <<folded, cur, lastSeq, client>>
      BY <1>2, <2>4 DEF Receive, Control, readerVars
    <3>2. Joined(folded, <<Head(chan)>>, Tail(chan), cur) = Joined(folded, <<>>, chan, cur)
      <4>1. chan # <<>>
        BY <3>1
      <4> QED BY <2>1, <4>1, PumpTakes
    <3>3. Sent' = Sent
      BY <3>1, <3>2, SentIsJoined
    <3> QED BY <1>2, <3>1, <3>3, StillDelivered
  <2>5. CASE Update
    <3>1. /\ client = "attached" /\ msg' = <<>>
          /\ UNCHANGED <<log, lastSeq, chan, cur>>
      BY <2>5 DEF Update, writerVars, readerVars
    <3>2. CASE msg = <<>>
      <4>1. Sent' = Sent /\ folded' = folded
        BY <2>5, <3>1, <3>2 DEF Update, Sent
      <4> QED BY <1>2, <3>1, <4>1, StillDelivered
    <3>3. CASE msg # <<>> /\ msg[1].kind = "refused"
      <4>1. client' = "quit" /\ folded' = folded
        BY <2>5, <3>3 DEF Update
      <4> QED BY <1>2, <3>1, <4>1, EventIsDropped
    <3>4. CASE msg # <<>> /\ msg[1].kind # "refused"
      <4>1. client' = "attached" /\ folded' = Append(folded, msg[1])
        BY <2>5, <3>1, <3>4 DEF Update
      <4> QED BY <1>2, <3>1, <3>4, <4>1, EventIsFolded
    <3> QED BY <3>2, <3>3, <3>4
  <2>6. CASE Quit
    <3>1. /\ msg' = <<>> /\ client' = "quit"
          /\ UNCHANGED <<log, lastSeq, folded, chan, cur>>
      BY <2>6 DEF Quit, writerVars, readerVars
    <3> QED BY <1>2, <3>1, EventIsDropped
  <2>7. CASE ReceiveClosed
    <3>1. msg = <<>> /\ msg' = <<>> /\ UNCHANGED <<folded, chan, cur, lastSeq, client>>
      BY <1>2, <2>7 DEF ReceiveClosed, Control, readerVars
    <3>2. Sent' = Sent
      BY <3>1 DEF Sent
    <3> QED BY <1>2, <3>1, <3>2, StillDelivered
  <2>8. CASE UNCHANGED <<folded, msg, chan, cur, lastSeq, client>>
    BY <1>2, <2>8, StillDelivered DEF Sent
  <2> QED BY <1>2, <2>2, <2>3, <2>4, <2>5, <2>6, <2>7, <2>8
          DEF Next, Reader, Client, AppendLine, EndLog, DecodeEnd, PaceOver, StopOnCancel,
              Close, CancelReader, vars, writerVars, readerVars, clientVars
<1> QED BY <1>1, <1>2

LEMMA StreamInvHolds ==
  /\ Init => StreamInv
  /\ StreamInv /\ [Next]_vars => StreamInv'
BY InitTyped, StepTyped, ControlHolds, PositionHolds, AtTheEndHolds, HasEndHolds,
   DeliveredHolds DEF StreamInv

\* Whatever the capacity of the channel and the damage to the log, what was
\* folded, what is on its way and what the reader holds are the log's own
\* events, in order, none twice, none past damage and none skipped but what a
\* client that quit did not take (stream.go:54-100, event.go:109-143,
\* tui.go:109-166).
THEOREM DeliversInOrder == Spec => []ReaderInv
<1>1. StreamInv => ReaderInv
  BY DEF StreamInv, ReaderInv
<1> QED BY <1>1, StreamInvHolds, PTL DEF Spec

-----------------------------------------------------------------------------
(* The stream as a feed *)

\* How far the log can be read is where its first damaged line is.
LEMMA ReadableIs ==
  ASSUME TypeOK, HasEnd
  PROVE  /\ LogFeed!Readable \in 0..Len(log) /\ Whole(LogFeed!Readable)
         /\ \A n \in 0..Len(log) : Whole(n) <=> n <= LogFeed!Readable
         /\ \A n \in 0..Len(log) :
              Whole(n) /\ (n < Len(log) => ~Whole(n + 1)) => LogFeed!Readable = n
<1> DEFINE End(n) == Whole(n) /\ (n < Len(log) => ~Whole(n + 1))
           r == CHOOSE n \in 0..Len(log) : End(n)
<1>1. \A n : LogFeed!Whole(n) <=> Whole(n)
  BY DEF LogFeed!Whole, Whole
<1>2. LogFeed!Readable = r
  BY <1>1 DEF LogFeed!Readable
<1>3. r \in 0..Len(log) /\ End(r)
  BY DEF HasEnd
<1>4. Len(log) \in Nat
  BY DEF TypeOK
<1> HIDE DEF r
<1>5. ASSUME NEW n \in 0..Len(log), Whole(n) PROVE n <= r
  <2>1. SUFFICES ASSUME r < n PROVE FALSE
    BY <1>3, <1>4
  <2>2. n \in Nat /\ r + 1 \in 0..n /\ r < Len(log)
    BY <1>3, <1>4, <2>1
  <2> QED BY <1>3, <1>5, <2>2, WholeDown
<1>6. ASSUME NEW n \in 0..Len(log), n <= r PROVE Whole(n)
  <2>1. r \in Nat /\ n \in 0..r
    BY <1>3, <1>4, <1>6
  <2> QED BY <1>3, <2>1, WholeDown
<1>7. ASSUME NEW n \in 0..Len(log), End(n) PROVE r = n
  <2>1. n <= r
    BY <1>5, <1>7
  <2>2. ~(n < r)
    <3>1. n < r => n + 1 \in 0..Len(log) /\ n < Len(log) /\ n + 1 <= r
      BY <1>3, <1>4
    <3> QED BY <1>6, <1>7, <3>1
  <2> QED BY <1>3, <2>1, <2>2
<1> QED BY <1>2, <1>3, <1>5, <1>6, <1>7

\* The last event folded is the latest of them.
LEMMA SeenIs ==
  ASSUME TypeOK, Position, DeliveredInOrder
  PROVE  /\ LogFeed!Seen \in 0..lastSeq
         /\ LogFeed!Seen = 0 \/ \E e \in ToSet(folded) : LogFeed!Seen = e.seq
         /\ \A e \in ToSet(folded) : e.seq <= LogFeed!Seen
<1>0. /\ folded \in Seq(Line) /\ Len(folded) \in Nat /\ DOMAIN folded = 1..Len(folded)
      /\ lastSeq \in Nat
  BY SentAt DEF TypeOK
<1>1. CASE folded = <<>>
  BY <1>0, <1>1 DEF LogFeed!Seen, ToSet
<1>2. CASE folded # <<>>
  <2> DEFINE n == Len(folded)
  <2>1. n \in 1..Len(folded) /\ LogFeed!Seen = folded[n].seq
    <3>1. n # 0
      BY <1>0, <1>2, EmptySeq
    <3> QED BY <1>0, <1>2, <3>1 DEF LogFeed!Seen, LogFeed!Last
  <2>2. folded[n] \in ToSet(folded)
    BY <1>0, <2>1 DEF ToSet
  <2>3. folded[n].seq \in 1..lastSeq
    BY <2>2, FoldedAreRead
  <2>4. ASSUME NEW i \in 1..Len(folded) PROVE folded[i].seq <= folded[n].seq
    <3>1. i < n => Sent[i].seq < Sent[n].seq
      <4>1. i \in DOMAIN Sent /\ n \in DOMAIN Sent
        BY <2>1, SentAt
      <4> QED BY <4>1 DEF DeliveredInOrder, InOrder, Sent
    <3>2. Sent[i] = folded[i] /\ Sent[n] = folded[n]
      BY <2>1, SentAt
    <3>3. i < n \/ i = n
      <4>1. \A k \in Nat : \A m \in 1..k : m < k \/ m = k
        OBVIOUS
      <4> QED BY <1>0, <4>1
    <3>4. folded[i].seq \in 1..lastSeq
      BY <1>0, FoldedAreRead DEF ToSet
    <3>5. folded[i].seq \in Int /\ folded[n].seq \in Int
      BY <1>0, <2>3, <3>4
    <3>6. i < n => folded[i].seq < folded[n].seq
      BY <3>1, <3>2
    <3>7. CASE i < n
      BY <3>5, <3>6, <3>7
    <3>8. CASE i = n
      BY <3>5, <3>8
    <3> QED BY <3>3, <3>7, <3>8
  <2>5. \A e \in ToSet(folded) : e.seq <= LogFeed!Seen
    BY <1>0, <2>1, <2>4 DEF ToSet
  <2> QED BY <1>0, <2>1, <2>2, <2>3, <2>5
<1> QED BY <1>1, <1>2

\* The event that Update takes is the one that comes next.
LEMMA TakesTheNext ==
  ASSUME StreamInv, msg # <<>>, client # "quit"
  PROVE  /\ msg[1].seq \in LogFeed!Upcoming
         /\ log[msg[1].seq] = msg[1] /\ IsEvent(msg[1])
<1> DEFINE n == msg[1].seq
<1> USE DEF StreamInv
<1>1. /\ n \in 1..lastSeq /\ msg[1] = log[n] /\ IsEvent(msg[1])
      /\ \A e \in ToSet(folded) : e.seq < n
      /\ \A e \in Deliverable(lastSeq) : e.seq <= n => e \in ToSet(folded) \cup {msg[1]}
  BY Folding
<1>2. /\ lastSeq \in Nat /\ Len(log) \in Nat /\ lastSeq <= Len(log) /\ Numbered(lastSeq)
  BY DEF TypeOK, Position, DeliveredInOrder
<1> HIDE DEF n
<1>3. Whole(n)
  <2>1. \A i \in 1..n : i \in 1..lastSeq /\ (i = lastSeq => i = n)
    BY <1>1, <1>2
  <2>2. log[n].kind # "malformed"
    BY <1>1 DEF IsEvent
  <2> QED BY <1>2, <2>1, <2>2 DEF Whole, Numbered, Position
<1>4. n \in (LogFeed!Seen + 1)..LogFeed!Readable
  <2>1. n <= LogFeed!Readable /\ LogFeed!Readable \in 0..Len(log)
    BY <1>1, <1>2, <1>3, ReadableIs
  <2>2. LogFeed!Seen < n /\ LogFeed!Seen \in 0..lastSeq
    BY <1>1, <1>2, SeenIs
  <2> QED BY <1>1, <1>2, <2>1, <2>2
<1>5. ASSUME NEW i \in (LogFeed!Seen + 1)..(n - 1), IsEvent(log[i]) PROVE FALSE
  <2>1. i \in 1..lastSeq /\ i <= n /\ i # n /\ ~(i <= LogFeed!Seen)
    BY <1>1, <1>2, <1>5, SeenIs
  <2>2. log[i] \in Deliverable(lastSeq) /\ log[i].seq = i
    BY <1>2, <1>5, <2>1 DEF Deliverable, Numbered
  <2>3. log[i] \in ToSet(folded)
    <3>1. log[i] # msg[1]
      BY <2>1, <2>2 DEF n
    <3> QED BY <1>1, <2>1, <2>2, <3>1
  <2> QED BY <2>1, <2>2, <2>3, SeenIs
<1>6. n \in LogFeed!Upcoming
  BY <1>1, <1>4, <1>5 DEF LogFeed!Upcoming, LogFeed!IsEvent, IsEvent
<1> QED BY <1>1, <1>6 DEF n

\* The closed and drained channel means that nothing is left.
LEMMA NothingIsLeft ==
  ASSUME StreamInv, pump = "delivered", msg = <<>>, client = "attached"
  PROVE  done # <<>> /\ LogFeed!Upcoming = {}
<1> USE DEF StreamInv
<1>1. /\ done # <<>> /\ done # <<"cancelled">> /\ chan = <<>> /\ cur = <<>>
  BY DEF Control
<1>2. /\ lastSeq \in Nat /\ Len(log) \in Nat /\ lastSeq <= Len(log) /\ Numbered(lastSeq)
      /\ folded \in Seq(Line)
  BY DEF TypeOK, Position, DeliveredInOrder
<1>3. ToSet(folded) = Deliverable(lastSeq)
  <2>1. folded \o <<>> = folded
    BY <1>2, ConcatEmptySeq
  <2>2. Sent = folded
    BY <1>1, <2>1 DEF Sent
  <2> QED BY <2>2 DEF DeliveredInOrder, Sent
<1>4. LogFeed!Readable <= lastSeq /\ LogFeed!Readable \in 0..Len(log)
  <2> DEFINE r == LogFeed!Readable
  <2>1. r \in 0..Len(log) /\ \A n \in 0..Len(log) : Whole(n) <=> n <= r
    BY ReadableIs
  <2> HIDE DEF r
  <2>2. lastSeq = Len(log) => r <= lastSeq
    BY <1>2, <2>1
  <2>3. lastSeq < Len(log) /\ ~Whole(lastSeq + 1) => r <= lastSeq
    <3>1. lastSeq < Len(log) => lastSeq + 1 \in 0..Len(log)
      BY <1>2
    <3>2. lastSeq < Len(log) /\ ~Whole(lastSeq + 1) => ~(lastSeq + 1 <= r)
      BY <2>1, <3>1
    <3> QED BY <1>2, <2>1, <3>2
  <2>4. ~Whole(lastSeq) => r <= lastSeq
    <3>1. lastSeq \in 0..Len(log)
      BY <1>2
    <3> QED BY <1>2, <2>1, <3>1
  <2>5. r <= lastSeq
    BY <1>1, <2>2, <2>3, <2>4 DEF AtTheEnd
  <2> QED BY <2>1, <2>5 DEF r
<1>5. ASSUME NEW n \in LogFeed!Upcoming PROVE FALSE
  <2>1. n \in (LogFeed!Seen + 1)..LogFeed!Readable /\ IsEvent(log[n])
    BY <1>5 DEF LogFeed!Upcoming, LogFeed!IsEvent, IsEvent
  <2>2. n \in 1..lastSeq /\ ~(n <= LogFeed!Seen)
    BY <1>2, <1>4, <2>1, SeenIs
  <2>3. log[n] \in ToSet(folded) /\ log[n].seq = n
    BY <1>2, <1>3, <2>1, <2>2 DEF Deliverable, Numbered
  <2> QED BY <2>2, <2>3, SeenIs
<1> QED BY <1>1, <1>5

FeedStep == [LogFeed!Next]_(LogFeed!vars)

LEMMA StopsForAReason ==
  ASSUME StreamInv, DecodeEnd \/ DecodeLine \/ StopOnCancel
  PROVE  FeedStep
<1> USE DEF StreamInv
<1>0. /\ lastSeq \in Nat /\ Len(log) \in Nat /\ lastSeq <= Len(log)
      /\ Numbered(lastSeq) /\ done \in Seq(Reasons)
  BY DEF TypeOK, Position, DeliveredInOrder, Reasons
<1>1. ASSUME NEW r \in Reasons, LogFeed!Justified(r), Report(r), done = <<>>,
             UNCHANGED <<log, ended, folded, client>>
      PROVE  FeedStep
  <2>1. Append(<<>>, r) = <<r>>
    OBVIOUS
  <2>2. LogFeed!Stop
    BY <1>1, <2>1 DEF LogFeed!Stop, Report, Reasons
  <2> QED BY <2>2 DEF FeedStep, LogFeed!Next
<1>2. reader = "decode" => Whole(lastSeq) /\ done = <<>> /\ pos = lastSeq
  BY <1>0, ReadsNext DEF Whole, Numbered
<1>3. CASE DecodeEnd
  <2>1. LogFeed!Readable = Len(log)
    BY <1>0, <1>2, <1>3, ReadableIs DEF DecodeEnd
  <2>2. /\ ended \in {"eof", "torn"} /\ done = <<>>
        /\ UNCHANGED <<log, ended, folded, client>>
        /\ Report(IF EndOfLog THEN "nil" ELSE "malformed")
    BY <1>2, <1>3 DEF DecodeEnd, TypeOK, writerVars, clientVars
  <2>3. CASE ended = "eof"
    BY <1>1, <2>1, <2>2, <2>3 DEF LogFeed!Justified, EndOfLog, Reasons
  <2>4. CASE ended = "torn"
    BY <1>1, <2>1, <2>2, <2>4 DEF LogFeed!Justified, EndOfLog, Reasons
  <2> QED BY <2>2, <2>3, <2>4
<1>4. CASE DecodeLine
  <2>1. /\ Whole(lastSeq) /\ done = <<>> /\ pos = lastSeq /\ lastSeq < Len(log)
        /\ UNCHANGED <<log, ended, folded, client>>
        /\ Rejects \/ (log[lastSeq + 1].seq = lastSeq + 1 /\ (PassesBy \/ Breaks \/ Keeps))
    BY <1>2, <1>4, Decoding
  <2>2. ~Whole(lastSeq + 1) => LogFeed!Readable = lastSeq
    BY <1>0, <2>1, ReadableIs
  <2>3. CASE Rejects
    <3>1. ~Whole(lastSeq + 1) /\ log[lastSeq + 1].seq # lastSeq + 1
      BY <1>0, <2>1, <2>3 DEF Rejects, Whole
    <3>2. LogFeed!Justified("sequence")
      BY <2>1, <2>2, <3>1 DEF LogFeed!Justified
    <3> QED BY <1>1, <2>1, <2>3, <3>2 DEF Rejects, Reasons
  <2>4. CASE log[lastSeq + 1].seq = lastSeq + 1 /\ Breaks
    <3>1. ~Whole(lastSeq + 1)
      BY <1>0, <2>1, <2>4 DEF Breaks, Whole
    <3>2. LogFeed!Justified("malformed")
      BY <2>1, <2>2, <2>4, <3>1 DEF LogFeed!Justified
    <3> QED BY <1>1, <2>1, <2>4, <3>2 DEF Breaks, Reasons
  <2>5. CASE PassesBy \/ Keeps
    <3>1. UNCHANGED <<log, ended, folded, done, client>>
      BY <2>1, <2>5 DEF PassesBy, Keeps
    <3> QED BY <3>1 DEF FeedStep, LogFeed!vars
  <2> QED BY <2>1, <2>3, <2>4, <2>5
<1>5. CASE StopOnCancel
  <2>1. /\ done = <<>> /\ client = "quit" /\ Report("cancelled")
        /\ UNCHANGED <<log, ended, folded, client>>
    BY <1>5 DEF StopOnCancel, Waiting, Control, writerVars, clientVars
  <2>2. LogFeed!Justified("cancelled")
    BY <2>1 DEF LogFeed!Justified
  <2> QED BY <1>1, <2>1, <2>2 DEF Reasons
<1> QED BY <1>3, <1>4, <1>5

LEMMA UpdateShows ==
  ASSUME StreamInv, Update
  PROVE  FeedStep
<1>1. client = "attached" /\ pump = "delivered" /\ UNCHANGED <<log, ended, done>>
  BY DEF Update, writerVars, readerVars
<1>2. CASE msg = <<>>
  <2>1. done # <<>> /\ LogFeed!Upcoming = {}
    BY <1>1, <1>2, NothingIsLeft
  <2>2. LogFeed!Detach
    BY <1>1, <1>2, <2>1 DEF Update, LogFeed!Detach
  <2> QED BY <2>2 DEF FeedStep, LogFeed!Next
<1>3. CASE msg # <<>>
  <2> DEFINE n == msg[1].seq
  <2>1. n \in LogFeed!Upcoming /\ log[n] = msg[1] /\ IsEvent(msg[1])
    BY <1>1, <1>3, TakesTheNext
  <2> HIDE DEF n
  <2>2. CASE msg[1].kind = "refused"
    <3>1. LogFeed!Refuse
      BY <1>1, <1>3, <2>1, <2>2 DEF Update, LogFeed!Refuse
    <3> QED BY <3>1 DEF FeedStep, LogFeed!Next
  <2>3. CASE msg[1].kind = "known"
    <3>1. folded' = Append(folded, log[n]) /\ client' = client
      BY <1>1, <1>3, <2>1, <2>3 DEF Update
    <3>2. LogFeed!Show
      BY <1>1, <2>1, <2>3, <3>1 DEF LogFeed!Show
    <3> QED BY <3>2 DEF FeedStep, LogFeed!Next
  <2> QED BY <2>1, <2>2, <2>3 DEF IsEvent
<1> QED BY <1>2, <1>3

LEMMA WriterWrites ==
  ASSUME TypeOK, AppendLine \/ EndLog
  PROVE  FeedStep
<1>1. CASE AppendLine
  <2>1. /\ ended = "open" /\ UNCHANGED <<ended, folded, done, client>>
        /\ encSeq + 1 \in 1..MaxLines /\ (encSeq > 0 => encSeq \in 1..MaxLines)
    BY <1>1, StreamAssumption DEF AppendLine, TypeOK, readerVars, clientVars
  <2>2. log' = log \/ \E line \in Line : log' = Append(log, line)
    BY <1>1, <2>1 DEF AppendLine, Line
  <2> QED BY <2>1, <2>2 DEF FeedStep, LogFeed!Next, LogFeed!Write, LogFeed!vars
<1>2. CASE EndLog
  <2>1. LogFeed!End
    BY <1>2 DEF EndLog, LogFeed!End, readerVars, clientVars, Damages
  <2> QED BY <2>1 DEF FeedStep, LogFeed!Next
<1> QED BY <1>1, <1>2

\* The reader's goroutine, its channel and the pump are, for the one who
\* watches, the log itself: every step is a step of Feed, or none, so an event
\* is folded only when it is the log's next, a reason to stop is true of the log
\* (nil only for a log read to its end), and the client detaches only after the
\* last event (stream.go:54-100, event.go:109-143, tui.go:109-166). That nothing
\* is withheld for ever is the part of ImplementsFeed left to the runs.
THEOREM StreamIsAFeed ==
  Spec => LogFeed!Init /\ [][LogFeed!Next]_(LogFeed!vars)
<1>1. Init => LogFeed!Init
  BY DEF Init, LogFeed!Init
<1>2. StreamInv /\ [Next]_vars => FeedStep
  <2>1. SUFFICES ASSUME StreamInv, [Next]_vars PROVE FeedStep
    OBVIOUS
  <2>2. CASE AppendLine \/ EndLog
    BY <2>1, <2>2, WriterWrites DEF StreamInv
  <2>3. CASE DecodeEnd \/ DecodeLine \/ StopOnCancel
    BY <2>1, <2>3, StopsForAReason
  <2>4. CASE Update
    BY <2>1, <2>4, UpdateShows
  <2>5. CASE Quit
    <3>1. LogFeed!Quit
      BY <2>5 DEF Quit, LogFeed!Quit, writerVars, readerVars
    <3> QED BY <3>1 DEF FeedStep, LogFeed!Next
  <2>6. CASE UNCHANGED <<log, ended, folded, done, client>>
    BY <2>6 DEF FeedStep, LogFeed!vars
  <2> QED BY <2>1, <2>2, <2>3, <2>4, <2>5, <2>6
          DEF Next, Reader, Client, PaceOver, Send, Close, Receive, ReceiveClosed,
              CancelReader, vars, writerVars, readerVars, clientVars
<1> QED BY <1>1, <1>2, StreamInvHolds, PTL DEF Spec, FeedStep
=============================================================================
