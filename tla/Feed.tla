-------------------------------- MODULE Feed --------------------------------
(***************************************************************************)
(* What a session's log promises to the one who watches it, whatever is    *)
(* between the two: the events of the log, one after the other from its    *)
(* first line, up to the first line that is out of sequence or damaged,    *)
(* and then one reason why it stopped.  EventStream implements it with a   *)
(* goroutine, a bounded channel and a pump.                                *)
(***************************************************************************)
EXTENDS Integers, SequencesExt

CONSTANT Line \* a line of a log: its number and its kind

VARIABLES log,    \* the lines written so far
          ended,  \* how the log ends: "open", "eof" or "torn"
          shown,  \* the events the client has folded
          reason, \* why the reader stopped, or <<>>
          client  \* "attached", "ended" or "quit"

vars == <<log, ended, shown, reason, client>>

Whole(n) == \A i \in 1..n : log[i].seq = i /\ log[i].kind # "malformed"

\* How far the log can be read.
Readable == CHOOSE n \in 0..Len(log) : Whole(n) /\ (n < Len(log) => ~Whole(n + 1))

IsEvent(n) == log[n].kind \in {"known", "refused"}

Seen == IF shown = <<>> THEN 0 ELSE Last(shown).seq

\* The line of the event that comes next, if it is there.
Upcoming == {n \in (Seen + 1)..Readable :
               IsEvent(n) /\ \A i \in (Seen + 1)..(n - 1) : ~IsEvent(i)}

-----------------------------------------------------------------------------
Write ==
  /\ ended = "open"
  /\ \E line \in Line : log' = Append(log, line)
  /\ UNCHANGED <<ended, shown, reason, client>>

End ==
  /\ ended = "open"
  /\ ended' \in {"eof", "torn"}
  /\ UNCHANGED <<log, shown, reason, client>>

Show ==
  /\ client = "attached"
  /\ \E n \in Upcoming : log[n].kind = "known" /\ shown' = Append(shown, log[n])
  /\ UNCHANGED <<log, ended, reason, client>>

\* An event the session cannot take ends the client.
Refuse ==
  /\ client = "attached"
  /\ \E n \in Upcoming : log[n].kind = "refused"
  /\ client' = "quit"
  /\ UNCHANGED <<log, ended, shown, reason>>

Justified(r) ==
  \/ r = "nil" /\ ended = "eof" /\ Readable = Len(log)
  \/ r = "malformed" /\ ended = "torn" /\ Readable = Len(log)
  \/ r = "malformed" /\ Readable < Len(log) /\ log[Readable + 1].seq = Readable + 1
  \/ r = "sequence" /\ Readable < Len(log) /\ log[Readable + 1].seq # Readable + 1
  \/ r = "cancelled" /\ client = "quit"

Stop ==
  /\ reason = <<>>
  /\ \E r \in {"nil", "malformed", "sequence", "cancelled"} :
       Justified(r) /\ reason' = <<r>>
  /\ UNCHANGED <<log, ended, shown, client>>

\* The client learns of the end only after the last event.
Detach ==
  /\ client = "attached" /\ reason # <<>> /\ Upcoming = {}
  /\ client' = "ended"
  /\ UNCHANGED <<log, ended, shown, reason>>

Quit ==
  /\ client # "quit"
  /\ client' = "quit"
  /\ UNCHANGED <<log, ended, shown, reason>>

Init == /\ log = <<>> /\ ended = "open" /\ shown = <<>> /\ reason = <<>>
        /\ client = "attached"

Next == Write \/ End \/ Show \/ Refuse \/ Stop \/ Detach \/ Quit

\* A client that stays is shown what there is and told why it ended.
Spec == /\ Init /\ [][Next]_vars
        /\ WF_vars(Show \/ Refuse \/ Detach)
        /\ WF_vars(client = "attached" /\ Stop)
=============================================================================
