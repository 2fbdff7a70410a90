----------------------------- MODULE ToolProofs -----------------------------
(***************************************************************************)
(* The tools, for every workspace, spelling of a path, contents of a file  *)
(* and order of calls, and for every command, limit of its output and      *)
(* moment of its deadline.                                                 *)
(***************************************************************************)
EXTENDS FileTools, ExecTools, TLAPS

-----------------------------------------------------------------------------
(* Paths *)

LEMMA PathsResolve ==
  ASSUME NEW p \in Inside
  PROVE  /\ resolve[p].parts \in Keys
         /\ IsPrefix(Root, resolve[p].parts)
         /\ FileAt(resolve[p].parts) \in Files
BY KeysAssumption DEF Keys, Inside, resolve

LEMMA KeysAreInside ==
  ASSUME NEW key \in Keys
  PROVE  IsPrefix(Root, key)
BY PathsResolve DEF Keys

-----------------------------------------------------------------------------
(* What is on record *)

LEMMA FileInitInv == FileInit => FileInv
BY DEF FileInit, FileInv

LEMMA ReadInv == FileInv /\ Read => FileInv'
<1> SUFFICES ASSUME FileInv, Read PROVE FileInv'
  OBVIOUS
<1>1. PICK p \in Inside :
        /\ record(resolve[p].parts, disk[FileAt(resolve[p].parts)])
        /\ Learn(resolve[p].parts, disk[FileAt(resolve[p].parts)])
        /\ Alone(resolve[p].parts)
  BY DEF Read
<1> DEFINE key == resolve[p].parts
<1>2. key \in Keys
  BY PathsResolve
<1> HIDE DEF key
<1>3. /\ seen' = [seen EXCEPT ![key] = disk[FileAt(key)]]
      /\ shown' = [shown EXCEPT ![key] = disk[FileAt(key)]]
      /\ quiet' = quiet \cup {key} /\ UNCHANGED <<disk, told, editing>> /\ editing = NoEdit
  BY <1>1 DEF key, record, Learn, Alone, Read
<1> QED
  BY <1>2, <1>3 DEF FileInv

\* A whole write, and one that failed.
LEMMA WrittenInv ==
  ASSUME FileInv, NEW key \in Keys, NEW data,
         disk' = [disk EXCEPT ![FileAt(key)] = data],
         record(key, data), Learn(key, data), AloneAfterChange(key),
         editing' = NoEdit
  PROVE  FileInv'
BY KeysAssumption DEF FileInv, record, Learn, AloneAfterChange

LEMMA HalfWrittenInv ==
  ASSUME FileInv, NEW file, NEW data,
         disk' = [disk EXCEPT ![file] = data], Disturb(file),
         UNCHANGED <<seen, shown, told>>, editing' \in {editing, NoEdit}
  PROVE  FileInv'
BY KeysAssumption DEF FileInv, Disturb

LEMMA WriteInv == FileInv /\ Write => FileInv'
<1> SUFFICES ASSUME FileInv, Write PROVE FileInv'
  OBVIOUS
<1>1. editing' = NoEdit
  BY DEF Write
<1>2. PICK p \in Inside, data \in Contents :
        \/ /\ disk' = [disk EXCEPT ![FileAt(resolve[p].parts)] = data]
           /\ record(resolve[p].parts, data)
           /\ Learn(resolve[p].parts, data)
           /\ AloneAfterChange(resolve[p].parts)
        \/ /\ FailedWrite(FileAt(resolve[p].parts), data)
           /\ Disturb(FileAt(resolve[p].parts))
           /\ UNCHANGED <<seen, shown, told>>
  BY DEF Write
<1>3. resolve[p].parts \in Keys
  BY PathsResolve
<1> QED
  BY <1>1, <1>2, <1>3, WrittenInv, HalfWrittenInv DEF FailedWrite

LEMMA EditCheckInv == FileInv /\ EditCheck => FileInv'
<1> SUFFICES ASSUME FileInv, EditCheck PROVE FileInv'
  OBVIOUS
<1>1. PICK p \in Inside, old \in Tokens, new \in BoundedSeq(Tokens, 1) :
        LET key == resolve[p].parts
            data == disk[FileAt(key)]
        IN  \/ UNCHANGED <<seen, editing, told, quiet>>
            \/ /\ record(key, data)
               /\ told' = [told EXCEPT ![key] = data]
               /\ Alone(key)
               /\ UNCHANGED editing
            \/ /\ seen[key] # Unseen /\ seen[key] = data
               /\ editing' = [key |-> key, base |-> data,
                              updated |-> Replaced(data, old, new)]
               /\ UNCHANGED <<seen, told, quiet>>
  BY DEF EditCheck, check
<1> DEFINE key == resolve[p].parts
<1>2. key \in Keys
  BY PathsResolve
<1>3. UNCHANGED <<disk, shown>> /\ editing = NoEdit
  BY DEF EditCheck
<1> HIDE DEF key
<1>4. CASE UNCHANGED <<seen, editing, told, quiet>>
  BY <1>3, <1>4 DEF FileInv
<1>5. CASE /\ record(key, disk[FileAt(key)])
           /\ told' = [told EXCEPT ![key] = disk[FileAt(key)]]
           /\ Alone(key) /\ UNCHANGED editing
  BY <1>2, <1>3, <1>5 DEF FileInv, record, Alone
<1>6. CASE /\ seen[key] # Unseen /\ seen[key] = disk[FileAt(key)]
           /\ editing' = [key |-> key, base |-> disk[FileAt(key)],
                          updated |-> Replaced(disk[FileAt(key)], old, new)]
           /\ UNCHANGED <<seen, told, quiet>>
  BY <1>2, <1>3, <1>6 DEF FileInv
<1> QED
  BY <1>1, <1>4, <1>5, <1>6 DEF key

LEMMA EditWriteInv == FileInv /\ EditWrite => FileInv'
<1> SUFFICES ASSUME FileInv, EditWrite PROVE FileInv'
  OBVIOUS
<1>1. editing.key \in Keys /\ editing' = NoEdit
  BY DEF EditWrite, FileInv
<1> QED
  BY <1>1, WrittenInv, HalfWrittenInv DEF EditWrite, RecordEdit, FailedWrite

LEMMA FileNextInv == FileInv /\ [FileNext]_fileVars => FileInv'
<1> SUFFICES ASSUME FileInv, [FileNext]_fileVars PROVE FileInv'
  OBVIOUS
<1>1. CASE FileReject \/ UNCHANGED fileVars
  BY <1>1 DEF FileReject, fileVars, FileInv
<1>2. CASE Other
  BY <1>2, HalfWrittenInv DEF Other
<1> QED
  BY <1>1, <1>2, ReadInv, WriteInv, EditCheckInv, EditWriteInv DEF FileNext

LEMMA FileInvHolds == FileSpec => []FileInv
BY FileInitInv, FileNextInv, PTL DEF FileSpec

-----------------------------------------------------------------------------
\* No edit is applied over contents the agent has neither been shown nor been
\* warned of, whoever else writes the file, through whatever link, and however
\* much of a failed write is left in it (file.go:185-197).
THEOREM EditsFollowWhatWasSeen == FileSpec => []EditsAreInformed
<1>1. FileInv => EditsAreInformed
  BY DEF FileInv, EditsAreInformed
<1> QED
  BY <1>1, FileInvHolds, PTL

\* An edit is refused as stale only after somebody else touched the file: the
\* agent's own reads, writes and edits keep every record current
\* (file.go:79,129,214).
THEOREM LoneAgentIsNotRefused == FileSpec => NeverRefusedAlone
<1>1. ASSUME FileInv, EditCheck, result' = "stale"
      PROVE  \E key \in Keys : seen'[key] # seen[key] /\ key \notin quiet
  <2>1. PICK p \in Inside :
          LET key == resolve[p].parts
              data == disk[FileAt(key)]
          IN  /\ seen[key] # data
              /\ record(key, data)
    BY <1>1 DEF EditCheck, check, Answer
  <2>2. resolve[p].parts \in Keys
    BY PathsResolve
  <2> QED
    BY <1>1, <2>1, <2>2 DEF FileInv, record
<1> QED
  BY <1>1, FileInvHolds, PTL DEF NeverRefusedAlone

\* Whatever spelling a call gives a path, write and edit change only files that
\* a path under the workspace names (path.go:22-44).
THEOREM WritesAreConfined == FileSpec => Confined
<1>1. ASSUME FileInv, Write, NEW f \in Files, disk'[f] # disk[f]
      PROVE  \E key \in Keys : FileAt(key) = f /\ IsPrefix(Root, key)
  <2>1. PICK p \in Inside : \E d : disk' = [disk EXCEPT ![FileAt(resolve[p].parts)] = d]
    BY <1>1 DEF Write, FailedWrite
  <2>2. FileAt(resolve[p].parts) = f
    BY <1>1, <2>1 DEF FileInv
  <2> QED
    BY <2>2, PathsResolve
<1>2. ASSUME FileInv, EditWrite, NEW f \in Files, disk'[f] # disk[f]
      PROVE  \E key \in Keys : FileAt(key) = f /\ IsPrefix(Root, key)
  <2>1. PICK d : disk' = [disk EXCEPT ![FileAt(editing.key)] = d]
    BY <1>2 DEF EditWrite, FailedWrite
  <2>2. FileAt(editing.key) = f /\ editing.key \in Keys
    BY <1>2, <2>1 DEF FileInv, EditWrite
  <2> QED
    BY <2>2, KeysAreInside
<1>3. FileInv => (Write \/ EditWrite =>
         \A f \in Files : disk'[f] # disk[f] =>
           \E key \in Keys : FileAt(key) = f /\ IsPrefix(Root, key))
  BY <1>1, <1>2
<1> QED
  BY <1>3, FileInvHolds, PTL DEF Confined

-----------------------------------------------------------------------------
(* One command *)

LEMMA ExecInitInv == Init => ExecInv
BY DEF Init, ExecInv, Waited

LEMMA ExecNextInv == ExecInv /\ [Next]_vars => ExecInv'
<1> SUFFICES ASSUME ExecInv, [Next]_vars PROVE ExecInv'
  OBVIOUS
<1> USE DEF ExecInv, Waited, Outcome, exitCode
<1>1. CASE Begin
  BY <1>1 DEF Begin
<1>2. CASE StartFails
  BY <1>2 DEF StartFails
<1>3. CASE Spawn \/ JobEnds
  BY <1>3 DEF Spawn, JobEnds
<1>4. CASE MainExits
  BY <1>4 DEF MainExits
<1>5. CASE ClientExits
  BY <1>5 DEF ClientExits
<1>6. CASE ClientFails
  BY <1>6 DEF ClientFails
<1>7. CASE Deadline
  BY <1>7 DEF Deadline
<1>8. CASE Kill
  BY <1>8 DEF Kill, Watches
<1>9. CASE WaitReturns
  BY <1>9 DEF WaitReturns
<1>10. CASE Return
  BY <1>10 DEF Return
<1>11. CASE UNCHANGED vars
  BY <1>11 DEF vars
<1> QED
  BY <1>1, <1>2, <1>3, <1>4, <1>5, <1>6, <1>7, <1>8, <1>9, <1>10, <1>11
  DEF Next, Caller

LEMMA ExecInvHolds == Spec => []ExecInv
BY ExecInitInv, ExecNextInv, PTL DEF Spec

LEMMA ReturnTells ==
  ASSUME ExecInv, Return
  PROVE  /\ OK(res') => main = "exited" /\ code = 0 /\ (remote \/ jobs = 0)
         /\ res'.exit > 0 => \/ main = "exited" /\ res'.exit = code
                             \/ client = "failed"
         /\ Waited = "killed" => res'.timedOut
<1>1. /\ Drained /\ res'.timedOut = ctx
      /\ res'.exit = IF ctx /\ exitCode(Waited) = 0 THEN -1 ELSE exitCode(Waited)
  BY DEF Return, Outcome
<1> QED
  BY <1>1 DEF ExecInv, Waited, exitCode, OK, Drained

\* A Result that says OK is that of a command that ended by itself with 0, and
\* of a local one has all the output; a status that says failure is the
\* command's own unless the runtime's client failed; a killed command is told
\* as timed out (sandbox.go:84-97, local.go:78-94, container.go:191-203).
THEOREM ResultsAreOutcomes == Spec => ResultIsOutcome
BY ExecInvHolds, ReturnTells, PTL DEF ResultIsOutcome

-----------------------------------------------------------------------------
(* The tools over it *)

\* A tool's call is one Exec of a sandbox, and what it adds.
LEMMA ToolsExecute ==
  /\ ToolInit => Init
  /\ [ToolNext]_allVars => [Next]_vars
BY DEF ToolInit, ToolNext, allVars, toolVars, Asked, World, Prints, Exits, Reject,
       Starts, Waits, Tell, Next, Caller, vars

LEMMA ToolsAreExecs == ToolSpec => Spec
BY ToolsExecute, PTL DEF ToolSpec, Spec

OutInv == out \in Nat /\ err \in Nat /\ tool \in {"bash", "grep", "glob"}

LEMMA OutInvHolds == ToolSpec => []OutInv
<1>1. ToolInit => OutInv
  BY DEF ToolInit, OutInv
<1>2. OutInv /\ [ToolNext]_allVars => OutInv'
  <2> SUFFICES ASSUME OutInv, [ToolNext]_allVars PROVE OutInv'
    OBVIOUS
  <2>1. CASE Prints
    BY <2>1 DEF Prints, OutInv
  <2>2. CASE ~Prints
    BY <2>2 DEF OutInv, ToolNext, allVars, toolVars, Asked, World, Exits, Reject,
                Starts, Waits, Tell
  <2> QED
    BY <2>1, <2>2
<1> QED
  BY <1>1, <1>2, PTL DEF ToolSpec

\* What a returned call says of the command.
LEMMA ReturnedTells ==
  ASSUME ExecInv, call = "returned"
  PROVE  /\ OK(res) => main = "exited" /\ code = 0 /\ client \notin {"killed", "failed"}
         /\ res.exit = 1 /\ client # "failed" =>
              main = "exited" /\ code = 1 /\ client # "killed"
<1>1. /\ res.timedOut = ctx
      /\ res.exit = IF ctx /\ exitCode(Waited) = 0 THEN -1 ELSE exitCode(Waited)
  BY DEF ExecInv, Outcome
<1> QED
  BY <1>1 DEF ExecInv, Waited, exitCode, OK

\* A told output is the whole of it or says that it was cut.
LEMMA ToldIs ==
  ASSUME NEW says, NEW error, NEW n
  PROVE  /\ Told(says, error, n).says = says
         /\ Told(says, error, n).error = error
         /\ Told(says, error, n).cut \/ Told(says, error, n).shown = n
<1>1. truncate(n).cut = (n > OutputLimit)
      /\ truncate(n).shown = IF n > OutputLimit THEN OutputLimit ELSE n
  BY DEF truncate
<1> QED
  BY <1>1 DEF Told

LEMMA TellTells ==
  ASSUME ExecInv, OutInv, Tell, ~answer'.error, ~(tool = "grep" /\ client = "failed")
  PROVE  /\ main = "exited" /\ code \in {0, 1} /\ (code = 1 => tool = "grep")
         /\ answer'.says = "output" =>
              answer'.cut \/ answer'.shown = Joined(out, IF tool = "bash" THEN err ELSE 0)
         /\ answer'.says \in {"no matches", "no files matched"} => out = 0
<1>1. call = "returned"
  BY DEF Tell
<1>2. PICK o \in Captured(out), e \in Captured(err) : answer' = ToolAnswer(res, o, e)
  BY DEF Tell
<1>3. client \notin {"killed", "failed"} => o = out /\ e = err
  BY DEF Captured
<1>4. CASE tool = "bash"
  <2>1. answer' = BashAnswer(res, o, e)
    BY <1>2, <1>4 DEF ToolAnswer
  <2>2. OK(res)
    BY <2>1, ToldIs DEF BashAnswer
  <2>3. main = "exited" /\ code = 0 /\ o = out /\ e = err
    BY <1>1, <1>3, <2>2, ReturnedTells
  <2>4. answer'.says = "output" /\ (answer'.cut \/ answer'.shown = Joined(out, err))
    BY <2>1, <2>2, <2>3, ToldIs DEF BashAnswer, OK
  <2> QED
    BY <1>4, <2>3, <2>4
<1>5. CASE tool = "grep"
  <2>1. answer' = GrepAnswer(res, o)
    BY <1>2, <1>5 DEF ToolAnswer
  <2>2. Joined(out, 0) = out
    BY DEF OutInv, Joined
  <2>3. CASE NoMatches(res, o)
    <3>1. main = "exited" /\ code = 1 /\ o = out /\ o = 0
      BY <1>1, <1>3, <1>5, <2>3, ReturnedTells DEF NoMatches
    <3> QED
      BY <1>5, <2>1, <2>3, <3>1 DEF GrepAnswer, Finds
  <2>4. CASE ~NoMatches(res, o)
    <3>1. OK(res)
      BY <2>1, <2>4 DEF GrepAnswer, Errorf
    <3>2. main = "exited" /\ code = 0 /\ o = out
      BY <1>1, <1>3, <3>1, ReturnedTells
    <3>3. answer' = Told("output", FALSE, out)
      BY <2>1, <2>4, <3>1, <3>2 DEF GrepAnswer
    <3>4. answer'.says = "output" /\ (answer'.cut \/ answer'.shown = out)
      BY <3>3 DEF Told, truncate
    <3> QED
      BY <1>5, <2>2, <3>2, <3>4
  <2> QED
    BY <2>3, <2>4
<1>6. CASE tool = "glob"
  <2>1. answer' = GlobAnswer(res, o)
    BY <1>2, <1>6 DEF ToolAnswer
  <2>2. OK(res)
    BY <2>1 DEF GlobAnswer, Errorf
  <2>3. main = "exited" /\ code = 0 /\ o = out
    BY <1>1, <1>3, <2>2, ReturnedTells
  <2>4. Joined(out, 0) = out
    BY DEF OutInv, Joined
  <2>5. CASE out = 0
    <3>1. answer' = Finds("no files matched")
      BY <2>1, <2>2, <2>3, <2>5 DEF GlobAnswer
    <3>2. answer'.says # "output"
      BY <3>1 DEF Finds
    <3> QED
      BY <1>6, <2>3, <2>5, <3>2
  <2>6. CASE out # 0
    <3>1. answer' = Told("output", FALSE, out)
      BY <2>1, <2>2, <2>3, <2>6 DEF GlobAnswer
    <3>2. answer'.says = "output" /\ (answer'.cut \/ answer'.shown = out)
      BY <3>1 DEF Told, truncate
    <3> QED
      BY <1>6, <2>3, <2>4, <3>2
  <2> QED
    BY <2>5, <2>6
<1> QED
  BY <1>4, <1>5, <1>6 DEF OutInv

\* What the model reads as a success is about a command that ran to its end,
\* and is the whole of it or says that the rest was cut; "no matches" and "no
\* files matched" mean that nothing was printed (exec.go:68-90, 149-162,
\* 204-221).
THEOREM AnswersAreTrue == ToolSpec => AnswersTellTheOutcome
<1>1. ExecInv /\ OutInv =>
        (Tell /\ ~answer'.error /\ ~(tool = "grep" /\ client = "failed") =>
           /\ main = "exited" /\ code \in {0, 1} /\ (code = 1 => tool = "grep")
           /\ answer'.says = "output" =>
                answer'.cut \/ answer'.shown = Joined(out, IF tool = "bash" THEN err ELSE 0)
           /\ answer'.says \in {"no matches", "no files matched"} => out = 0)
  BY TellTells
<1> QED
  BY <1>1, ToolsAreExecs, ExecInvHolds, OutInvHolds, PTL DEF AnswersTellTheOutcome
=============================================================================
