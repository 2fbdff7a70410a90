----------------------------- MODULE FileTools ------------------------------
(***************************************************************************)
(* The three file tools and the state they share: internal/tool/file.go    *)
(* and path.go, over internal/sandbox/local.  A path is a sequence of      *)
(* components with a flag for the leading slash, a file's contents are a   *)
(* sequence of tokens, and two paths may name one file (a link).           *)
(*                                                                         *)
(* The agent makes one call at a time.  Between calls a bash command may   *)
(* change any file; a process it left behind may also do so in the middle  *)
(* of an edit, between ReadFile and WriteFile.                             *)
(***************************************************************************)
EXTENDS Integers, SequencesExt

CONSTANTS Root,       \* the workspace, as a sequence of components
          Paths,      \* the paths a model writes in a call
          Files,      \* the files there are, inside the workspace or not
          FileAt(_),  \* the file a cleaned path names
          Tokens,     \* what a file is made of
          MaxLen,     \* bound on the length of a file
          Background  \* may a process left behind by bash still run?

ASSUME FileAssumption == /\ MaxLen \in Nat
                         /\ Background \in BOOLEAN

Contents == BoundedSeq(Tokens, MaxLen)
Absent   == <<"absent">>
Unseen   == <<"unseen">>

VARIABLES disk,    \* contents of each file, or Absent
          seen,    \* fileState.seen: the contents last recorded for a path
          editing, \* the edit between its check and its WriteFile
          result,  \* what the last call answered
          shown,   \* history: contents the conversation last carried for a path
          told,    \* history: contents a path had when edit last said "changed"
          quiet    \* history: paths nobody else has touched since the last call

fileVars == <<disk, seen, editing, result, shown, told, quiet>>

-----------------------------------------------------------------------------
(* path.Clean, path.Join and resolve *)

Component(done, c) == IF c = "." THEN done
                      ELSE IF c # ".." THEN Append(done, c)
                      ELSE IF done = <<>> THEN done ELSE Front(done)

Clean(parts) == FoldLeft(Component, <<>>, parts)

Absolute(p) == IF p.abs THEN p.parts ELSE Root \o p.parts

\* The cleaned path, and whether it is the workspace or under it.
MutResolveUnclean ==
  [p \in Paths |-> [parts |-> Clean(Absolute(p)),
                    ok |-> p.parts # <<>> /\ IsPrefix(Root, Absolute(p))]]

resolve ==
  [p \in Paths |-> [parts |-> Clean(Absolute(p)),
                    ok |-> p.parts # <<>> /\ IsPrefix(Root, Clean(Absolute(p)))]]

Inside == {p \in Paths : resolve[p].ok}

Keys == {resolve[p].parts : p \in Inside}

ASSUME KeysAssumption == \A key \in Keys : FileAt(key) \in Files

-----------------------------------------------------------------------------
(* Calls *)

NoEdit == [key |-> <<>>, base |-> <<>>, updated |-> <<>>]

Answer(status) == result' = status

\* The conversation now carries these contents for the path, and whoever
\* reads it back through another path of the same file sees a change.
Learn(key, data) ==
  /\ shown' = [shown EXCEPT ![key] = data]
  /\ UNCHANGED told

Alone(key) == quiet' = quiet \cup {key}

AloneAfterChange(key) ==
  quiet' = {q \in quiet : FileAt(q) # FileAt(key)} \cup {key}

Disturb(file) == quiet' = {q \in quiet : FileAt(q) # file}

record(key, data) == seen' = [seen EXCEPT ![key] = data]

\* ReadFile finds something to read.
Readable(file) == disk[file] # Absent

\* A call whose arguments do not decode, or whose path does not resolve.
FileReject ==
  /\ editing = NoEdit
  /\ Answer("error")
  /\ UNCHANGED <<disk, seen, editing, shown, told, quiet>>

Read ==
  /\ editing = NoEdit
  /\ \E p \in Inside :
       LET key == resolve[p].parts
           data == disk[FileAt(key)]
       IN  /\ Readable(FileAt(key))
           /\ record(key, data)
           /\ Learn(key, data)
           /\ Alone(key)
  /\ Answer("ok")
  /\ UNCHANGED <<disk, editing>>

\* os.WriteFile truncates before it writes: a failure may leave the file as
\* it was or any shorter part of the new contents in it.
FailedWrite(file, data) ==
  \E left \in {disk[file]} \cup {SubSeq(data, 1, n) : n \in 0..Len(data)} :
    disk' = [disk EXCEPT ![file] = left]

Write ==
  /\ editing = NoEdit
  /\ \E p \in Inside, data \in Contents :
       LET key == resolve[p].parts
           file == FileAt(key)
       IN  \/ /\ disk' = [disk EXCEPT ![file] = data]
              /\ record(key, data)
              /\ Learn(key, data)
              /\ AloneAfterChange(key)
              /\ Answer("ok")
           \/ /\ FailedWrite(file, data)
              /\ Disturb(file)
              /\ Answer("error")
              /\ UNCHANGED <<seen, shown, told>>
  /\ UNCHANGED editing

-----------------------------------------------------------------------------
(* Edit *)

Occurrences(data, old) == {i \in DOMAIN data : data[i] = old}

\* new is <<>> or one token, so an edit may delete as well as replace.
Replaced(data, old, new) ==
  LET i == CHOOSE n \in Occurrences(data, old) :
             \A m \in Occurrences(data, old) : n <= m
  IN  SubSeq(data, 1, i - 1) \o new \o SubSeq(data, i + 1, Len(data))

MutCheckSeen(key, data) == [seen |-> seen[key] # Unseen, current |-> TRUE]

check(key, data) == [seen |-> seen[key] # Unseen, current |-> seen[key] = data]

\* Up to the point where edit has decided: unread, stale, or applicable.
EditCheck ==
  /\ editing = NoEdit
  /\ \E p \in Inside, old \in Tokens, new \in BoundedSeq(Tokens, 1) :
       LET key == resolve[p].parts
           data == disk[FileAt(key)]
           c == check(key, data)
           fits == c.seen /\ c.current
           one == \E i \in DOMAIN data : Occurrences(data, old) = {i}
       IN  /\ new # <<old>> /\ Readable(FileAt(key))
           /\ \/ /\ ~c.seen
                 /\ Answer("unread")
                 /\ UNCHANGED <<seen, editing, told, quiet>>
              \/ /\ c.seen /\ ~c.current
                 /\ record(key, data)
                 /\ told' = [told EXCEPT ![key] = data]
                 /\ Alone(key)
                 /\ Answer("stale")
                 /\ UNCHANGED editing
              \/ /\ fits /\ ~one
                 /\ Answer("error")
                 /\ UNCHANGED <<seen, editing, told, quiet>>
              \/ /\ fits /\ one
                 /\ editing' = [key |-> key, base |-> data,
                                updated |-> Replaced(data, old, new)]
                 /\ Answer("editing")
                 /\ UNCHANGED <<seen, told, quiet>>
  /\ UNCHANGED <<disk, shown>>

\* WriteFile, and record when it succeeded.
MutKeepRecord(key, data) == UNCHANGED seen

RecordEdit(key, data) == record(key, data)

EditWrite ==
  /\ editing # NoEdit
  /\ LET key == editing.key
         file == FileAt(key)
     IN  \/ /\ disk' = [disk EXCEPT ![file] = editing.updated]
            /\ RecordEdit(key, editing.updated)
            /\ Learn(key, editing.updated)
            /\ AloneAfterChange(key)
            /\ Answer("ok")
         \/ /\ FailedWrite(file, editing.updated)
            /\ Disturb(file)
            /\ Answer("error")
            /\ UNCHANGED <<seen, shown, told>>
  /\ editing' = NoEdit

-----------------------------------------------------------------------------
\* A bash command, or a process one left running, changes a file.
Other ==
  /\ editing = NoEdit \/ Background
  /\ \E file \in Files, data \in Contents \cup {Absent} :
       /\ data # disk[file]
       /\ disk' = [disk EXCEPT ![file] = data]
       /\ Disturb(file)
  /\ UNCHANGED <<seen, editing, result, shown, told>>

FileInit ==
  /\ disk \in [Files -> Contents \cup {Absent}]
  /\ seen = [k \in Keys |-> Unseen]
  /\ editing = NoEdit
  /\ result = "none"
  /\ shown = [k \in Keys |-> Unseen]
  /\ told = [k \in Keys |-> Unseen]
  /\ quiet = {}

FileNext == FileReject \/ Read \/ Write \/ EditCheck \/ EditWrite \/ Other

FileSpec == FileInit /\ [][FileNext]_fileVars

-----------------------------------------------------------------------------
(* Properties *)

\* An edit goes ahead only over contents the agent has been shown or has been
\* warned about: whatever another process, a link or a half-failed write put
\* in the file, the first edit after it is refused (file.go:185-197).
EditsAreInformed ==
  editing # NoEdit => editing.base \in {shown[editing.key], told[editing.key]}

\* An agent that works alone is never told its file changed: its own reads,
\* writes and edits keep the record current (file.go:79,129,214).
NeverRefusedAlone ==
  [][EditCheck /\ result' = "stale" =>
       \E key \in Keys : seen'[key] # seen[key] /\ key \notin quiet]_fileVars

\* The inductive invariant behind the two: what is on record for a path the
\* conversation carried or was warned of; an edit under way is one of such a
\* path, over what is on record; and a path nobody else has touched since its
\* last call is on record with what its file holds.
FileInv ==
  /\ DOMAIN disk = Files
  /\ DOMAIN seen = Keys /\ DOMAIN shown = Keys /\ DOMAIN told = Keys
  /\ \A key \in Keys : seen[key] # Unseen => seen[key] \in {shown[key], told[key]}
  /\ editing # NoEdit => /\ editing.key \in Keys
                        /\ editing.base = seen[editing.key]
                        /\ seen[editing.key] # Unseen
  /\ quiet \subseteq Keys
  /\ \A key \in quiet : seen[key] = disk[FileAt(key)]

\* write and edit change no file but those that a path under the workspace
\* names, whatever the spelling of the path; a link inside it may lead out
\* (path.go:22-44).
Confined ==
  [][Write \/ EditWrite =>
       \A f \in Files : disk'[f] # disk[f] => \E key \in Keys : FileAt(key) = f
                                              /\ IsPrefix(Root, key)]_fileVars
=============================================================================
